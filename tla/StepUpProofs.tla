--------------------------- MODULE StepUpProofs ---------------------------
(***************************************************************************)
(* What authorization rests on: StepUp, and below it the issuer's keys     *)
(* that a token is checked with, KeySet.                                   *)
(*                                                                         *)
(* StepUp for every set of requests, tokens and plans, and every choice of *)
(* the modes and times that TokensAssumption and TimesAssumption allow:    *)
(* a door needs its own spent token, a token is spent once, safe steps     *)
(* run, and StepUp implements SpendOnce.  KeySet for all keys, lifetimes   *)
(* and intervals that KeyTimesAssumption allows.                           *)
(***************************************************************************)
EXTENDS StepUp, KeySet, TLAPS

\* A request is somewhere in its life: what it has done so far fits its place.
Progress(r) ==
    /\ pc[r] = "idle" => principal[r] = NoToken /\ ~stepped[r] /\ ran[r] = {}
    /\ pc[r] \in {"idle", "tool", "claim_tool", "resolve"} =>
          plan[r] = << >> /\ next[r] = 1 /\ ran[r] \subseteq {0}
    /\ pc[r] \in {"tool", "claim_tool"} => ~stepped[r]
    /\ pc[r] = "claim_step" => next[r] <= Len(plan[r]) /\ Opens(NextStep(r))
    /\ pc[r] = "done" => next[r] > Len(plan[r])
    /\ 1 <= next[r]

\* Every step behind the request was run or opens something; every step that
\* ran and opens something ran in a request that has stepped up.
StepsAccounted(r) ==
    \A i \in DOMAIN plan[r] :
        /\ i < next[r] => i \in ran[r] \/ Opens(plan[r][i])
        /\ i \in ran[r] /\ Opens(plan[r][i]) => stepped[r]

\* Only a JWT minted at most StepUpSeconds before the request arrived is claimed.
FreshClaim(r) ==
    /\ principal[r] \in Tokens
    /\ MaySpend(r)
    /\ principal[r].iat < principal[r].exp
    /\ started[r] <= principal[r].iat + StepUpSeconds

InTime(r) ==
    Active(r) => started[r] <= now /\ now <= started[r] + LambdaTimeout

\* The ledger remembers a spent token until nobody can claim it any more.
Remembered(j) ==
    spender[j] # Nobody =>
        \A t \in Tokens : t.method = "jwt" /\ t.jti = j =>
            ledger[j] = t.exp + Grace \/ now > t.exp + Grace

RequestInv(r) ==
    /\ Progress(r)
    /\ StepsAccounted(r)
    /\ InTime(r)
    /\ principal[r] \in Tokens /\ principal[r].method = "jwt"
          => principal[r].iat < principal[r].exp
    /\ Claiming(r) => FreshClaim(r) /\ ~stepped[r]
    /\ stepped[r] => FreshClaim(r) /\ spender[principal[r].jti] = r
    /\ ran[r] \subseteq {0} \cup DOMAIN plan[r]

IInv == /\ \A r \in Requests : RequestInv(r)
        /\ \A j \in Jtis : Remembered(j)

-----------------------------------------------------------------------------
LEMMA NoTokenIsNotAToken == NoToken \notin Tokens
  BY TokensAssumption DEF NoToken, TokenType

LEMMA OpensIsPhysicalAccess == \A s \in Step : Opens(s) <=> IsPhysicalAccess(s)
  BY DEF Opens, IsPhysicalAccess, PHYSICAL_ACCESS_ACTIONS

LEMMA OpensNextIsPhysical ==
    ASSUME TypeOK, NEW r \in Requests, AtStep(r)
    PROVE  /\ next[r] \in Nat
           /\ next[r] >= 1 => next[r] \in DOMAIN plan[r]
           /\ next[r] >= 1 => (Opens(NextStep(r)) <=> IsPhysicalAccess(NextStep(r)))
<1>1. plan[r] \in Seq(Step)
  BY TokensAssumption DEF TypeOK
<1>2. next[r] \in Nat
  BY DEF TypeOK
<1>3. next[r] >= 1 => next[r] \in DOMAIN plan[r]
  BY <1>1, <1>2 DEF AtStep
<1>4. QED
  BY <1>1, <1>2, <1>3, OpensIsPhysicalAccess DEF NextStep

\* A claim in flight is by a bound principal, so the item it writes is well formed.
LEMMA WrittenIsTyped ==
    ASSUME TypeOK, NEW r \in Requests, principal[r] \in Tokens
    PROVE  Jti(r) \in Jtis /\ Written(r) \in [Jtis -> Nat]
<1>1. principal[r] \in TokenType
  BY TokensAssumption
<1>2. principal[r].jti \in Jtis /\ principal[r].exp + Grace \in Nat
  BY <1>1, TimesAssumption DEF TokenType
<1>3. QED
  BY <1>2 DEF Written, Jti, TypeOK

LEMMA TypeStep ==
    ASSUME TypeOK, [Next]_vars,
           \A r \in Requests : Claiming(r) => principal[r] \in Tokens
    PROVE  TypeOK'
<1> USE DEF TypeOK, Locations
<1>1. ASSUME NEW r \in Requests, NEW c \in Calls, NEW p \in Tokens \cup {NoToken},
             NEW to \in Locations, Arrive(r, c, p, to)
      PROVE TypeOK'
  BY <1>1, TokensAssumption DEF Arrive
<1>2. ASSUME NEW r \in Requests, NEW c \in Calls, AdmitUnbound(r, c) PROVE TypeOK'
  BY <1>1, <1>2 DEF AdmitUnbound, AfterTool
<1>3. ASSUME NEW r \in Requests, NEW c \in Calls, NEW t \in Tokens,
             Admit(r, c, t) \/ Reject(r, c, t)
      PROVE TypeOK'
  BY <1>1, <1>3 DEF Admit, Reject
<1>4. ASSUME NEW r \in Requests, RefuseTool(r) \/ AskLedgerForTool(r) \/ Finish(r)
                                 \/ AskLedgerForStep(r) \/ TimeOut(r)
      PROVE TypeOK'
  <2>1. \E l \in Locations : pc' = [pc EXCEPT ![r] = l]
    BY <1>4 DEF RefuseTool, AskLedgerForTool, Finish, AskLedgerForStep, TimeOut
  <2>2. UNCHANGED <<now, ledger, call, principal, stepped, started, plan, next,
                    ran, denied, spender>>
    BY <1>4 DEF RefuseTool, AskLedgerForTool, Finish, AskLedgerForStep, TimeOut
  <2>3. QED
    BY <2>1, <2>2
<1>5. ASSUME NEW r \in Requests, CallTool(r) \/ Resolve(r) PROVE TypeOK'
  <2>1. AfterTool(call[r]) \in Locations /\ ran[r] \cup {0} \in SUBSET Nat
    BY DEF AfterTool
  <2>2. CASE CallTool(r)
    BY <2>1, <2>2 DEF CallTool
  <2>3. CASE Resolve(r)
    <3>1. PICK p \in Plans : plan' = [plan EXCEPT ![r] = p]
      BY <2>3 DEF Resolve
    <3>2. p \in Seq(Step)
      BY TokensAssumption
    <3>3. QED
      BY <2>3, <3>1, <3>2 DEF Resolve
  <2>4. QED
    BY <1>5, <2>2, <2>3
<1>6. ASSUME NEW r \in Requests, RunStep(r) \/ DenyStep(r) PROVE TypeOK'
  <2>1. next[r] \in Nat /\ ran[r] \cup {next[r]} \in SUBSET Nat /\ denied[r] \cup {next[r]} \in SUBSET Nat
    OBVIOUS
  <2>2. CASE RunStep(r)
    BY <2>1, <2>2 DEF RunStep
  <2>3. CASE DenyStep(r)
    BY <2>1, <2>3 DEF DenyStep
  <2>4. QED
    BY <1>6, <2>2, <2>3
<1>7. ASSUME NEW r \in Requests, ClaimForStep(r) \/ ClaimForTool(r) PROVE TypeOK'
  <2>1. Jti(r) \in Jtis /\ Written(r) \in [Jtis -> Nat]
    BY <1>7, WrittenIsTyped DEF ClaimForStep, ClaimForTool, Claiming
  <2>2. ran[r] \cup {0} \in SUBSET Nat
    OBVIOUS
  <2>3. CASE ClaimForStep(r)
    BY <2>1, <2>3 DEF ClaimForStep, Spend
  <2>4. CASE ClaimForTool(r)
    BY <2>1, <2>2, <2>4 DEF ClaimForTool, Spend
  <2>5. QED
    BY <1>7, <2>3, <2>4
<1>8. ASSUME NEW r \in Requests, ClaimReplayed(r) \/ ClaimLost(r) PROVE TypeOK'
  <2>1. Refused(r) /\ (ledger' = ledger \/ ledger' = Written(r))
    BY <1>8 DEF ClaimReplayed, ClaimLost
  <2>2. ledger' \in [Jtis -> Nat]
    BY <2>1, WrittenIsTyped DEF Refused, RefusedStep, RefusedTool, Claiming
  <2>3. next[r] + 1 \in Nat /\ denied[r] \cup {next[r]} \in SUBSET Nat
    OBVIOUS
  <2>4. CASE RefusedStep(r)
    BY <2>2, <2>3, <2>4 DEF RefusedStep
  <2>5. CASE RefusedTool(r)
    BY <2>2, <2>5 DEF RefusedTool
  <2>6. QED
    BY <2>1, <2>4, <2>5 DEF Refused
<1>10. ASSUME NEW j \in Jtis, ExpireItem(j) PROVE TypeOK'
  BY <1>10 DEF ExpireItem
<1>11. CASE Tick
  BY <1>11 DEF Tick
<1>12. CASE UNCHANGED vars
  BY <1>12 DEF vars
<1>13. QED
  BY <1>2, <1>3, <1>4, <1>5, <1>6, <1>7, <1>8, <1>10, <1>11, <1>12 DEF Next, Handle

-----------------------------------------------------------------------------
(* The inductive invariant, one action at a time *)

\* What another request does leaves this one's part of the invariant alone.
LEMMA Frame ==
    ASSUME NEW s \in Requests, RequestInv(s), now' = now,
           pc'[s] = pc[s], call'[s] = call[s], principal'[s] = principal[s],
           stepped'[s] = stepped[s], started'[s] = started[s],
           plan'[s] = plan[s], next'[s] = next[s], ran'[s] = ran[s],
           stepped[s] => spender'[principal[s].jti] = spender[principal[s].jti]
    PROVE  RequestInv(s)'
<1>1. Progress(s)'
  BY DEF RequestInv, Progress, NextStep
<1>2. StepsAccounted(s)'
  BY DEF RequestInv, StepsAccounted
<1>3. InTime(s)'
  BY DEF RequestInv, InTime, Active
<1>4. FreshClaim(s) => FreshClaim(s)'
  BY DEF FreshClaim, MaySpend, Door
<1>5. QED
  BY <1>1, <1>2, <1>3, <1>4 DEF RequestInv, Claiming

\* Actions that write neither the ledger nor the clock keep what it remembers.
LEMMA LedgerFrame ==
    ASSUME now' = now, ledger' = ledger, spender' = spender, \A j \in Jtis : Remembered(j)
    PROVE  \A j \in Jtis : Remembered(j)'
BY DEF Remembered

\* A request arrives with a token, or without one.
Arrival(r, c, p) ==
    \/ p \in Tokens /\ (Admit(r, c, p) \/ Reject(r, c, p))
    \/ p = NoToken /\ AdmitUnbound(r, c)

LEMMA InvArrive ==
    ASSUME TypeOK, IInv, NEW r \in Requests, NEW c \in Calls,
           NEW t \in Tokens \cup {NoToken}, Arrival(r, c, t)
    PROVE  IInv'
<1>1. PICK p \in {t, NoToken}, to \in {"tool", "resolve", "done"} :
         /\ Arrive(r, c, p, to)
         /\ p # NoToken => Verified(p)
         /\ p = NoToken => to # "tool"
  BY NoTokenIsNotAToken DEF Arrival, Admit, Reject, AdmitUnbound, AfterTool
<1>2. \A s \in Requests \ {r} : RequestInv(s)'
  BY <1>1, Frame DEF Arrive, IInv, TypeOK
<1>3. RequestInv(r)'
  <2> USE <1>1 DEF Arrive, TypeOK, IInv, RequestInv
  <2>1. Progress(r)'
    BY DEF Progress
  <2>2. StepsAccounted(r)'
    BY DEF StepsAccounted, Progress
  <2>3. InTime(r)'
    BY TimesAssumption DEF InTime
  <2>4. ~stepped'[r] /\ ~Claiming(r)' /\ ran'[r] = {}
    BY DEF Progress, Claiming
  <2>5. principal'[r] \in Tokens /\ principal'[r].method = "jwt"
          => principal'[r].iat < principal'[r].exp
    BY NoTokenIsNotAToken, TokensAssumption DEF Verified, TokenType
  <2>6. QED
    BY <2>1, <2>2, <2>3, <2>4, <2>5
<1>4. QED
  BY <1>1, <1>2, <1>3, LedgerFrame DEF IInv, Arrive

LEMMA InvTool ==
    ASSUME TypeOK, IInv, NEW r \in Requests,
           RefuseTool(r) \/ CallTool(r) \/ AskLedgerForTool(r)
    PROVE  IInv'
<1>1. \A s \in Requests \ {r} : RequestInv(s)'
  BY Frame DEF IInv, TypeOK, RefuseTool, CallTool, AskLedgerForTool
<1>2. /\ pc[r] = "tool" /\ RequestInv(r)
      /\ pc'[r] \in {"done", "resolve", "claim_tool"}
      /\ ran'[r] \subseteq {0}
      /\ UNCHANGED <<now, ledger, call, principal, stepped, started, plan, next, spender>>
  BY DEF IInv, TypeOK, RefuseTool, CallTool, AskLedgerForTool, AfterTool, RequestInv, Progress
<1>3. RequestInv(r)'
  <2> USE <1>2 DEF TypeOK, RequestInv
  <2>1. Progress(r)'
    BY DEF Progress
  <2>2. StepsAccounted(r)'
    BY DEF StepsAccounted, Progress
  <2>3. InTime(r)'
    BY DEF InTime, Active
  <2>4. pc'[r] = "claim_tool" => FreshClaim(r)' /\ ~stepped[r]
    <3> SUFFICES ASSUME pc'[r] = "claim_tool" PROVE FreshClaim(r) /\ ~stepped[r]
      BY DEF FreshClaim, MaySpend, Door
    <3>1. AskLedgerForTool(r)
      BY DEF RefuseTool, CallTool, AfterTool
    <3>2. call[r].op = "destructive" /\ ToolPolicy(r).scope = "destructive"
          /\ ~ToolPolicy(r).delegable
      BY <3>1 DEF AskLedgerForTool, ToolPolicy, Policy
    <3>3. Permitted(Door(r), principal[r], ToolPolicy(r))
      BY <3>1, <3>2 DEF AskLedgerForTool, ToolPermitted, Forgiven
    <3>4. Fresh(Door(r), principal[r])
      BY <3>1 DEF AskLedgerForTool
    <3>5. principal[r] # NoToken /\ principal[r] \in Tokens
      BY <3>4 DEF Fresh, NoToken
    <3>6. MaySpend(r)
      BY <3>2, <3>3, <3>4, <3>5 DEF MaySpend, Permitted, Fresh
    <3>7. started[r] <= principal[r].iat + StepUpSeconds
      BY <3>4, <3>5, TokensAssumption, TimesAssumption DEF Fresh, TokenType, InTime, Active
    <3>8. ~stepped[r]
      BY DEF Progress
    <3>9. QED
      BY <3>4, <3>5, <3>6, <3>7, <3>8 DEF FreshClaim, Fresh
  <2>5. QED
    BY <2>1, <2>2, <2>3, <2>4 DEF Claiming, FreshClaim, MaySpend, Door
<1>4. QED
  BY <1>1, <1>2, <1>3, LedgerFrame DEF IInv

LEMMA InvResolve ==
    ASSUME TypeOK, IInv, NEW r \in Requests, Resolve(r)
    PROVE  IInv'
<1>1. \A s \in Requests \ {r} : RequestInv(s)'
  BY Frame DEF IInv, TypeOK, Resolve
<1>2. PICK p \in Plans : plan' = [plan EXCEPT ![r] = p]
  BY DEF Resolve
<1>3. /\ pc[r] = "resolve" /\ pc'[r] = "steps" /\ plan'[r] = p /\ p \in Seq(Step)
      /\ UNCHANGED <<now, ledger, call, principal, stepped, started, next, ran, spender>>
      /\ RequestInv(r)
  BY <1>2, TokensAssumption DEF Resolve, TypeOK, IInv
<1>4. RequestInv(r)'
  <2> USE <1>3 DEF RequestInv
  <2>1. Progress(r)'
    BY DEF Progress
  <2>2. StepsAccounted(r)'
    BY DEF StepsAccounted, Progress
  <2>3. InTime(r)'
    BY DEF InTime, Active
  <2>4. FreshClaim(r) => FreshClaim(r)'
    BY DEF FreshClaim, MaySpend, Door
  <2>5. ~Claiming(r)' /\ ran'[r] \subseteq {0}
    BY DEF Claiming, Progress
  <2>6. QED
    BY <2>1, <2>2, <2>3, <2>4, <2>5
<1>5. QED
  BY <1>1, <1>3, <1>4, LedgerFrame DEF IInv

\* One step of the plan behind the request: run, or refused because it opens.
LEMMA InvAdvance ==
    ASSUME TypeOK, NEW r \in Requests, RequestInv(r),
           pc[r] \in {"steps", "claim_step"}, next[r] <= Len(plan[r]), pc'[r] = "steps",
           UNCHANGED <<now, call, principal, stepped, started, plan>>,
           spender' = spender, next'[r] = next[r] + 1,
           \/ ran'[r] = ran[r] \cup {next[r]} /\ (Opens(NextStep(r)) => stepped[r])
           \/ ran'[r] = ran[r] /\ Opens(NextStep(r))
    PROVE  RequestInv(r)'
<1> USE DEF RequestInv
<1>1. /\ plan[r] \in Seq(Step) /\ next[r] \in Nat /\ 1 <= next[r]
      /\ next[r] \in DOMAIN plan[r]
  BY TokensAssumption DEF TypeOK, Progress
<1>2. Progress(r)'
  BY <1>1 DEF Progress
<1>3. StepsAccounted(r)'
  <2>1. \A i \in DOMAIN plan[r] : i < next[r] + 1 => i < next[r] \/ i = next[r]
    BY <1>1
  <2>2. QED
    BY <1>1, <2>1 DEF StepsAccounted, NextStep
<1>4. InTime(r)'
  BY DEF InTime, Active
<1>5. FreshClaim(r) => FreshClaim(r)'
  BY DEF FreshClaim, MaySpend, Door
<1>6. ~Claiming(r)' /\ ran'[r] \subseteq {0} \cup DOMAIN plan'[r]
  BY <1>1 DEF Claiming
<1>7. QED
  BY <1>2, <1>3, <1>4, <1>5, <1>6

LEMMA InvSteps ==
    ASSUME TypeOK, IInv, NEW r \in Requests, RunStep(r) \/ DenyStep(r)
    PROVE  IInv'
<1>1. \A s \in Requests \ {r} : RequestInv(s)'
  BY Frame DEF IInv, TypeOK, RunStep, DenyStep
<1>2. AtStep(r) /\ RequestInv(r) /\ 1 <= next[r]
  BY DEF RunStep, DenyStep, IInv, RequestInv, Progress
<1>3. Opens(NextStep(r)) <=> IsPhysicalAccess(NextStep(r))
  BY <1>2, OpensNextIsPhysical
<1>4. /\ pc[r] = "steps" /\ next[r] <= Len(plan[r]) /\ pc'[r] = "steps"
      /\ UNCHANGED <<now, call, principal, stepped, started, plan>>
      /\ spender' = spender /\ next'[r] = next[r] + 1 /\ ledger' = ledger
  BY <1>2 DEF RunStep, DenyStep, AtStep, TypeOK
<1>5. \/ ran'[r] = ran[r] \cup {next[r]} /\ (Opens(NextStep(r)) => stepped[r])
      \/ ran'[r] = ran[r] /\ Opens(NextStep(r))
  BY <1>3 DEF RunStep, DenyStep, TypeOK
<1>6. RequestInv(r)'
  BY <1>2, <1>4, <1>5, InvAdvance
<1>7. QED
  BY <1>1, <1>4, <1>6, LedgerFrame DEF IInv

LEMMA InvAsk ==
    ASSUME TypeOK, IInv, NEW r \in Requests, AskLedgerForStep(r) \/ Finish(r)
    PROVE  IInv'
<1>1. \A s \in Requests \ {r} : RequestInv(s)'
  BY Frame DEF IInv, TypeOK, AskLedgerForStep, Finish
<1>2. /\ pc[r] = "steps" /\ RequestInv(r)
      /\ UNCHANGED <<now, ledger, call, principal, stepped, started, plan, next, ran, spender>>
  BY DEF IInv, AskLedgerForStep, Finish, AtStep
<1>3. InTime(r)' /\ StepsAccounted(r)' /\ (FreshClaim(r) => FreshClaim(r)')
  <2>1. InTime(r)'
    BY <1>2 DEF RequestInv, InTime, Active
  <2>2. StepsAccounted(r)'
    BY <1>2 DEF RequestInv, StepsAccounted
  <2>3. QED
    BY <1>2, <2>1, <2>2 DEF FreshClaim, MaySpend, Door
<1>4. CASE Finish(r)
  <2>1. pc'[r] = "done" /\ next[r] > Len(plan[r])
    BY <1>4 DEF Finish, TypeOK
  <2>2. Progress(r)'
    BY <1>2, <2>1 DEF RequestInv, Progress
  <2>3. RequestInv(r)'
    BY <1>2, <1>3, <2>1, <2>2 DEF RequestInv, Claiming
  <2>4. QED
    BY <1>1, <1>2, <2>3, LedgerFrame DEF IInv
<1>5. CASE AskLedgerForStep(r)
  <2>1. pc'[r] = "claim_step" /\ next[r] <= Len(plan[r]) /\ ~stepped[r] /\ MayAsk(r)
    BY <1>5 DEF AskLedgerForStep, AtStep, TypeOK
  <2>2. Opens(NextStep(r))
    BY <1>2, <1>5, OpensNextIsPhysical DEF AskLedgerForStep, RequestInv, Progress
  <2>3. Progress(r)'
    BY <1>2, <2>1, <2>2 DEF RequestInv, Progress, NextStep
  <2>4. principal[r] \in Tokens /\ MaySpend(r)
    BY <2>1 DEF MayAsk, MaySpend, Permitted, Fresh, DESTRUCTIVE, TypeOK
  <2>5. started[r] <= principal[r].iat + StepUpSeconds
    BY <1>2, <2>1, <2>4, TokensAssumption, TimesAssumption
       DEF MayAsk, Fresh, TokenType, RequestInv, InTime, Active, TypeOK
  <2>6. FreshClaim(r)
    BY <1>2, <2>4, <2>5 DEF FreshClaim, MaySpend, RequestInv
  <2>7. RequestInv(r)'
    BY <1>2, <1>3, <2>1, <2>3, <2>6 DEF RequestInv, Claiming
  <2>8. QED
    BY <1>1, <1>2, <2>7, LedgerFrame DEF IInv
<1>6. QED
  BY <1>4, <1>5

\* The heart of it: while anyone may still claim a token, the ledger remembers
\* that it was spent, so a free item means a token nobody has spent.
LEMMA FreeMeansUnspent ==
    ASSUME TypeOK, IInv, NEW r \in Requests, Claiming(r), ClaimFree(r)
    PROVE  spender[Jti(r)] = Nobody
<1>1. RequestInv(r) /\ FreshClaim(r) /\ InTime(r) /\ Active(r)
  BY DEF IInv, RequestInv, Claiming, Active
<1> DEFINE t == principal[r]
<1>2. t \in Tokens /\ t.method = "jwt" /\ t.iat \in Nat /\ t.exp \in Nat /\ t.jti \in Jtis
  BY <1>1, TokensAssumption DEF FreshClaim, MaySpend, TokenType
<1>3. now <= started[r] + LambdaTimeout /\ started[r] <= t.iat + StepUpSeconds
      /\ t.iat < t.exp
  BY <1>1 DEF InTime, FreshClaim
<1>4. now < t.exp + Grace
  BY <1>2, <1>3, TimesAssumption DEF TypeOK
<1>5. ledger[Jti(r)] # t.exp + Grace
  <2>1. t.exp + Grace > 0
    BY <1>2, <1>3, TimesAssumption
  <2>2. QED
    BY <2>1 DEF ClaimFree
<1>6. QED
  BY <1>2, <1>4, <1>5, TimesAssumption DEF IInv, Remembered, Jti, TypeOK

\* The written item keeps a token for Grace after it expires, whoever wrote it.
LEMMA WriteIsRemembered ==
    ASSUME TypeOK, IInv, NEW r \in Requests, principal[r] \in Tokens,
           principal[r].method = "jwt",
           now' = now, ledger' = Written(r),
           \A j \in Jtis : j # Jti(r) => spender'[j] = spender[j]
    PROVE  \A j \in Jtis : Remembered(j)'
<1>1. Jti(r) \in Jtis
  BY WrittenIsTyped
<1>2. ASSUME NEW j \in Jtis, j # Jti(r) PROVE Remembered(j)'
  BY <1>1, <1>2 DEF Remembered, IInv, Written, TypeOK
<1>3. \A t \in Tokens : t.method = "jwt" /\ t.jti = Jti(r) => t = principal[r]
  BY TokensAssumption DEF Jti
<1>4. ledger'[Jti(r)] = principal[r].exp + Grace
  BY <1>1 DEF Written, TypeOK
<1>5. ASSUME NEW j \in Jtis, j = Jti(r) PROVE Remembered(j)'
  <2>1. \A t \in Tokens : t.method = "jwt" /\ t.jti = j => ledger'[j] = t.exp + Grace
    BY <1>3, <1>4, <1>5
  <2>2. QED
    BY <2>1 DEF Remembered
<1>6. QED
  BY <1>2, <1>5

LEMMA InvClaim ==
    ASSUME TypeOK, IInv, NEW r \in Requests, ClaimForStep(r) \/ ClaimForTool(r)
    PROVE  IInv'
<1>1. /\ Claiming(r) /\ ClaimFree(r) /\ ledger' = Written(r)
      /\ spender' = [spender EXCEPT ![Jti(r)] = r] /\ stepped' = [stepped EXCEPT ![r] = TRUE]
      /\ UNCHANGED <<now, call, principal, started, plan, next>>
      /\ pc'[r] \in {"steps", "done"}
      /\ \A s \in Requests \ {r} : pc'[s] = pc[s] /\ ran'[s] = ran[s]
  BY DEF ClaimForStep, ClaimForTool, Spend, Claiming, TypeOK
<1>2. RequestInv(r) /\ FreshClaim(r) /\ principal[r] \in Tokens /\ principal[r].method = "jwt"
  BY <1>1 DEF IInv, RequestInv, FreshClaim, MaySpend
<1>3. Jti(r) \in Jtis /\ spender[Jti(r)] = Nobody
  BY <1>1, <1>2, WrittenIsTyped, FreeMeansUnspent
<1>4. ASSUME NEW s \in Requests, s # r PROVE RequestInv(s)'
  <2>1. stepped[s] => spender[principal[s].jti] = s /\ s # Nobody
    BY TokensAssumption DEF IInv, RequestInv
  <2>2. stepped[s] => principal[s].jti \in Jtis /\ principal[s].jti # Jti(r)
    BY <1>3, <2>1, TokensAssumption DEF IInv, RequestInv, FreshClaim, TokenType
  <2>3. stepped[s] => spender'[principal[s].jti] = spender[principal[s].jti]
    BY <1>1, <1>3, <2>2 DEF TypeOK
  <2>4. RequestInv(s)
    BY DEF IInv
  <2>5. stepped'[s] = stepped[s]
    BY <1>1, <1>4 DEF TypeOK
  <2>6. QED
    BY <1>1, <1>4, <2>3, <2>4, <2>5, Frame
<1>5. RequestInv(r)'
  <2>1. stepped'[r] /\ spender'[principal'[r].jti] = r /\ FreshClaim(r)'
    <3>1. stepped'[r] /\ spender'[principal'[r].jti] = r
      BY <1>1, <1>3 DEF Jti, TypeOK
    <3>2. QED
      BY <1>1, <1>2, <3>1 DEF FreshClaim, MaySpend, Door
  <2>2. InTime(r)'
    BY <1>1, <1>2 DEF RequestInv, InTime, Active, Claiming
  <2>3. ~Claiming(r)'
    BY <1>1 DEF Claiming
  <2>4. CASE ClaimForStep(r)
    <3>1. pc[r] = "claim_step" /\ pc'[r] = "steps" /\ ran' = ran
      BY <2>4 DEF ClaimForStep, TypeOK
    <3>2. Progress(r)' /\ StepsAccounted(r)'
      BY <1>1, <1>2, <2>1, <3>1 DEF RequestInv, Progress, StepsAccounted
    <3>3. QED
      BY <1>1, <1>2, <2>1, <2>2, <2>3, <3>1, <3>2 DEF RequestInv
  <2>5. CASE ClaimForTool(r)
    <3>1. pc[r] = "claim_tool" /\ pc'[r] = "done" /\ ran'[r] = ran[r] \cup {0}
      BY <2>5 DEF ClaimForTool, TypeOK
    <3>2. plan[r] = << >> /\ next[r] = 1
      BY <1>2, <3>1 DEF RequestInv, Progress
    <3>3. Progress(r)' /\ StepsAccounted(r)'
      BY <1>1, <1>2, <2>1, <3>1, <3>2 DEF RequestInv, Progress, StepsAccounted
    <3>4. QED
      BY <1>1, <1>2, <2>1, <2>2, <2>3, <3>1, <3>3 DEF RequestInv
  <2>6. QED
    BY <2>4, <2>5
<1>6. \A j \in Jtis : Remembered(j)'
  <2>1. \A j \in Jtis : j # Jti(r) => spender'[j] = spender[j]
    BY <1>1 DEF TypeOK
  <2>2. QED
    BY <1>1, <1>2, <2>1, WriteIsRemembered
<1>7. QED
  BY <1>4, <1>5, <1>6 DEF IInv

LEMMA InvRefused ==
    ASSUME TypeOK, IInv, NEW r \in Requests, ClaimReplayed(r) \/ ClaimLost(r)
    PROVE  IInv'
<1>1. Refused(r) /\ (ledger' = ledger \/ ledger' = Written(r)) /\ Claiming(r)
  BY DEF ClaimReplayed, ClaimLost, Refused, RefusedStep, RefusedTool, Claiming
<1>2. /\ UNCHANGED <<now, call, principal, stepped, started, plan, ran, spender>>
      /\ \A s \in Requests \ {r} : pc'[s] = pc[s] /\ next'[s] = next[s]
  BY <1>1 DEF Refused, RefusedStep, RefusedTool, TypeOK
<1>3. RequestInv(r) /\ FreshClaim(r)
  BY <1>1 DEF IInv, RequestInv
<1>4. \A s \in Requests \ {r} : RequestInv(s)'
  BY <1>2, Frame DEF IInv
<1>5. \A j \in Jtis : Remembered(j)'
  <2>1. CASE ledger' = ledger
    BY <1>2, <2>1, LedgerFrame DEF IInv
  <2>2. CASE ledger' = Written(r)
    BY <1>2, <1>3, <2>2, WriteIsRemembered DEF FreshClaim, MaySpend
  <2>3. QED
    BY <1>1, <2>1, <2>2
<1>6. RequestInv(r)'
  <2>1. CASE RefusedStep(r)
    <3>1. pc[r] = "claim_step" /\ pc'[r] = "steps" /\ next'[r] = next[r] + 1
      BY <2>1 DEF RefusedStep, TypeOK
    <3>2. next[r] <= Len(plan[r]) /\ Opens(NextStep(r))
      BY <1>3, <3>1 DEF RequestInv, Progress
    <3>3. QED
      BY <1>2, <1>3, <3>1, <3>2, InvAdvance
  <2>2. CASE RefusedTool(r)
    <3>1. pc[r] = "claim_tool" /\ pc'[r] = "done" /\ next' = next
      BY <2>2 DEF RefusedTool, TypeOK
    <3>2. plan[r] = << >> /\ next[r] = 1
      BY <1>3, <3>1 DEF RequestInv, Progress
    <3>3. Progress(r)' /\ StepsAccounted(r)' /\ InTime(r)' /\ ~Claiming(r)'
      BY <1>2, <1>3, <3>1, <3>2
         DEF RequestInv, Progress, StepsAccounted, InTime, Active, Claiming
    <3>4. FreshClaim(r)'
      BY <1>2, <1>3 DEF FreshClaim, MaySpend, Door
    <3>5. QED
      BY <1>2, <1>3, <3>3, <3>4 DEF RequestInv
  <2>3. QED
    BY <1>1, <2>1, <2>2 DEF Refused
<1>7. QED
  BY <1>4, <1>5, <1>6 DEF IInv

LEMMA InvTimeOut ==
    ASSUME TypeOK, IInv, NEW r \in Requests, TimeOut(r)
    PROVE  IInv'
<1>1. \A s \in Requests \ {r} : RequestInv(s)'
  BY Frame DEF IInv, TypeOK, TimeOut
<1>2. /\ pc'[r] = "timeout" /\ RequestInv(r)
      /\ UNCHANGED <<now, ledger, call, principal, stepped, started, plan, next, ran, spender>>
  BY DEF TimeOut, IInv, TypeOK
<1>3. Progress(r)' /\ StepsAccounted(r)' /\ InTime(r)' /\ ~Claiming(r)'
  BY <1>2 DEF RequestInv, Progress, StepsAccounted, InTime, Active, Claiming
<1>4. FreshClaim(r) => FreshClaim(r)'
  BY <1>2 DEF FreshClaim, MaySpend, Door
<1>5. RequestInv(r)'
  BY <1>2, <1>3, <1>4 DEF RequestInv
<1>6. QED
  BY <1>1, <1>2, <1>5, LedgerFrame DEF IInv

\* DynamoDB forgets a token only after its grace is over.
LEMMA InvExpire ==
    ASSUME TypeOK, IInv, NEW j \in Jtis, ExpireItem(j)
    PROVE  IInv'
<1>1. \A s \in Requests : RequestInv(s)'
  BY Frame DEF IInv, ExpireItem
<1>2. ASSUME NEW k \in Jtis PROVE Remembered(k)'
  <2>1. CASE k = j
    BY <2>1 DEF ExpireItem, Remembered, IInv, TypeOK
  <2>2. CASE k # j
    BY <2>2 DEF ExpireItem, Remembered, IInv, TypeOK
  <2>3. QED
    BY <2>1, <2>2
<1>3. QED
  BY <1>1, <1>2 DEF IInv

LEMMA InvTick ==
    ASSUME TypeOK, IInv, Tick
    PROVE  IInv'
<1>1. now' = now + 1 /\ now \in Nat
      /\ UNCHANGED <<ledger, pc, call, principal, stepped, started, plan, next, ran, spender>>
  BY DEF Tick, TypeOK
<1>2. ASSUME NEW r \in Requests PROVE RequestInv(r)'
  <2>1. RequestInv(r)
    BY DEF IInv
  <2>2. InTime(r)'
    BY <1>1, <2>1, TimesAssumption DEF Tick, RequestInv, InTime, Active, OutOfTime, TypeOK
  <2>3. Progress(r)' /\ StepsAccounted(r)' /\ (FreshClaim(r) => FreshClaim(r)')
    BY <1>1, <2>1 DEF RequestInv, Progress, StepsAccounted, NextStep, FreshClaim, MaySpend, Door
  <2>4. QED
    BY <1>1, <2>1, <2>2, <2>3 DEF RequestInv, Claiming
<1>3. ASSUME NEW j \in Jtis PROVE Remembered(j)'
  <2>1. \A t \in Tokens : t.exp + Grace \in Int
    BY TokensAssumption, TimesAssumption DEF TokenType
  <2>2. QED
    BY <1>1, <2>1 DEF IInv, Remembered
<1>4. QED
  BY <1>2, <1>3 DEF IInv

-----------------------------------------------------------------------------
LEMMA InvInit == Init => TypeOK /\ IInv
<1> SUFFICES ASSUME Init PROVE TypeOK /\ IInv
  OBVIOUS
<1>1. TypeOK
  BY DEF Init, TypeOK, Locations, Doors, Ops
<1>2. ASSUME NEW r \in Requests PROVE RequestInv(r)
  BY NoTokenIsNotAToken DEF Init, RequestInv, Progress, StepsAccounted, InTime, Active, Claiming
<1>3. \A j \in Jtis : Remembered(j)
  BY DEF Init, Remembered
<1>4. QED
  BY <1>1, <1>2, <1>3 DEF IInv

LEMMA InvStep == TypeOK /\ IInv /\ [Next]_vars => TypeOK' /\ IInv'
<1> SUFFICES ASSUME TypeOK, IInv, [Next]_vars PROVE TypeOK' /\ IInv'
  OBVIOUS
<1>1. TypeOK'
  BY TypeStep DEF IInv, RequestInv, FreshClaim
<1>2. ASSUME NEW r \in Requests, NEW c \in Calls, NEW p \in Tokens \cup {NoToken},
             Arrival(r, c, p)
      PROVE IInv'
  BY <1>2, InvArrive
<1>3. ASSUME NEW r \in Requests, Handle(r) \/ TimeOut(r) PROVE IInv'
  BY <1>3, InvTool, InvResolve, InvSteps, InvAsk, InvClaim, InvRefused, InvTimeOut DEF Handle
<1>4. ASSUME NEW j \in Jtis, ExpireItem(j) PROVE IInv'
  BY <1>4, InvExpire
<1>5. ASSUME Tick PROVE IInv'
  BY <1>5, InvTick
<1>6. ASSUME UNCHANGED vars PROVE IInv'
  <2>1. \A s \in Requests : RequestInv(s)'
    BY <1>6, Frame DEF vars, IInv
  <2>2. QED
    BY <1>6, <2>1, LedgerFrame DEF vars, IInv
<1>7. QED
  BY <1>1, <1>2, <1>3, <1>4, <1>5, <1>6 DEF Next, Arrival

LEMMA Inductive == Spec => [](TypeOK /\ IInv)
<1>1. Init => TypeOK /\ IInv
  BY InvInit
<1>2. (TypeOK /\ IInv) /\ [Next]_vars => (TypeOK /\ IInv)'
  BY InvStep
<1>3. QED
  BY <1>1, <1>2, PTL DEF Spec

-----------------------------------------------------------------------------
(* What follows from it *)

\* Every variable of the authorization path keeps its type.
THEOREM TypeCorrect == Spec => []TypeOK
BY Inductive, PTL

\* For any number of requests, tokens, devices and plans: what opens a door was
\* run by a request that spent its own first-hand JWT (access_control.check_step).
THEOREM DoorSafety == Spec => []DoorNeedsStepUp
<1>1. TypeOK /\ IInv => DoorNeedsStepUp
  <2> SUFFICES ASSUME IInv, NEW r \in Requests, OpenedSomething(r)
               PROVE  MaySpend(r) /\ spender[principal[r].jti] = r
    BY DEF DoorNeedsStepUp
  <2>1. PICK i \in ran[r] \ {0} : Opens(plan[r][i])
    BY DEF OpenedSomething
  <2>2. i \in DOMAIN plan[r] /\ stepped[r]
    BY <2>1 DEF IInv, RequestInv, StepsAccounted
  <2>3. QED
    BY <2>2 DEF IInv, RequestInv, FreshClaim
<1>2. QED
  BY <1>1, Inductive, PTL

\* Two requests never step up with one token (authz.DynamoJtiLedger.claim), for
\* every choice of the times that TimesAssumption allows.
THEOREM SingleUse == Spec => []OneStepUpPerToken
<1>1. TypeOK /\ IInv => OneStepUpPerToken
  BY DEF IInv, RequestInv, OneStepUpPerToken
<1>2. QED
  BY <1>1, Inductive, PTL

\* A request that answers has run every step of its plan that opens nothing
\* (access_control.check_step and execution_planner.execute_steps).
THEOREM SafeSteps == Spec => []SafeStepsRun
<1>1. TypeOK /\ IInv => SafeStepsRun
  <2> SUFFICES ASSUME TypeOK, IInv, NEW r \in Requests, pc[r] = "done",
                      NEW i \in DOMAIN plan[r], ~Opens(plan[r][i])
               PROVE  i \in ran[r]
    BY DEF SafeStepsRun
  <2>1. plan[r] \in Seq(Step) /\ next[r] \in Nat /\ next[r] > Len(plan[r])
    BY TokensAssumption DEF TypeOK, IInv, RequestInv, Progress
  <2>2. i < next[r]
    BY <2>1
  <2>3. QED
    BY <2>2 DEF IInv, RequestInv, StepsAccounted
<1>2. QED
  BY <1>1, Inductive, PTL

\* What a request does to the steps it has run.
LEMMA RanStep ==
    ASSUME TypeOK, IInv, [Next]_vars, NEW r \in Requests, ran'[r] # ran[r]
    PROVE  RunStep(r) \/ CallTool(r) \/ ClaimForTool(r)
<1>1. ASSUME NEW s \in Requests, Handle(s), ~(RunStep(s) \/ CallTool(s) \/ ClaimForTool(s))
      PROVE  ran' = ran
  BY <1>1 DEF Handle, RefuseTool, AskLedgerForTool, Resolve, DenyStep, AskLedgerForStep,
              Finish, ClaimForStep, ClaimReplayed, ClaimLost, Refused, RefusedStep, RefusedTool
<1>2. ASSUME NEW s \in Requests, s # r, RunStep(s) \/ CallTool(s) \/ ClaimForTool(s)
      PROVE  ran'[r] = ran[r]
  BY <1>2 DEF RunStep, CallTool, ClaimForTool, TypeOK
<1>3. ASSUME NEW s \in Requests, NEW c \in Calls,
             AdmitUnbound(s, c) \/ (\E t \in Tokens : Admit(s, c, t) \/ Reject(s, c, t))
      PROVE  ran' = ran
  BY <1>3 DEF AdmitUnbound, Admit, Reject, Arrive
<1>4. ASSUME (\E s \in Requests : TimeOut(s)) \/ (\E j \in Jtis : ExpireItem(j)) \/ Tick
             \/ UNCHANGED vars
      PROVE  ran' = ran
  BY <1>4 DEF TimeOut, ExpireItem, Tick, vars
<1>5. QED
  BY <1>1, <1>2, <1>3, <1>4 DEF Next

\* A token opens nothing later than StepUpSeconds and one Lambda lifetime after
\* it was minted (authz.ToolAuthorizer._step_up, template.yaml Timeout).
THEOREM DoorWindow == Spec => DoorWindowCloses
<1>1. TypeOK /\ IInv /\ [Next]_vars => [OpensInTime]_vars
  <2> SUFFICES ASSUME TypeOK, IInv, [Next]_vars, NEW r \in Requests, ran'[r] # ran[r],
                      OpenedSomething(r)', Opens(NextStep(r))
               PROVE  now <= principal[r].iat + StepUpSeconds + LambdaTimeout
    BY DEF OpensInTime
  <2>1. RequestInv(r)
    BY DEF IInv
  <2>2. ~CallTool(r) /\ ~ClaimForTool(r)
    <3>1. ASSUME CallTool(r) \/ ClaimForTool(r) PROVE ran'[r] \subseteq {0}
      BY <2>1, <3>1 DEF CallTool, ClaimForTool, RequestInv, Progress, TypeOK
    <3>2. QED
      BY <3>1 DEF OpenedSomething
  <2>3. RunStep(r)
    BY <2>2, RanStep
  <2>4. stepped[r] /\ FreshClaim(r)
    BY <2>1, <2>3, OpensNextIsPhysical DEF RunStep, RequestInv, Progress
  <2>5. now <= started[r] + LambdaTimeout
    BY <2>1, <2>3 DEF RequestInv, InTime, Active, RunStep, AtStep
  <2>6. QED
    BY <2>4, <2>5, TokensAssumption, TimesAssumption DEF FreshClaim, TokenType, TypeOK
<1>2. QED
  BY <1>1, Inductive, PTL DEF Spec, DoorWindowCloses

-----------------------------------------------------------------------------
(* The refinement *)

LEMMA OpenedStays ==
    ASSUME \A r \in Requests : OpenedSomething(r)' <=> OpenedSomething(r)
    PROVE  {r \in Requests : OpenedSomething(r)}' = {r \in Requests : OpenedSomething(r)}
OBVIOUS

LEMMA StepRefines ==
    ASSUME TypeOK, IInv, [Next]_vars
    PROVE  [Promise!Next]_(Promise!vars)
<1> USE DEF Promise!Next, Promise!vars, Promise!Spend, Promise!Open
<1>1. ASSUME NEW r \in Requests, RunStep(r) PROVE [Promise!Next]_(Promise!vars)
  <2>1. /\ ran' = [ran EXCEPT ![r] = @ \cup {next[r]}] /\ plan' = plan /\ spender' = spender
        /\ RequestInv(r) /\ AtStep(r) /\ next[r] \in Nat \ {0}
    BY <1>1 DEF RunStep, AtStep, IInv, RequestInv, Progress, TypeOK
  <2>2. \A s \in Requests \ {r} : OpenedSomething(s)' <=> OpenedSomething(s)
    BY <2>1 DEF OpenedSomething, TypeOK
  <2>3. OpenedSomething(r)' <=> OpenedSomething(r) \/ Opens(NextStep(r))
    BY <2>1 DEF OpenedSomething, TypeOK, NextStep
  <2>4. CASE ~Opens(NextStep(r))
    BY <2>1, <2>2, <2>3, <2>4, OpenedStays
  <2>5. CASE Opens(NextStep(r))
    <3>1. stepped[r]
      BY <1>1, <2>1, <2>5, OpensNextIsPhysical DEF RunStep
    <3>2. principal[r].jti \in Jtis /\ spender[principal[r].jti] = r
      BY <2>1, <3>1, TokensAssumption DEF RequestInv, FreshClaim, TokenType
    <3>3. {s \in Requests : OpenedSomething(s)}'
            = {s \in Requests : OpenedSomething(s)} \cup {r}
      BY <2>2, <2>3, <2>5
    <3>4. QED
      BY <2>1, <3>2, <3>3
  <2>6. QED
    BY <2>4, <2>5
<1>2. ASSUME NEW r \in Requests, ClaimForStep(r) \/ ClaimForTool(r)
      PROVE [Promise!Next]_(Promise!vars)
  <2>1. /\ Claiming(r) /\ ClaimFree(r) /\ plan' = plan
        /\ spender' = [spender EXCEPT ![Jti(r)] = r]
        /\ \/ ran' = ran
           \/ ran' = [ran EXCEPT ![r] = @ \cup {0}]
    BY <1>2 DEF ClaimForStep, ClaimForTool, Spend, Claiming
  <2>2. \A s \in Requests : OpenedSomething(s)' <=> OpenedSomething(s)
    BY <2>1 DEF OpenedSomething, TypeOK
  <2>3. Jti(r) \in Jtis /\ spender[Jti(r)] = Nobody
    BY <2>1, WrittenIsTyped, FreeMeansUnspent DEF IInv, RequestInv, FreshClaim
  <2>4. QED
    BY <2>1, <2>2, <2>3, OpenedStays
<1>3. ASSUME NEW r \in Requests, Resolve(r) \/ CallTool(r)
      PROVE [Promise!Next]_(Promise!vars)
  <2>1. /\ spender' = spender /\ ran[r] \subseteq {0} /\ ran'[r] \subseteq {0}
        /\ \A s \in Requests \ {r} : plan'[s] = plan[s] /\ ran'[s] = ran[s]
    BY <1>3 DEF Resolve, CallTool, IInv, RequestInv, Progress, TypeOK
  <2>2. \A s \in Requests : OpenedSomething(s)' <=> OpenedSomething(s)
    BY <2>1 DEF OpenedSomething
  <2>3. QED
    BY <2>1, <2>2, OpenedStays
<1>4. ASSUME UNCHANGED <<spender, ran, plan>> PROVE [Promise!Next]_(Promise!vars)
  <2>1. \A s \in Requests : OpenedSomething(s)' <=> OpenedSomething(s)
    BY <1>4 DEF OpenedSomething
  <2>2. QED
    BY <1>4, <2>1, OpenedStays
<1>5. ASSUME NEW r \in Requests, Handle(r)
      PROVE [Promise!Next]_(Promise!vars)
  <2>1. ASSUME ~(RunStep(r) \/ ClaimForStep(r) \/ ClaimForTool(r) \/ Resolve(r) \/ CallTool(r))
        PROVE  UNCHANGED <<spender, ran, plan>>
    BY <1>5, <2>1 DEF Handle, RefuseTool, AskLedgerForTool, DenyStep, AskLedgerForStep,
       Finish, ClaimReplayed, ClaimLost, Refused, RefusedStep, RefusedTool
  <2>2. QED
    BY <1>1, <1>2, <1>3, <1>4, <2>1
<1>6. ASSUME NEW r \in Requests, NEW c \in Calls,
             AdmitUnbound(r, c) \/ (\E t \in Tokens : Admit(r, c, t) \/ Reject(r, c, t))
      PROVE  UNCHANGED <<spender, ran, plan>>
  BY <1>6 DEF AdmitUnbound, Admit, Reject, Arrive
<1>7. ASSUME (\E s \in Requests : TimeOut(s)) \/ (\E j \in Jtis : ExpireItem(j)) \/ Tick
             \/ UNCHANGED vars
      PROVE  UNCHANGED <<spender, ran, plan>>
  BY <1>7 DEF TimeOut, ExpireItem, Tick, vars
<1>8. QED
  BY <1>4, <1>5, <1>6, <1>7 DEF Next

\* The authorization path implements SpendOnce: clock, ledger, failures and
\* interleavings hidden, a token is spent once and opens only after that.
THEOREM Implements == Spec => SpendsOnce
<1>1. Init => Promise!Init
  BY DEF Init, Promise!Init, OpenedSomething
<1>2. TypeOK /\ IInv /\ [Next]_vars => [Promise!Next]_(Promise!vars)
  BY StepRefines
<1>3. QED
  BY <1>1, <1>2, Inductive, PTL DEF Spec, SpendsOnce, Promise!Spec

-----------------------------------------------------------------------------
(* The issuer's keys.  Everything rests on what the three times say: an    *)
(* attempt is no older than the fetch it led to and no younger than the    *)
(* request under way, and a key in the cache was listed when the set was   *)
(* asked for.                                                              *)

Busy == request # NoRequest

\* What the request under way, or else a request made now, is judged by.
At == IF Busy THEN request.asked ELSE clock

TimesInv ==
    /\ fetchedAt <= lastAttempt /\ lastAttempt <= At /\ At <= clock
    /\ request.at \in {"expired", "missing", "last"} => lastAttempt = request.asked
    /\ request.at = "look" => \/ lastAttempt = request.asked
                              \/ ~Expired(request.asked)
                              \/ ~MayAttempt(request.asked)

ListedInv ==
    /\ \A k \in published : listedAt[k] = clock
    /\ \A k \in keys : listedAt[k] >= fetchedAt

\* The set is the one that was fetched last, or was given up as too old.
ServedInv ==
    /\ keys = served \/ At - fetchedAt >= Ttl + StaleIfError
    /\ fetchedAt = Never => served = {}

FetchesInv ==
    \/ fetches = 0 /\ lastAttempt = Never
    \/ fetches # 0 /\ lastAttempt # Never /\ (fetches - 1) * MinRefresh <= lastAttempt

KeyIInv == TimesInv /\ ListedInv /\ ServedInv /\ FetchesInv

-----------------------------------------------------------------------------
(* Types *)

LEMMA RequestIs ==
    ASSUME KeyTypeOK
    PROVE  /\ Busy => /\ request \in [at : {"expired", "look", "missing", "last"},
                                      kid : Kids, asked : Time]
                      /\ request.at # "idle" /\ request.kid \in Kids /\ request.asked \in Time
           /\ ~Busy => request.at = "idle"
  BY DEF KeyTypeOK, Request, NoRequest, Busy

\* A change of the place in get leaves the key and the time.
LEMMA Moves ==
    ASSUME KeyTypeOK, Busy, NEW at \in {"look", "missing", "last"}, Goes(at)
    PROVE  /\ request' \in Request /\ Busy' /\ request'.at = at
           /\ request'.kid = request.kid /\ request'.asked = request.asked
<1>1. /\ request \in [at : {"expired", "look", "missing", "last"}, kid : Kids, asked : Time]
      /\ request' = [request EXCEPT !.at = at]
  BY RequestIs DEF Goes
<1>2. /\ request' \in [at : {"expired", "look", "missing", "last"}, kid : Kids, asked : Time]
      /\ request'.at = at /\ request'.kid = request.kid /\ request'.asked = request.asked
  BY <1>1
<1> QED
  BY <1>2 DEF Request, NoRequest, Busy

LEMMA KeyTypeInit == KeyInit => KeyTypeOK
  BY KeyTimesAssumption DEF KeyInit, KeyTypeOK, Time, Past, Never, NoRequest, Request

LEMMA KeyTypeStep == KeyTypeOK /\ [KeyNext]_keyVars => KeyTypeOK'
<1> SUFFICES ASSUME KeyTypeOK, [KeyNext]_keyVars PROVE KeyTypeOK'
  OBVIOUS
<1> USE KeyTimesAssumption
<1>1. CASE Rotate
  BY <1>1 DEF Rotate, Listed, KeyTypeOK, Past
<1>2. CASE ClockTick
  BY <1>2 DEF ClockTick, Listed, KeyTypeOK, Past, Time
<1>3. ASSUME NEW kid \in Kids, Get(kid) PROVE KeyTypeOK'
  BY <1>3 DEF Get, Attempts, KeyTypeOK, Past, Request
<1>4. CASE Fetched
  <2>1. Busy /\ request.asked \in Time
    BY <1>4, RequestIs DEF Fetched, Fetching
  <2>2. request' \in Request
    BY <1>4, <2>1, Moves DEF Fetched, AfterFetch
  <2> QED
    BY <1>4, <2>1, <2>2 DEF Fetched, KeyTypeOK, Past
<1>5. CASE FetchFails
  <2>1. Busy
    BY <1>5, RequestIs DEF FetchFails, Fetching
  <2>2. request' \in Request
    BY <1>5, <2>1, Moves DEF FetchFails, AfterFetch
  <2> QED
    BY <1>5, <2>2 DEF FetchFails, KeyTypeOK
<1>6. CASE Unavailable
  BY <1>6 DEF Unavailable, Answers, KeyTypeOK, Request
<1>7. CASE Finds
  BY <1>7 DEF Finds, Answers, KeyTypeOK, Request
<1>8. CASE Misses
  <2>1. Busy /\ request.asked \in Time
    BY <1>8, RequestIs DEF Misses
  <2>2. request' \in Request
    BY <1>8, <2>1, Moves DEF Misses
  <2> QED
    BY <1>8, <2>1, <2>2 DEF Misses, Attempts, KeyTypeOK, Past
<1>9. CASE DoesNotKnow
  BY <1>9 DEF DoesNotKnow, Answers, KeyTypeOK, Request
<1>10. CASE UNCHANGED keyVars
  BY <1>10 DEF keyVars, KeyTypeOK
<1> QED
  BY <1>1, <1>2, <1>3, <1>4, <1>5, <1>6, <1>7, <1>8, <1>9, <1>10 DEF KeyNext

\* The cache, the request and the histories keep their types.
THEOREM KeyTypeCorrect == KeySpec => []KeyTypeOK
  BY KeyTypeInit, KeyTypeStep, PTL DEF KeySpec

-----------------------------------------------------------------------------
(* The inductive invariant *)

\* One more attempt, an interval after the one before.
LEMMA OneMoreFetch ==
    ASSUME KeyTypeOK, FetchesInv, NEW t \in Time, MayAttempt(t), Attempts(t)
    PROVE  FetchesInv'
<1> USE KeyTimesAssumption
<1>1. /\ fetches' = fetches + 1 /\ lastAttempt' = t /\ fetches \in Nat /\ MinRefresh \in Nat
      /\ t \in Nat
  BY DEF Attempts, KeyTypeOK, Time
<1>2. CASE fetches = 0
  BY <1>1, <1>2 DEF FetchesInv, Never
<1>3. CASE fetches # 0
  <2>1. /\ lastAttempt \in Int /\ lastAttempt + MinRefresh <= t
        /\ (fetches - 1) * MinRefresh <= lastAttempt
    BY <1>3 DEF FetchesInv, MayAttempt, KeyTypeOK, Past, Time, Never
  <2>2. fetches * MinRefresh = (fetches - 1) * MinRefresh + MinRefresh
    BY <1>1
  <2>3. (fetches - 1) * MinRefresh \in Int /\ fetches' - 1 = fetches
    BY <1>1
  <2> QED
    BY <1>1, <2>1, <2>2, <2>3 DEF FetchesInv, Never
<1> QED
  BY <1>2, <1>3

LEMMA KeyInvInit == KeyInit => KeyIInv
<1> SUFFICES ASSUME KeyInit PROVE KeyIInv
  OBVIOUS
<1>1. /\ request.at = "idle" /\ ~Busy /\ clock = 0 /\ fetchedAt = -1 /\ lastAttempt = -1
  BY DEF KeyInit, NoRequest, Busy, Never
<1>2. TimesInv
  BY <1>1 DEF TimesInv, At
<1>3. ListedInv /\ ServedInv /\ FetchesInv
  BY DEF KeyInit, ListedInv, ServedInv, FetchesInv
<1> QED
  BY <1>2, <1>3 DEF KeyIInv

\* An answer leaves the request, and the times judge what comes next.
LEMMA AnswerStep ==
    ASSUME KeyTypeOK, KeyIInv, Busy, NEW found, Answers(found), keys' = keys,
           UNCHANGED <<clock, published, fetchedAt, lastAttempt, fetches, listedAt, served>>
    PROVE  KeyIInv'
<1>1. ~Busy' /\ request'.at = "idle" /\ At' = clock /\ At = request.asked /\ request.asked <= clock
  BY DEF Answers, Busy, At, NoRequest, KeyIInv, TimesInv
<1>2. request.asked \in Int /\ clock \in Int /\ fetchedAt \in Int /\ lastAttempt \in Int
  BY RequestIs DEF KeyTypeOK, Time, Past, Never
<1>3. TimesInv'
  BY <1>1, <1>2 DEF KeyIInv, TimesInv
<1>4. ServedInv'
  BY <1>1, <1>2, KeyTimesAssumption DEF KeyIInv, ServedInv
<1> QED
  BY <1>3, <1>4 DEF KeyIInv, ListedInv, FetchesInv

LEMMA KeyInvStep == KeyTypeOK /\ KeyIInv /\ [KeyNext]_keyVars => KeyIInv'
<1> SUFFICES ASSUME KeyTypeOK, KeyIInv, [KeyNext]_keyVars PROVE KeyIInv'
  OBVIOUS
<1> USE KeyTimesAssumption
<1>0. /\ clock \in Int /\ fetchedAt \in Int /\ lastAttempt \in Int /\ At \in Int
      /\ Busy => request.asked \in Int
  BY RequestIs DEF KeyTypeOK, Time, Past, Never, At
<1>1. CASE Rotate
  <2>1. UNCHANGED <<request, clock, keys, fetchedAt, lastAttempt, fetches, served>>
    BY <1>1 DEF Rotate
  <2>2. ListedInv'
    BY <1>0, <1>1 DEF Rotate, Listed, KeyIInv, ListedInv, TimesInv, KeyTypeOK
  <2> QED
    BY <2>1, <2>2 DEF KeyIInv, TimesInv, ServedInv, FetchesInv, At, Busy, Expired, MayAttempt
<1>2. CASE ClockTick
  <2>1. /\ UNCHANGED <<request, keys, fetchedAt, lastAttempt, fetches, served>>
        /\ clock' = clock + 1 /\ published' = published
    BY <1>2 DEF ClockTick
  <2>2. ListedInv'
    BY <1>0, <1>2 DEF ClockTick, Listed, KeyIInv, ListedInv, TimesInv, KeyTypeOK
  <2>3. At' = At \/ (At' = At + 1 /\ ~Busy)
    BY <2>1 DEF At, Busy
  <2>4. At' <= clock'
    BY <1>0, <2>1 DEF At, Busy, KeyIInv, TimesInv
  <2>5. TimesInv'
    <3>1. lastAttempt' <= At' /\ fetchedAt' <= lastAttempt'
      BY <1>0, <2>1, <2>3 DEF KeyIInv, TimesInv
    <3>2. /\ request'.at \in {"expired", "missing", "last"} => lastAttempt' = request'.asked
          /\ request'.at = "look" => \/ lastAttempt' = request'.asked
                                     \/ ~(fetchedAt' = Never \/ request'.asked - fetchedAt' >= Ttl)
                                     \/ ~(lastAttempt' = Never
                                            \/ request'.asked - lastAttempt' >= MinRefresh)
      BY <2>1 DEF KeyIInv, TimesInv, Expired, MayAttempt
    <3> QED
      BY <2>4, <3>1, <3>2 DEF TimesInv, Expired, MayAttempt
  <2>6. ServedInv'
    BY <1>0, <2>1, <2>3 DEF KeyIInv, ServedInv
  <2> QED
    BY <2>1, <2>2, <2>5, <2>6 DEF KeyIInv, FetchesInv
<1>3. ASSUME NEW kid \in Kids, Get(kid) PROVE KeyIInv'
  <2>1. /\ ~Busy /\ Busy' /\ At = clock /\ At' = clock /\ request'.asked = clock
        /\ UNCHANGED <<clock, published, keys, fetchedAt, listedAt, served>>
    BY <1>3 DEF Get, Busy, NoRequest, At
  <2>2. ListedInv' /\ ServedInv'
    BY <2>1 DEF KeyIInv, ListedInv, ServedInv
  <2>3. CASE Expired(clock) /\ MayAttempt(clock)
    <3>1. Attempts(clock) /\ request'.at = "expired"
      BY <1>3, <2>3 DEF Get
    <3>2. FetchesInv'
      BY <2>3, <3>1, OneMoreFetch DEF KeyIInv, KeyTypeOK
    <3>3. TimesInv'
      BY <1>0, <2>1, <3>1 DEF Attempts, KeyIInv, TimesInv
    <3> QED
      BY <2>2, <3>2, <3>3 DEF KeyIInv
  <2>4. CASE ~(Expired(clock) /\ MayAttempt(clock))
    <3>1. request'.at = "look" /\ UNCHANGED <<lastAttempt, fetches>>
      BY <1>3, <2>4 DEF Get
    <3>2. TimesInv'
      BY <1>0, <2>1, <2>4, <3>1 DEF KeyIInv, TimesInv, Expired, MayAttempt
    <3> QED
      BY <2>2, <3>1, <3>2 DEF KeyIInv, FetchesInv
  <2> QED
    BY <2>3, <2>4
<1>4. CASE Fetched
  <2>1. /\ Busy /\ Busy' /\ request'.at \in {"look", "last"} /\ request'.asked = request.asked
        /\ lastAttempt = request.asked
    BY <1>4, RequestIs, Moves DEF Fetched, Fetching, AfterFetch, KeyIInv, TimesInv
  <2>2. TimesInv'
    BY <1>0, <1>4, <2>1 DEF Fetched, KeyIInv, TimesInv, At
  <2>3. ListedInv'
    BY <1>0, <1>4, <2>1 DEF Fetched, KeyIInv, TimesInv, ListedInv, At
  <2>4. fetchedAt' # Never
    BY <1>4, <2>1, RequestIs DEF Fetched, Time, Never
  <2> QED
    BY <1>4, <2>2, <2>3, <2>4 DEF Fetched, KeyIInv, ServedInv, FetchesInv
<1>5. CASE FetchFails
  <2>1. /\ Busy /\ Busy' /\ request'.at \in {"look", "last"} /\ request'.asked = request.asked
        /\ lastAttempt = request.asked
    BY <1>5, RequestIs, Moves DEF FetchFails, Fetching, AfterFetch, KeyIInv, TimesInv
  <2>2. TimesInv'
    BY <1>0, <1>5, <2>1 DEF FetchFails, KeyIInv, TimesInv, At
  <2> QED
    BY <1>5, <2>1, <2>2 DEF FetchFails, KeyIInv, ListedInv, ServedInv, FetchesInv, At
<1>6. CASE Unavailable
  <2>1. Busy /\ keys' = {} /\ ~Busy' /\ At' = clock /\ At = request.asked /\ request'.at = "idle"
    BY <1>6, RequestIs DEF Unavailable, Answers, Busy, NoRequest, At
  <2>2. UNCHANGED <<clock, published, fetchedAt, lastAttempt, fetches, listedAt, served>>
    BY <1>6 DEF Unavailable
  <2>3. TimesInv'
    BY <1>0, <2>1, <2>2 DEF KeyIInv, TimesInv
  <2>4. CASE fetchedAt = Never
    BY <2>1, <2>2, <2>3, <2>4 DEF KeyIInv, ListedInv, ServedInv, FetchesInv
  <2>5. CASE fetchedAt # Never
    <3>1. ServedInv'
      BY <1>0, <1>6, <2>1, <2>2, <2>5 DEF Unavailable, Usable, KeyIInv, TimesInv, ServedInv
    <3> QED
      BY <2>1, <2>2, <2>3, <3>1 DEF KeyIInv, ListedInv, FetchesInv
  <2> QED
    BY <2>4, <2>5
<1>7. CASE Finds
  BY <1>7, RequestIs, AnswerStep DEF Finds
<1>8. CASE Misses
  <2>1. /\ Busy /\ Busy' /\ request'.at = "missing" /\ request'.asked = request.asked
        /\ MayAttempt(request.asked) /\ Attempts(request.asked) /\ request.asked \in Time
    BY <1>8, RequestIs, Moves DEF Misses
  <2>2. FetchesInv'
    BY <2>1, OneMoreFetch DEF KeyIInv
  <2>3. TimesInv'
    BY <1>0, <1>8, <2>1 DEF Misses, Attempts, KeyIInv, TimesInv, At
  <2> QED
    BY <1>8, <2>1, <2>2, <2>3 DEF Misses, KeyIInv, ListedInv, ServedInv, At
<1>9. CASE DoesNotKnow
  BY <1>9, RequestIs, AnswerStep DEF DoesNotKnow
<1>10. CASE UNCHANGED keyVars
  BY <1>10 DEF keyVars, KeyIInv, TimesInv, ListedInv, ServedInv, FetchesInv, At, Busy, Expired,
     MayAttempt
<1> QED
  BY <1>1, <1>2, <1>3, <1>4, <1>5, <1>6, <1>7, <1>8, <1>9, <1>10 DEF KeyNext

LEMMA KeyInductive == KeySpec => [](KeyTypeOK /\ KeyIInv)
  BY KeyTypeInit, KeyTypeStep, KeyInvInit, KeyInvStep, PTL DEF KeySpec

-----------------------------------------------------------------------------
(* The properties *)

\* In any time there are no more fetches than that many intervals allow.
\* (JWKSCache._may_attempt)
THEOREM FetchesHold == KeySpec => []FetchesLimited
<1>1. KeyTypeOK /\ KeyIInv => FetchesLimited
  <2> SUFFICES ASSUME KeyTypeOK, KeyIInv PROVE FetchesLimited
    OBVIOUS
  <2>1. lastAttempt <= clock /\ clock \in Nat /\ lastAttempt \in Int /\ MinRefresh \in Nat
    BY RequestIs, KeyTimesAssumption DEF KeyTypeOK, KeyIInv, TimesInv, At, Time, Past, Never
  <2>2. CASE fetches = 0
    BY <2>1, <2>2 DEF FetchesLimited
  <2>3. CASE fetches # 0
    <3>1. (fetches - 1) * MinRefresh \in Int
      BY <2>1 DEF KeyTypeOK
    <3> QED
      BY <2>1, <2>3, <3>1 DEF KeyIInv, FetchesInv, FetchesLimited
  <2> QED
    BY <2>2, <2>3
<1> QED
  BY <1>1, KeyInductive, PTL

\* A key that was withdrawn is found no longer than a set, and an outage, may last.
\* (JWKSCache.get)
THEOREM WithdrawnHold == KeySpec => WithdrawnKeysGo
<1> DEFINE A == Found => /\ listedAt[request.kid] > request.asked - Ttl - StaleIfError
                         /\ lastAttempt = fetchedAt => listedAt[request.kid] > request.asked - Ttl
<1>1. KeyTypeOK /\ KeyIInv /\ [KeyNext]_keyVars => A
  <2> SUFFICES ASSUME KeyTypeOK, KeyIInv, [KeyNext]_keyVars, Found PROVE A
    OBVIOUS
  <2>1. Finds
    BY DEF Found, KeyNext, Rotate, ClockTick, Get, Fetched, FetchFails, Unavailable, Finds, Misses,
       DoesNotKnow, Answers, keyVars
  <2>2. /\ request.kid \in keys /\ Usable(request.asked) /\ request.at \in {"look", "last"}
        /\ request.kid \in Kids /\ request.asked \in Int /\ fetchedAt \in Int /\ lastAttempt \in Int
    BY <2>1, RequestIs DEF Finds, KeyTypeOK, Time, Past, Never
  <2>3. listedAt[request.kid] >= fetchedAt /\ listedAt[request.kid] \in Int
    BY <2>2 DEF KeyIInv, ListedInv, KeyTypeOK, Past, Time, Never
  <2>4. listedAt[request.kid] > request.asked - Ttl - StaleIfError
    BY <2>2, <2>3, KeyTimesAssumption DEF Usable
  <2>5. ASSUME lastAttempt = fetchedAt PROVE request.asked - fetchedAt < Ttl
    BY <2>2, <2>5, KeyTimesAssumption DEF KeyIInv, TimesInv, Expired, MayAttempt, Usable
  <2> QED
    BY <2>2, <2>3, <2>4, <2>5, KeyTimesAssumption
<1> QED
  BY <1>1, KeyInductive, PTL DEF KeySpec, WithdrawnKeysGo

\* A key is refused only right after an attempt, and only if the set that was fetched
\* last lacks it or is too old.  (JWKSCache.get)
THEOREM RefusedHold == KeySpec => RefusedForCause
<1> DEFINE A == NotFound =>
                  /\ lastAttempt # Never /\ request.asked - lastAttempt < MinRefresh
                  /\ request.kid \in served => request.asked - fetchedAt >= Ttl + StaleIfError
<1>1. KeyTypeOK /\ KeyIInv /\ [KeyNext]_keyVars => A
  <2> SUFFICES ASSUME KeyTypeOK, KeyIInv, [KeyNext]_keyVars, NotFound PROVE A
    OBVIOUS
  <2>1. Unavailable \/ DoesNotKnow
    BY DEF NotFound, KeyNext, Rotate, ClockTick, Get, Fetched, FetchFails, Unavailable, Finds, Misses,
       DoesNotKnow, Answers, keyVars
  <2>2. /\ Busy /\ request.at \in {"look", "last"} /\ request.asked \in Nat
        /\ fetchedAt \in Int /\ lastAttempt \in Int /\ At = request.asked
    BY <2>1, RequestIs, KeyTimesAssumption DEF NotFound, Unavailable, DoesNotKnow, KeyTypeOK, Time,
       Past, Never, At, Busy
  <2>3. CASE Unavailable
    <3>1. fetchedAt = Never \/ request.asked - fetchedAt >= Ttl + StaleIfError
      BY <2>2, <2>3, KeyTimesAssumption DEF Unavailable, Usable
    <3>2. lastAttempt # Never /\ request.asked - lastAttempt < MinRefresh
      BY <2>2, <3>1, KeyTimesAssumption DEF KeyIInv, TimesInv, Expired, MayAttempt, Never
    <3> QED
      BY <3>1, <3>2 DEF KeyIInv, ServedInv
  <2>4. CASE DoesNotKnow
    <3>1. lastAttempt # Never /\ request.asked - lastAttempt < MinRefresh
      BY <2>2, <2>4, KeyTimesAssumption DEF DoesNotKnow, KeyIInv, TimesInv, MayAttempt, Never
    <3>2. request.kid \in served => request.asked - fetchedAt >= Ttl + StaleIfError
      BY <2>2, <2>4 DEF DoesNotKnow, KeyIInv, ServedInv
    <3> QED
      BY <3>1, <3>2
  <2> QED
    BY <2>1, <2>3, <2>4
<1> QED
  BY <1>1, KeyInductive, PTL DEF KeySpec, RefusedForCause
=============================================================================
