---------------------------- MODULE PolicyStore ----------------------------
(***************************************************************************)
(* The policy table: one item per version of a rule, and the two calls     *)
(* that write it (policy_authoring.policy_store save_policy and            *)
(* deactivate_policy), DynamoDB operation by DynamoDB operation.           *)
(*                                                                         *)
(* A call reads the newest version and goes on to write what it decided    *)
(* from it; calls on different Lambda instances overlap.  Every operation  *)
(* may fail: a failed read is taken for an absent rule, a failed status    *)
(* change is logged and forgotten, a failed put is a 500.  A Lambda may be *)
(* killed between any two operations.  What RuleSet refuses never gets     *)
(* here.                                                                   *)
(***************************************************************************)
EXTENDS Integers, FiniteSets

CONSTANTS
    Writers,        \* instances of the authoring function
    RuleIds,        \* rule_id
    Rules,          \* what a version says (scope, conditions, action)
    NoRule,         \* the rule of a call that brings none
    StoreFaults,    \* whether DynamoDB operations may fail
    MaxVersion      \* bound on the versions of a rule (model checking only)

ASSUME StoreAssumption ==
    NoRule \notin Rules /\ StoreFaults \in BOOLEAN /\ MaxVersion \in Nat

VARIABLES
    items,      \* items[id]: version -> [status, rule]
    wpc,        \* where each writer is in save_policy or deactivate_policy
    job,        \* its call: [kind, id, rule] and the version it found, 0 for none
    deleted,    \* history: the last call on the rule is a delete that was answered
    alone,      \* history: no two calls on the rule have overlapped
    clean       \* history: no operation of a call on the rule has failed

storeVars == <<items, wpc, job, deleted, alone, clean>>

Statuses == {"active", "superseded", "inactive"}
Item     == [status : Statuses, rule : Rules]

Versions(id) == DOMAIN items[id]

Newest_Ascending(id) ==
    IF Versions(id) = {} THEN 0 ELSE CHOOSE v \in Versions(id) : \A u \in Versions(id) : v <= u

\* Query with ScanIndexForward=False, Limit=1; 0 when there is no item.
Newest(id) ==
    IF Versions(id) = {} THEN 0 ELSE CHOOSE v \in Versions(id) : \A u \in Versions(id) : u <= v

ActiveVersions(id) == { v \in Versions(id) : items[id][v].status = "active" }

\* What a scan for active policies finds.
InForce == UNION { { [id |-> id, version |-> v, rule |-> items[id][v].rule]
                     : v \in ActiveVersions(id) } : id \in RuleIds }

StoreTypeOK ==
    /\ items \in [RuleIds -> UNION { [V -> Item] : V \in SUBSET (1..MaxVersion) }]
    /\ wpc \in [Writers -> {"idle", "latest", "supersede", "put", "deactivate"}]
    /\ job \in [Writers -> [kind : {"author", "delete"}, id : RuleIds,
                            rule : Rules \cup {NoRule}, found : 0..MaxVersion]]
    /\ deleted \in [RuleIds -> BOOLEAN]
    /\ alone \in [RuleIds -> BOOLEAN]
    /\ clean \in [RuleIds -> BOOLEAN]

Call(kind, id, rule) == [kind |-> kind, id |-> id, rule |-> rule, found |-> 0]

StoreInit ==
    /\ items = [id \in RuleIds |-> [v \in {} |-> {}]]
    /\ wpc = [w \in Writers |-> "idle"]
    /\ \E id \in RuleIds : job = [w \in Writers |-> Call("delete", id, NoRule)]
    /\ deleted = [id \in RuleIds |-> FALSE]
    /\ alone = [id \in RuleIds |-> TRUE]
    /\ clean = [id \in RuleIds |-> TRUE]

Id(w) == job[w].id

Busy(w, id) == wpc[w] # "idle" /\ Id(w) = id

Goto(w, to) == wpc' = [wpc EXCEPT ![w] = to]

Return(w) ==
    /\ Goto(w, "idle")
    /\ job' = [job EXCEPT ![w] = Call("delete", Id(w), NoRule)]

Answer(w, kind) ==
    /\ Return(w)
    /\ deleted' = [deleted EXCEPT ![Id(w)] = (kind = "deleted")]

\* The operation w is at fails: with no effect, or -- a write whose reply is
\* lost -- after taking effect.
Fails(w) == StoreFaults /\ clean' = [clean EXCEPT ![Id(w)] = FALSE]

-----------------------------------------------------------------------------
StartCall(w, kind, id, rule) ==
    /\ wpc[w] = "idle"
    /\ Goto(w, "latest")
    /\ job' = [job EXCEPT ![w] = Call(kind, id, rule)]
    /\ deleted' = [deleted EXCEPT ![id] = FALSE]
    /\ alone' = [alone EXCEPT ![id] = @ /\ \A u \in Writers : ~Busy(u, id)]
    /\ UNCHANGED <<items, clean>>

Author(w, id, rule) == StartCall(w, "author", id, rule)

Delete(w, id) == StartCall(w, "delete", id, NoRule)

\* get_latest_policy_version: the newest version, or none when the query failed.
Found(w, n) ==
    \/ n = Newest(Id(w)) /\ UNCHANGED clean
    \/ n = 0 /\ Fails(w)

LatestForAuthor(w) ==
    /\ wpc[w] = "latest" /\ job[w].kind = "author"
    /\ \E n \in 0..(MaxVersion - 1) :
          /\ Found(w, n)
          /\ job' = [job EXCEPT ![w].found = n]
          /\ Goto(w, IF n # 0 /\ items[Id(w)][n].status = "active" THEN "supersede" ELSE "put")
    /\ UNCHANGED <<items, deleted, alone>>

LatestForDelete(w) ==
    /\ wpc[w] = "latest" /\ job[w].kind = "delete"
    /\ \E n \in 0..MaxVersion :
          /\ Found(w, n)
          /\ IF n = 0 \/ items[Id(w)][n].status = "inactive"
             THEN Answer(w, "missing")
             ELSE /\ Goto(w, "deactivate")
                  /\ job' = [job EXCEPT ![w].found = n]
                  /\ UNCHANGED deleted
    /\ UNCHANGED <<items, alone>>

SetStatus_Dropped(w, status) == UNCHANGED items

SetStatus_Latest(w, status) ==
    items' = [items EXCEPT ![Id(w)][Newest(Id(w))].status = status]

SetStatus(w, status) ==
    items' = [items EXCEPT ![Id(w)][job[w].found].status = status]

Supersede(w) ==
    /\ wpc[w] = "supersede"
    /\ \/ SetStatus(w, "superseded") /\ UNCHANGED clean
       \/ Fails(w) /\ (UNCHANGED items \/ SetStatus(w, "superseded"))
    /\ Goto(w, "put")
    /\ UNCHANGED <<job, deleted, alone>>

\* The versions of the rule once the next one is put.
Written(w) ==
    LET n == job[w].found + 1
    IN  [v \in Versions(Id(w)) \cup {n} |->
            IF v = n THEN [status |-> "active", rule |-> job[w].rule] ELSE items[Id(w)][v]]

Put(w) ==
    /\ wpc[w] = "put"
    /\ \/ /\ items' = [items EXCEPT ![Id(w)] = Written(w)]
          /\ Answer(w, "created") /\ UNCHANGED clean
       \/ /\ Fails(w) /\ Answer(w, "failed")
          /\ UNCHANGED items \/ items' = [items EXCEPT ![Id(w)] = Written(w)]
    /\ UNCHANGED alone

Deactivate(w) ==
    /\ wpc[w] = "deactivate"
    /\ \/ SetStatus(w, "inactive") /\ Answer(w, "deleted") /\ UNCHANGED clean
       \/ Fails(w) /\ Answer(w, "missing") /\ (UNCHANGED items \/ SetStatus(w, "inactive"))
    /\ UNCHANGED alone

\* The Lambda is killed at its timeout; the caller gets no answer.
Killed(w) ==
    /\ wpc[w] # "idle"
    /\ Return(w)
    /\ UNCHANGED <<items, deleted, alone, clean>>

StoreStep(w) ==
    \/ \E id \in RuleIds, rule \in Rules : Author(w, id, rule)
    \/ \E id \in RuleIds : Delete(w, id)
    \/ LatestForAuthor(w) \/ LatestForDelete(w)
    \/ Supersede(w) \/ Put(w) \/ Deactivate(w) \/ Killed(w)

StoreNext == \E w \in Writers : StoreStep(w)

StoreSpec == StoreInit /\ [][StoreNext]_storeVars

-----------------------------------------------------------------------------
(* Properties *)

\* Superseded, with no next version there and no author about to put it.
Orphans(id) ==
    { v \in Versions(id) :
        /\ items[id][v].status = "superseded"
        /\ v + 1 \notin Versions(id)
        /\ \A w \in Writers : wpc[w] = "put" /\ Id(w) = id => job[w].found # v }

\* An author's put has no effect, or the author dies before it.
GivesUp(w) == wpc[w] = "put" /\ wpc'[w] = "idle" /\ UNCHANGED items

NextFollowsStep ==
    \A id \in RuleIds : \A v \in Orphans(id)' \ Orphans(id) :
        \E w \in Writers : GivesUp(w) /\ Id(w) = id /\ job[w].found = v

\* "Deactivate the previous version so list queries only surface the latest": a version
\* is superseded for the sake of the next one, and no step leaves it without, however
\* many authors and deletes of the rule overlap and whatever else fails, but the author
\* that found that version giving up its put.  So overlapping authors never switch a
\* rule off between them.  (policy_store.save_policy)
SupersededByNext == [][NextFollowsStep]_storeVars

\* As long as no two calls on a rule overlapped and no operation of one failed, one
\* version of it is in force at most, the newest -- also after a call that died
\* half-way, and whichever instances the calls went to.  (policy_store.save_policy)
OnlyNewestInForce ==
    \A id \in RuleIds : alone[id] /\ clean[id] => ActiveVersions(id) \subseteq {Newest(id)}

\* Then also, a delete that was answered "inactive" has switched the rule off, until
\* the next call on it.  (policy_store.deactivate_policy, handler._route_delete)
DeletedIsOff ==
    \A id \in RuleIds :
        alone[id] /\ clean[id] /\ deleted[id] => ActiveVersions(id) = {}

\* Versions count up from 1 without a hole, whatever overlaps, fails or dies.
VersionsContiguous ==
    \A id \in RuleIds : \A v \in Versions(id) : 1..v \subseteq Versions(id)

\* "Subsequent calls with the same rule_id increment the version, creating an immutable
\* audit trail": what a stored version says never changes.  (policy_store.save_policy)
AuditTrailKept ==
    [][\A id \in RuleIds : \A v \in Versions(id) :
          items'[id][v].rule = items[id][v].rule]_storeVars

\* "Mark the latest active version of a policy as inactive ... False if not found": a
\* delete that is refused because the rule "is already inactive" leaves nothing in
\* force.  (policy_store.deactivate_policy, handler._route_delete)
RefusedDeleteIsOff ==
    [][\A w \in Writers :
          LET n == Newest(Id(w))
          IN  LatestForDelete(w) /\ n # 0 /\ items[Id(w)][n].status = "inactive"
                => ActiveVersions(Id(w)) = {}]_storeVars
=============================================================================
