# DeviceWeave in TLA+

A verification project for DeviceWeave, a serverless home-automation backend: Lambda functions
in Python that share DynamoDB tables. It holds TLA+ modules translated from the source, TLC
configurations that check them on small instances, and TLAPS proofs of what matters most.
`PROJECT.json` is the index: components, runs, which lines each definition models (`map`), the
mutation that breaks each property, findings, hazards and theorems.

Paths below are relative to the repository's `src/` directory unless they name `template.yaml`.

## 1. The system

| Component | State it keeps | Operations | What makes it hard |
|---|---|---|---|
| Authorization and step-up (`cipherweave_verify/`, `access_control.py`, `rest_auth.py`, `mcp_handler.py`) | the jti ledger (DynamoDB, with time to live); per request: principal, `_stepped_up` | authenticate, authorize a tool, gate every step, claim a jti | requests on different instances, lost replies, expiry on another clock, audit modes, freshness checked before a write that may take long |
| Policy evaluation (`policy_engine/evaluator.py`, `param_clamp.py`, `device_types.py`) | none | `compute_verdict`, `rule_winner_key`, `clamp_numeric_params` | rule order, ties, missing context |
| Rule-set analysis (`policy_authoring/rule_set_checker.py`, `handler.py`) | `POLICY_INVARIANTS` | `analyze`, `check_new_rule`, author and delete routes | interval ends, box subtraction, what is judged beside what |
| Policy table (`policy_authoring/policy_store.py`) | one item per version of a rule | `save_policy`, `deactivate_policy` | read-then-write without a condition, failed status changes that are only logged, kills |
| Policy enforcement (`policy_engine/policy_loader.py`, `middleware.py`, `context_provider.py`) | per container: cached rules and their expiry | `_ensure_fresh`, `_reload`, `enforce`, `filter_steps`, `get_context` | stale caches, failed loads, a context older than the verdict |
| Command execution (`app.py`, `execution_planner.py`) | none of its own | resolve a command, run its steps, learn from it | some steps fail or are refused, the others run |
| Enforceability (`policy_authoring/controllability.py`) | none | `build_plant`, `supcon`, `supcon_forcing`, `classify`, witness | a fixpoint, forcing, reachability, cells that stand for numbers |
| Presence (`eero_presence_handler.py`, `eero_presence.py`, `presence_store.py`) | one item `home`, with people | poll, `POST /presence`, stale mark | read, slow call, whole-item put; debounce |
| Rooms (`room_fingerprint.py`, `room_schedule.py`, `room_checkin.py`, `eero_calibration_handler.py`) | fingerprints, rules, check-ins, smoothing counters inside presence | `smooth`, `set_rule`, `label`, `record`, collection, training | check-then-put races, resurrection of deleted rows |
| Registry and ingestion (`ingestion/`, `device_resolver.py`) | device items, container caches | full and delta sync, CRUD routes, resolve | overlapping syncs, order of results, caches without expiry |
| Learning and scenes (`learning_store.py`, `scene_catalog.py`) | phrase items, deleted-scene items, a container cache | learn, increment, delete | upsert after delete, a failed read cached for ever |
| Conversation (`conversation_store.py`, `sms_handler.py`, `bedrock_agent.py`, `gemini_agent.py`) | the history of each session | load, agent loop, save | lost updates, redelivery, crash between a tool call and the save |
| Shared clients (`jwks.py`, `modelweave_roles.py`, `graph_engine.py`, `observatory_wrapper.py`) | caches in each container | get key, choose model, connect | rate limits, stale-if-error, unlocked driver |
| Adapters, LLM providers, framing | tokens at most | HTTP, JSON-RPC | I/O: an adapter is a step that runs or fails |

How they meet: a request comes in at one of three doors (MCP, REST, SMS), is authenticated and
authorized, and is resolved to steps, by a scene, by the device resolver or by an LLM agent. A
verdict of the policy engine (rules cached from the policy table, presence and weather as
context) filters or changes the steps; the physical-access gate is asked before each step; the
adapters run what is left; learning and the graph record it. Presence polls, ingestion and
policy authoring run beside that and share nothing with it but tables.

Correctness, component by component:

* Authorization: nothing opens without a fresh first-hand token spent by this very request; one
  token opens for one request; closing and locking never need a token.
* Evaluation and analysis: the analysis and the evaluator agree on every context; the verdict
  does not depend on the order of rules; a missing field never blocks; a stored rule keeps the
  invariants.
* Policy table and enforcement: one version is in force at most; a rule starts and stops to hold
  everywhere within the cache lifetime; a failed load forgets nothing.
* Enforceability: the synthesized set is the largest controllable one, and the closed loop is safe.
* Presence: debounce in both directions; failures never turn the house away; a room is displayed
  on two readings; one training row an hour.
* Rooms: a room is named only where somebody said so; what replaces a fingerprint was read whole;
  two rules never hold at once; the nearest room is named, or none.
* Registry: a full sync makes the table agree with the listing, and in the end with the cloud.
* Learning and scenes: what a container deleted leaves its caches (a failed read excepted); what was taught is not replaced.
* Conversation: an exchange that is saved keeps the ones before it; histories stay well-formed.
* Shared clients: no key is used past its stale limit; no storm of fetches; no good key refused.

The hazards, each at its line, are listed in `PROJECT.json` with the properties that would catch
them going wrong. Some have none, and say why.

## 2. Modules

| Module | Models | Proved in |
|---|---|---|
| `SpendOnce` | abstract promise of the step-up: a jti is spent once, and opening comes after | |
| `StepUp` | the doors, tool authorization, the per-step gate, the ledger, the clock | `StepUpProofs` |
| `PolicyVerdict` | evaluator and clamp, as operators | `PolicyGateProofs`, `RuleSetProofs` |
| `Regions` | intervals, label sets and boxes over the context fields, as operators | `RuleSetProofs` |
| `RuleSet` | the analysis of a rule set, the validator, the author and delete routes, one call at a time | `RuleSetProofs` |
| `PolicyStore` | the table and its two writers, one DynamoDB operation at a time | `PolicyGateProofs` |
| `PolicyGate` | containers judging commands with cached rules, composed with `PolicyStore` and `PolicyVerdict` | `PolicyGateProofs` |
| `Presence` | the presence item: polls, stale marks, changes by hand, rooms, the training row of the hour | `PresenceProofs` |
| `Fingerprint` | the nearest-room classifier, as operators | `RoomsProofs` |
| `Rooms` | calibration runs, schedule rules, check-ins and the models trained from them | `RoomsProofs` |
| `Supervisor` | the synthesis on any finite plant, pass by pass, its class, and the closed loop | `EnforcementProofs` |
| `Plant` | cells of the context, and the plant of one device, as operators | `EnforcementProofs` |
| `Enforcement` | an author's question, composed of `Plant` and `Supervisor`, beside the world itself | `EnforcementProofs` |
| `Registry` | full and delta syncs, the clouds, and the routes on devices | `CatalogProofs` |
| `Conversation` | sessions, the agent loops of both providers, saves | `ConversationProofs` |
| `Catalog` | devices, phrases and scenes as containers cache them; commands and what they teach | `CatalogProofs` |
| `KeySet` | the issuer's keys as one container caches them | `StepUpProofs` |
| `MC*` | instances for TLC | |

`Regions` is shared by `RuleSet` and `Plant`, `PolicyVerdict` by `Regions` and `PolicyGate`. `Presence`
takes the answer of the classifier as a choice; `Rooms` and `Fingerprint` say where it comes from.
`Catalog` takes the outcome of a step as a choice; `PolicyGate` and `StepUp` decide it.

### StepUp

One action per decision of the code. `Admit`, `Reject` and `AdmitUnbound` are the door
(`mcp_handler.handler`, `rest_auth.check`, SMS without a principal). `RefuseTool`, `CallTool` and
`AskLedgerForTool` are `ToolAuthorizer.authorize`. `RunStep`, `DenyStep` and `AskLedgerForStep`
are `access_control.check_step`, asked by `execution_planner._execute_one`. `ClaimFor*`,
`ClaimReplayed` and `ClaimLost` are the conditional put of `DynamoJtiLedger.claim` with its four
outcomes, a lost reply included. `ExpireItem` is the time to live; `TimeOut` is the Lambda's end.
Everything between two of these is sequential in the code (`check_step` blocks the event loop).
The token classes and doors are sets; the modes (scope audit, REST audit, which function has a
ledger) are constants. Signatures and proofs of possession are left out: `Tokens` are the ones the
issuer minted.

### PolicyVerdict, Regions and RuleSet

`PolicyVerdict` has no state. `rule_winner_key` is a total preorder on (id missing, id, reason,
canonical params); a rule carries its rank there as `key`. `Regions` has the region of a rule as
a set of boxes over the fields, in the code's field order, with the operations of `Interval`,
`StringSet`, `box_minus` and `region_minus`, and the sample point of a box. `RuleSet` computes
the findings of `analyze` from them. Numbers are in half units: even ones are thresholds and whole
hours, odd ones lie in between, so that open and closed ends are told apart on finitely many contexts.

What the compiler makes of a text is a raw rule from a pool; the validator stands before the
analysis, as in the code: the compiler has to be sure of the rule, the device's name is brought to
its canonical form, and every condition must name a known field, a known operator and a value of
the field's type. An ordering operator on a boolean passes the validator; the analysis then refuses
the rule as one that matches nothing ("the evaluator's result is not meaningful here"), so that the
evaluator, which would compare `False < True`, never meets it; `FindingsExact` speaks of the other rules
(`Comparable`). Labels are told apart only as far as the rules name them.

### PolicyStore and PolicyGate

A writer is an instance of the authoring function with one call at a time; its program counter
names the DynamoDB operation it is about to make. Nothing keeps two of them from one rule:
`alone` and `clean` note whether calls on it have overlapped or failed, so that a property says
itself when it depends on that. Each operation can fail without effect, and a
write can take effect and lose its reply; what the code does then (`get_latest_policy_version`
answers "no rule", `_set_status` logs, `put_item` raises) is in the action. Reads are taken to be
consistent. The code does not ask for that (`ConsistentRead` is nowhere set), so what is shown of
the newest version, of deletes and of the TTL holds up to DynamoDB's replication delay.

A container has a cache, the seconds it has left, and at most one command. Time counts down to
the expiry and up to limits, so a behaviour goes on for ever in finitely many states: `age[p]`
says how long a rule has been in or out of force, up to the TTL, `calm[c]` how long ago a load
failed. `known[c]`, `age` and `calm` are history variables; nothing the program does reads them.
One scan is atomic. A tool call of an agent fetches its own context, so that it is a command of
one step here. One container is enough for the runs: containers share only the table.

### Presence

One item says who is home. A poll lists eero's clients (`List`), reads the item and makes a new
one of it (`Observe`: the debounce of `_person_state`, then `apply_rooms`, then `apply_rules`),
stores the training rows that are due (`CheckIn`, one call per person) and puts the item
(`Write`). A poll that fails before that reads the item and puts it back marked stale
(`PollFails`, `MarkStale`); `POST /presence` reads it and puts it back with another `is_home`
(`SetByHand`, `PutByHand`). All three put the whole item without a condition, and any of them may
overlap the others, die, or have its put fail. `HourTurns` is the local hour: the key of the hour
before is as good as none, so it is dropped from the item and from drafts.

What eero, the classifier and the rules answer is a choice in each poll: whom it sees, which room
each of them is in (or that the fingerprints cannot be read), whose rule holds. An item never
written reads like the default one. People have to be tracked all along: a change of the tracked
devices in between is left out, and so is a deployment without the fingerprint table. `Observe`
is one step although it makes several calls, because nothing that another run writes is read after
the item; what is not seen is an hour that turns between these calls. `misses` counts up to the
threshold, which is all that is asked of it.

`streak` and `agree` are history variables: the polls in a row that missed a person, and how
often in a row the same room was read, taken from what polls saw and not from the item. `lost`
says that a put has undone another one. The code does not prevent that, so what is claimed of the
counts is claimed as long as it has not happened; the two properties of training rows do not need
the premise.

### Fingerprint and Rooms

Three tables that nobody locks. A call (`SetRule`, `Label`, the poll's `Observe`, `Train`) reads
and decides, and puts in a later step (`PutRule`, `PutRow`, `PutModel`), so that two calls overlap
in every way. Calls whose read does not decide what is written (`DeleteRule`, `Record`, `Capture`,
`DeleteRow`) are one step, and so is each delete of `delete_fingerprints`. A calibration run is a
job: samples one at a time, the first of which fixes the device; failures of eero; the put; and
what Lambda makes of an asynchronous invocation that raises or times out, before its put or after
it: it is started anew, at most twice. A model is the set of rooms it names: likelihoods, features
and the evaluation report are left out. `Classified` is `classify` itself, with its buckets, its distance, the
gap to the next room and the floor. A reading names its node twice, by display name and by location; a
sample keeps one name, and matches a reading that has it as either.

`stale`, `raced`, `failed` and `answers` are history variables. `raced` are the people who got a
rule from a call that had checked before another rule was put: the code does not prevent that, so
the claim about windows is made of everybody else, and what is proved is
that this race is the only way to overlapping windows.

### Supervisor, Plant and Enforcement

`Supervisor` is the synthesis over any finite deterministic automaton: one pass of the fixpoint is
one `Prune`, first for the guard and then with forcing, `Settle` ends a fixpoint, `TimesOut` is the
deadline between two passes. The class (`Class`), the first reason that fails (`Because`) and the
state where the witness trace ends follow. Then the result is put to use: `Install` takes one of
the supervisors, `Move` runs the closed loop: what is disabled does not happen, and where a
supervisor has to force, only what it forces does. `GoodIsLargest` compares the fixpoint with the
definition, every controllable (or forcibly controllable) subset of the legal states.

`Plant` is `build_plant`: which fields get an axis, the cuts, the atoms between them and how
neighbours that no rule tells apart are joined, the sample point of each cell, drift by one cell,
the commands, the precursor of an unreadable presence. `Enforcement` asks about a rule set
(`Ask`), refuses a plant above the cap, runs `Supervisor` on it, and lets the device go live beside
a world of single degrees and hours, in which the evaluator alone guards it and midnight follows
on the last hour. What is found out about cells is claimed of that world. An invariant has no
guard of its own: it is "a block the rules are supposed to cover" (`controllability.py:75`), so that what is
claimed of the guard is claimed of rules that do (`Covered`). Without that, rules that block below a
threshold and an invariant that forbids the rest make every state forbidden and the set
"enforceable", while the evaluator lets the device on where only the invariant speaks.

### Registry

A run (`ingestion_handler`, `IngestionPipeline`) is one mode for one provider; what it has read, and
what is left to write, is in `run[r]`. It discovers (`Discovers`, or less of the cloud when pages or
records fail: `DiscoversLess`), reads the active ids or nothing (`ReadsNothing`: a failed query is
logged and taken for an empty answer), and writes one row after the other, each of which may fail
and is then passed over. It may die anywhere. Requests create, rename and delete rows in between,
and devices come, go, and change in the cloud. What each provider's discovery makes of a cloud
entry (which ones it skips, and whether it reports who is offline) is one operator each. A row is
its status and its fingerprint, which stands for the identity fields. `clean` is a history variable: full syncs
in which nothing has failed and during which nobody else wrote.

### Conversation

Invocations share one session and save it whole. `Text` and `Execute` load it, `Bedrock` and
`Gemini` are one round of the agents' loops with every way an answer ends, `Fails` is an exception
or a timeout, `Save` the put, which may fail and is then only logged. The two providers keep
histories of different shapes; `NormalizeHistory` changes them into each other as the code does, and
`Accepts` is what each takes: its own shape, no empty turn, every call with its results, and for
Bedrock roles that alternate. What it does not accept is `Refused`. A session remembers how the run
that wrote it ended (`ending`, a history variable): with an answer, without a word (an `end_turn` or
`max_tokens` with no text: the caller gets a stock phrase, the empty message is saved), or cut off, at
the round limit or in a call.
A message may come any number of times, within the bound: SNS delivers at least once. What the
tools do is a choice here; `Catalog` has the tools.

### Catalog

Every container caches devices, phrases and deleted scenes, without an expiry; a cache is read when
a request first needs it (`Loads*`), and dropped by the routes that the code makes drop it. Requests are
handled one at a time in a container: routing, scenes, the device tiers, the LLM, execution, and
what is learned from it (`Save`, then `Count`: the conditional put and the update that adds to a
row, present or not). An ingestion run writes devices and generates phrases at the same time.
How well a phrase matches is a choice, and so is which steps succeed.
A device's rows of several providers are one here, written one after the other in the code: a delete that
fails may or may not have switched them off, and keeps the cache (`DeleteDevice`).

### KeySet

One container and its `JWKSCache`. A fetch takes time: `Get` begins one, `Fetched` and `FetchFails`
end it, and a set is as old as the request that fetched it. The issuer lists and withdraws keys at
any time. `listedAt`, `served` and `outcome` are history variables.

## 3. Runs

| Run | Instance | Shows |
|---|---|---|
| `step_up` | two requests, four JWTs (fresh, delegated, long-lived, execute only) and the static token, four calls, two plans with a door, a garage and a toggling lamp, clock to 4 (`MaxTime`), window, leeway and Lambda timeout 1, grace 2 | doors, single use, safe steps, window; refinement of `SpendOnce` |
| `rule_set` | every table of up to three (`MaxRules`) of the valid rules of a pool, raw rules that the validator refuses, invariant sets, 126 contexts | each kind of finding is reported exactly where the evaluator bears it out; what is created keeps the invariants |
| `policy_gate` | two writers, one rule id of up to two versions (`MaxVersion`), one container, TTL 2, retry 1, Lambda timeout 1, faults everywhere | when rules start and stop to hold; what overlapping, failing and killed calls leave of a rule |
| `presence_rooms` | one person, two rooms, threshold 2, one poller, one caller | rooms change on two readings; a key has its row; rows are of people seen |
| `presence_house` | two people, threshold 3 (the deployed one), no rooms, one poller, one caller | debounce, occupancy, and that departures and arrivals are noticed |
| `rooms` | two people, two rooms, two devices, two nodes at one location, three signal buckets or none, a day of 3 minutes with four windows, one zone, two calls and two jobs at once, `MaxSamples` 2, `MinTrainRows` 1, `MaxCalls` 4 | windows, training, fingerprints, the nearest room |
| `enforcement` | some 3900 plants: ladders of 3 and 4 states whose uncontrollable and forcible events lead anywhere or nowhere, and the plants of a fan for 42 questions about its rules, with and without manual switching and precursor | largest controllable set, closed loop, class and witness, cells against the world |
| `registry` | one Kasa plug with two names, two runs | a full sync reconciles; with fairness, table and cloud come to agree |
| `conversation` | two messages and a reset keyword, two invocations, either provider in each, `MaxRounds` 2, `MaxDeliveries` 3 | Gemini accepts every saved history, Bedrock every one that ends in an answer; nothing of a conversation dropped |
| `conversation_limit` (violation) | the same, one invocation, `MaxDeliveries` 2 | two user turns in a row after the round limit |
| `catalog` | a lamp and a fan, their names as phrases, a scene of both, two containers, `MaxRequests` 3 | own deletes are seen, failed reads of the deleted scenes excepted; taught phrases stand |
| `key_set` | two keys, lifetime 3, interval 2, outage 2, clock to 8 (`Lifespan`) | withdrawn keys go, good keys are not refused, fetches are limited |

Why the bounds are enough. Step-up properties speak of at most two requests and one token, so
two requests show every interleaving that matters; the times keep the proportions of the code
(window + Lambda timeout within the grace), and the clock runs past `exp`, leeway and grace of
the shortest token, so that the ledger forgets. Rule-set findings relate two rules and what a
third covers, or one rule an author sends; the pool has touching and contradicting thresholds, integer hours between open
bounds, label sets, ties of keys, a rule and its replacement under one id, and another device.
Policy properties relate one version in force, one before it, and one cache; TTL 2 against
retry 1 and timeout 1 lets a load fail, be retried and succeed inside a lifetime. Two writers
overlap in every way; what they leave is not served to the container (`OverlapsUnserved`), to
which a table is what a scan finds, however it came about. Presence is
split in two because rooms and the house's aggregate do not meet: a room concerns one person, and
two rooms and `unknown` are enough for a reading between two equal ones; the house needs a second
person who is home while the first is not. One poller and one caller overlap in every way two
puts can.

In `rooms` a property relates two rules, or one row and one training, or one fingerprint and the run
behind it; two calls and two jobs overlap in each way two of them can, and `MaxCalls` 4 leaves a
delete and a second call between. The windows touch, nest, overlap and wrap midnight; buckets 1, 2
and 4 are distances 0 to 3, which is one more than the classifier admits, and one node is known by the
name of the location alone, so that its samples compete where the other is read. On a ladder of four
states one pass of the fixpoint can undo what an earlier one kept, and its events break or save a
state in every way; the rule sets of `enforcement` have open and closed ends, integer
and real fields, invariants, rules that match nothing and rules of other devices, and a cap. In
`registry` two runs are a sync and whatever overlaps it, and one device is all a row depends on
(rows are judged one by one); two identities let a delta sync see a difference or none. In
`conversation` two invocations and three deliveries are a lost update, a redelivery, and a run after
either; two rounds are the limit reached and not. In `catalog` three requests are a delete, what
crosses it, and a use after both. In `key_set` eight ticks hold a lifetime, an outage and a refetch.
What the bounds leave open, the proofs close for the modules that have them.

`CHECK_DEADLOCK FALSE`: in `StepUp` and `KeySet` a behaviour may end when the clock reaches `MaxTime` or `Lifespan`.
`RuleSet` and the policy modules set it because a writer at `MaxVersion` and a full table have only
the remaining actions; `Rooms`, `Conversation` and `Catalog` because no more calls come after
`MaxCalls`, `MaxDeliveries`, `MaxRequests`; `Enforcement` because a synthesis that has ended, or was refused, is the end.

Symmetry is used in safety runs only. Type invariants are proved; that of `Catalog` is also checked by
its run, and the others hold in the same instances (add `TypeOK` to the `.cfg`).

Fairness is assumed in two runs. `presence_house`: each poller completes a poll again and again
(`[]<><<Write(l)>>`). The scheduler of `template.yaml` starts a poll every few minutes whatever
became of the one before; a poll may fail or die, and any number of them in a row, but not all from
some time on. One poller is part of the claim: polls that overlap for ever could undo each other
for ever, but a poll is killed after 30 seconds and the schedule leaves minutes between them.
`registry`: a run that has started goes on (weak fairness of `Goes(r)`; failures are not in it), and
full syncs of a provider the template schedules, Kasa (`template.yaml` 856-870), start again and again
whenever a run is free now and then (strong fairness of `Starts`). The claim there is that the
table comes to agree with the cloud once failures, deletes and changes have ended; delta syncs
and full syncs may overlap for ever. The other deadlines are stated as safety (by the time a
rule is as old as the TTL, no step passes it).

## 4. Proofs

The eight proof modules are complete: no step is left out, and the assumptions are the named
`ASSUME`s of the modules proved about. TLC evaluates each of them in the run of its module.

*StepUp.* The inductive invariant `IInv` says, for each request, that what it has done fits its
place (`Progress`), that every step behind it was run or opens something (`StepsAccounted`), that
a claim that has started is by a token that was fresh when the request arrived (`FreshClaim`), and,
for each jti, that the ledger holds its item until no request can be claiming it (`Remembered`).
None of the properties is inductive alone: that one token is spent once rests on the time
constants (`TimesAssumption`: window + Lambda timeout within the grace), and this is where they
enter. `Implements` maps states to `SpendOnce` and shows each step to be a step of it or a stutter.

*PolicyGate* (which takes `PolicyStore` in, so its proofs cover both). `StoreInv` says that what a
call in progress has found out is still so (`WriterInv`): versions are never removed, so a put
behind a version that was found leaves no hole (`NoHole`), however many writers overlap, fail or
die. `GateInv` ties a cache to the table. What was loaded and has been in force since is in the
cache (`known`), which is all `LoadedBlocks` needs. `Settled` is the clock argument behind "takes
effect within 60 seconds": while `left + calm > RetryTTL` the last load succeeded, and every rule
whose `age` exceeds `TTL - left` has not changed since, so the cache and the table agree on it.
A step is judged either from such a cache, or by a fresh load, or after a failed load (`JudgedBy`);
in the first two cases a block as old as the TTL is among the rules, and `BlockDecides` /
`BlockIsNamed` say what `compute_verdict` makes of it, for every set of rules. Three theorems
say what calls leave of a rule, for any number of writers. A version loses its next one only to
the author that gives up its put (`NextVersions`): the steps of `NextFollows` that matter are the
put, which brings the next version, and the superseding, after which the author stands before its
put with that version in hand. `NewestOnly` and `DeletedStaysOff` are about rules whose calls have
neither overlapped nor failed, which the properties say themselves: of such a rule the call in
progress knows the newest version and has taken the one in force out before it puts the next
(`SoleInv`, rule by rule, since calls on other rules may do as they like). The assumptions
are `StoreAssumption` and `GateAssumption`: a retry time within the TTL, keys that are numbers,
commands that are sequences. Nothing bounds the number of writers, containers, versions or rules.

*Presence.* `CountInv` relates the item to the histories, and each draft to what they will be
once it is put: `HomeInv` (misses and occupancy agree with `streak`, what is pending was read
last), `HeldAt` (a draft of a stale mark or a change by hand is the item itself, but for
`is_home`), `FitsAt` (a poll's draft fits the histories after it). All of it holds of a run only
while the item is the one it read (`behind`), and a put leaves every other run behind (`PutQuiet`),
which is why no interleaving has to be looked at twice. The lemmas about `Debounced`, `Smooth`,
`Placed` and `Scheduled` say what a poll makes of one person and carry the arithmetic; none of the
five properties is inductive alone. `KeyInv` (a key in the item or in any draft stands for a row
of this hour) is separate, since it holds after lost puts, too. The assumption is
`PresenceAssumption`: a threshold of at least one, room names that are not the two markers. People,
rooms, pollers and callers are arbitrary sets. The two liveness properties are model-checked only.

*Rooms.* `RunsKnown` adds to the types what a job's samples have in common: all are of its device.
`RulesKnown` says of each call that is about to put a rule that, unless it is `stale`, no rule of the
table overlaps its own; a put makes every other such call stale, and that is the whole argument for
`WindowsDisjoint`, for any windows, zones and number of calls. `AnswersKnown` follows an answer
from the caller to the row, from the row to the training call, and from there to the model: rows
the poll wrote, and rows without a room, never count. `PrintsWhole` needs `RunsKnown` only. Minutes,
people, rooms, calls and jobs are arbitrary. `NearestHolds` is about `classify` itself: the least of a
set of numbers is there when the set is not empty, distances are numbers, because buckets are, and a
print is within a distance when it has a sample there that is (`WithinIs`, on which the property is stated);
that there are finitely many prints (`KeptFinite`) is an invariant, since a step puts or deletes one.

*KeySet*, in `StepUpProofs`, since its keys are what the tokens of `StepUp` are verified with. `KeyIInv` has four parts: the times of set, attempt and request are in order (`TimesInv`), a key
of the set was listed when the set was fetched or later (`ListedInv`), the set is the one fetched
last or empty because that one was too old (`ServedInv`), and fetches times the interval stay behind
the last attempt (`FetchesInv`). The assumption `MinRefresh <= Ttl`, which the defaults keep, is needed: with a
longer interval an expired set would be served though no fetch has failed, and `WithdrawnKeysGo` be false.

*RuleSet*, with `Regions` and `PolicyVerdict`. What an author is told of a rule set is borne out by the
evaluator on every context, for any rules, fields, domains, labels and invariants. The code narrows
and cuts lists of boxes; the model does it with folds, and a fold is a recursive function over sets.
That there is such a function, and what it returns, is proved by induction over finite sets:
`SubsetInduction` says it of a set of subsets, since the library's induction theorems take a
predicate. From there the argument goes up one level at a time: what is left of a dimension when
another is taken away holds each value once (`DimMinusIs`); so does a box (`BoxMinusIs`, where the
first field a context is outside of names the piece it is in); so does a region
(`RegionMinusIs`, `RuleRegionIs`). Thus boxes and contexts agree (`BoxesExact`). For the findings
it takes witnesses, too: every box that arises is fine (`IsFineBox`: not empty, within the domains,
the ends of real fields even), so that its sample is a context in it (`WitnessIs`) and the finding shows one
(`FindingsAreExact`: each of the six kinds, none wrong and none missed; what "redundant" means is that
others cover the rule, not that it "adds nothing", which of modifiers is false: section 5). `CreatedKeeps` uses of the
listing only that what is listed is in the table; that the listing has a limit does not matter to
it. `VerdictIsStable` compares the winner by its key, of which there is one least. The inductive
invariant is `TypeOK` and that each stored rule can fire (`EachCanFire`): without it an order
between truth values, which the evaluator would weigh, might be stored.
The assumptions are `RegionsAssumption` (kinds of fields are apart, bounds are whole numbers inside the
infinities) and `RuleSetAssumption`. What the code justifies in it: `Labels` holds `unknown`, and
`other`, which stands for all labels no rule names; a rule that the validator lets through has
typed conditions, and an even threshold on a real field, as half units are there to lie between
thresholds; invariants are set by the deployment, from the same vocabulary; two rules with one key
have one id and the same parameters, because `rule_winner_key` is made of them; a
sensor may give any value of its field whatever the others give, so the contexts are closed under
changing one field.

*Supervisor*, as `Enforcement` runs it. Three parts make `IInv` inductive. `LargestInv`: whatever can
be kept is still in `Q` (`PassSparesTheKept`: a pass takes nothing from a set that can be kept), so that the
fixpoint, which loses nothing more (`KeptIffNothingLost`), is the largest one (`LargestKept`). `RankInv`: each
removed state has a rank and a reason, something that cannot be refused and leads to a state of a
lower rank; going down the ranks ends in a forbidden state, and this is why the trace that is
reported ends in one (`FindingRight`), whichever reason is picked at each state. `LoopInv`: the
closed loop is in `good`, and what it may do next stays there (`LoopLegal`). The class needs that the
search, which takes as many steps as there are states, has seen all that can be reached
(`WithinSaturates`). Plants are arbitrary finite deterministic automata (`PlantAssumption`); that those
`Enforcement` builds are among them is `QuestionAssumption`, which TLC evaluates on its questions.

*Plant*, and the world in *Enforcement*. That the finding is true of the world (`FindingHoldsInWorld`) is
shown in four steps. The tiles between the cuts lie side by side from one end of the domain to
the other (`InOrderIs`, `TilesAre`), so each value of a field is inside one of them, and joining neighbours keeps it so
(`MergedIs`). No condition changes its mind within a tile, as its threshold is a cut; tiles are only
joined when every item treats their samples alike, and the sample of a cell is inside it: so an item
holds at all values of a cell or at none (`SampleAgrees`). One cell of each axis is then the cell of a context
(`OneCellContext`), forbidden if and only if the context is (`PointForbidden`), and the estimate that the cap
is compared with counts the states (`CountIs`). This is `CellsExact`. For the guard, what the
evaluator refuses is forbidden in the plant, since conditions that match somewhere have a region
(`RegionOfMatch`, `RefusedIsForbidden`); a field drifts from any of its
cells to any other (`DriftsAnywhere`), and nothing of that can be refused. So if all legal states can be kept by
refusing, a change of one field cannot make a forbidden context of one that is not (`DriftIsLegal`), a switch by hand
cannot either (`ManualIsLegal`), and a command is given only where the evaluator lets it. The invariant is
`WorldInv`. The steps of the world need not be small for this: that a value moves by degrees is a premise the proof does not
use. The folds are recursive functions here, too (`MergedJoins`, `RegionNarrows`, `CountCounts`).
Assumed are ranges of more than one value (`AxisAssumption`), of a question finitely many rules, invariants
and breakpoints, typed as the validator types them, with device types in the canonical form in
which they are stored (`QuestionAssumption`), and of the world that every field can be read
and is within its range (`WorldAssumption`: the plant has no cell for a temperature beyond `NUMERIC_DOMAINS`).

*Catalog*. `IInv` says what each request carries at its step (`RequestsOK`), that what was deleted
and not brought back is in no table (`IsGone`), and that a container's cache has nothing of what the
container itself deleted (`Unseen`). It exempts the deleted scenes of a container whose read of them failed (`Unreadable`): there the code
forgets the deletion, see `MCCatalogScenes` below. `OwnDeletesSeen` is not inductive without the tables: a cold
cache is filled from them. Devices, phrases, scenes and containers are arbitrary sets, and
`MaxRequests` any number; `CatalogAssumption` has it that the three sorts of things are apart.

*Registry*, in the same module, since its runs are what the catalog's `Syncs` stands for. `Agrees` is what a full sync
knows while it writes: what it found and has written stands in the table as it was found, and of
what it did not find, exactly what is still to be marked is active. It is claimed of the runs in `clean`
alone: a write by anybody else ends it, and a write by the run itself is of one row, which is
either found or missing (`UpsertsHolds`, `MarksOfflineHolds`). With nothing left this is `FullSyncReconciles`. Devices, identities and runs are arbitrary
(`RegistryAssumption`).

*Conversation.* `IInv` is `TypeOK` with two more parts. A stored session (`SessionOK`) begins with a message
(`Opens`), has only texts in Gemini's shape (`Plain`: a save makes strings of its tool turns) and, if the run that
wrote it answered, is `Complete`: it ends with an answer, and is either what Bedrock accepts or
the bare texts Gemini keeps. A run (`RunOK`) holds a history of its provider's shape that goes on from all that was
said in the session it loaded (`Carries`), and ends with a turn of the user while it asks. Neither
property is inductive alone: `AnswerableUnlessCut` needs for Bedrock that a run that answers leaves no
call open and, for Gemini, that no turn of its shape is without text once it is saved, and
`KeepsTheConversation` that what a save makes strings of said nothing. The rest is about
`NormalizeHistory`. It is three folds, that is recursive functions over sets of places; that there are
such functions and what one turn more adds to each (`KeepGrows`, `JoinGrows`, `SpeakGrows`) is proved by induction over the
places. From that: the merged history alternates, says what the old one said, and begins as it did
(`NormalizedIs`), so that Gemini can be asked after every run (`PlainIsAnswerable`), and Bedrock after one that answered
(`CompleteIsAnswerable`). Messages, invocations, round limits and
`AGENT_PROVIDER` are arbitrary.

TLAPS does not reach liveness and ENABLED. The three liveness properties (`GoneIsNoticed`, `BackIsNoticed`,
`Reconciled`) are therefore model-checked only; a deadline that can be said as safety is proved. Every
safety invariant and action property of a passing run is the subject of a theorem.

## 5. Findings

Each of the following is a sentence of the repository that a run finds the code to contradict.
`conversation_limit` is run with the others; the rest have a configuration of their own here, and
TLC shows the counterexample (`tlc -config MCStepUpRest.cfg MCStepUp`). Two properties share the
configuration of another: to see them fail, put them there in its place.

* `MCConversationLimit` (`StrictAlternation`). `agent_factory.py:114`: turns are merged "so Bedrock's
  strict role alternation still holds". A run that uses up its tool rounds saves a history that
  ends with a user turn; the next message makes two, and Bedrock refuses it and all that follow.
* `MCConversationLimit` with `NoBrokenHistory` for `StrictAlternation`. `sms_handler.py:133`: "don't
  persist a broken history". Only exceptions keep a history from being saved. An `end_turn` with no text
  is answered "(no response)" (`bedrock_agent.py:552`) and its empty message is saved, though line 596
  of the same file knows that an empty message "would fail Converse validation": every later message on
  Bedrock is refused.
* `MCStepUpRest` (`RestUnlocksLikeMcp`). `app.py:119-120`: "so POST /execute unlocks exactly when MCP
  would". The template gives the ledger to the MCP function alone (`template.yaml:1238`), so REST
  refuses every unlock.
* `MCRuleSetRedundant` (`RedundantAddsNothing`). `rule_set_checker.py:45`: "a rule adds nothing:
  others with the same effect already cover it". Modifiers are compared by parameters and not by
  precedence: without the rule, another one of the three wins.
* `MCRuleSetRefused` (`RefusedForCause`). `handler.py:33-36` refuses a rule when "a stated invariant would
  have a counterexample". The invariants of every device are judged beside the rules of one: with
  an invariant about the fan that a fan rule keeps, any heater rule is refused.
* `MCPolicyStoreAudit` (`AuditTrailKept`). `policy_store.py:70-73`: "creating an immutable audit trail".
  Of two overlapping saves the second replaces the version of the first, which was answered 201.
* `MCPolicyStoreDelete` (`RefusedDeleteIsOff`). `policy_store.py:119-121`: "False if not found". After a
  status change that failed, two versions are in force; the second delete is refused, and the
  older version cannot be switched off.
* `MCPresenceRows` (`OneRowAnHour`). `docs/eero-presence.md:198`: "A second poll in the same hour does not
  write another row". A poll that misses the phone once drops the key, and the next stores a row.
* `MCEnforcementRoom` (`GuardClassAlwaysHolds`). `docs/controllability.md:32-33`: a state is forbidden "when
  the device is on and some block or invariant matches". A rule about a room makes no axis, forbids nothing and is
  reported `GUARD_ENFORCEABLE`.
* `MCRegistryDelta` (`DeltaNeverOffline`). `pipeline.py:234`: "Delta never marks devices offline". It puts
  a record that differs with the status the cloud reports, which may be offline.
* `MCCatalogScenes` (`DeletedScenesStay`). `scene_catalog.py`: "SCENE_CATALOG minus any scenes deleted via
  delete_scene()". A read of the deleted scenes that fails is cached as an empty set.
* `MCRoomsZones` (`OneRuleAtATime`). `set_rule` refuses a window that "overlaps another rule for this
  person". Zones are not compared: two windows that are apart on the clock hold at the same moment.

* `MCRoomsZones` with `ScheduledHoursTrain` for `OneRuleAtATime`. `docs/eero-presence.md:198`: the poll writes one labelled
  check-in per hour "so those hours are training data", and `room_schedule.py:6-7`: "so the overnight hours
  are training data". `room_classifier.py:32-40` leaves out the source `schedule_rule` as "not training
  labels", and `test_train_rows_exclude_schedule_and_hourly_sources` asks for that. `TrainedOnAnswers` takes
  the side of the classifier and its test, which is what the code does: no scheduled hour trains anything.

Met while reading, without a run: `leave_one_out_eval` raises on exactly `MIN_TRAIN_ROWS` rows, so nine are needed
where the constant says eight. `label` puts a check-in back that was deleted after it was read.
`delete_fingerprints` leaves trained models, so that a deleted room can be named again, and a
sample run under way, or delivered again, brings back the fingerprint itself.
`eero_calibration_handler.py:24`, `docs/eero-presence.md:175` and the policy in `template.yaml` say
that the poller "cannot read or write check-ins", and `store_observed` writes them (line 198 of the same document says so).
`modelweave_roles` says that a model that failed "is not returned again for the cache period", and the
fallback it returns is not checked. `graph_engine.py:137` builds its driver without a lock.

## 6. Not modelled

* Provider adapters and LLM providers: HTTP and parsing; an adapter is a step that runs or fails.
* Scores of any kind (cosine, fuzzy, likelihoods), prompts, weather, cost accounting, wording, logs.
* JSON-RPC eras and framing, DPoP and signatures: `Tokens` are the ones the issuer minted.
* `modelweave_roles`, `graph_engine`, `observatory_wrapper`: no command depends on what they hold.
* Tests, benchmarks, docker and `scripts/`, but for the training of room models.
* In modelled parts: pagination, audit fields, limits of listings, routes that only read, JSON views
  of the synthesis and `benchmark_enforceability`, plants of several devices (no caller builds one).
* Eventual consistency: reads are taken to be consistent wherever the code does not ask for it, and a
  get before a delete is one step with it where the get only decides on the reply.

## 7. Left to do

* `modelweave_roles`, the last client with a cache; two containers of `PolicyGate` in one run.
