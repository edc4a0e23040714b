------------------------------- MODULE Catalog ------------------------------
(***************************************************************************)
(* What a command is resolved with, and what it teaches: the catalog of    *)
(* devices, the learned phrases and the scenes, which every Lambda         *)
(* container caches on its own (device_resolver, scene_catalog), and the   *)
(* requests of app and of the agents' tools that read them, run devices    *)
(* and write phrases (learning_store, learning_phrase), next to an         *)
(* ingestion run that generates phrases (phrase_generator).                *)
(*                                                                         *)
(* How well a command matches is a choice, also the model's; the policy    *)
(* gate and the devices (PolicyGate, StepUp) decide which steps succeed.   *)
(* Use counts and confidences are left out, rows of several providers for  *)
(* one device are one row (Registry has them).                             *)
(***************************************************************************)
EXTENDS Naturals, FiniteSets

CONSTANTS
    Devices,
    Phrases,    \* commands, which are phrases too
    Names,      \* the devices a phrase names; a status-report wrapper names none
    NamePhrase, \* the phrase made of a device's name
    Actions,    \* the scenes, each with the devices it acts on
    Containers,
    NoRow, NotRead, Unreadable,
    MaxRequests \* bound: how many requests and syncs there are

Scenes == DOMAIN Actions
Learnings == Devices \X Phrases

ASSUME CatalogAssumption ==
    /\ Names \in [Phrases -> SUBSET Devices]
    /\ NamePhrase \in [Devices -> Phrases]
    /\ \A d \in Devices : d \in Names[NamePhrase[d]]
    /\ Actions \in [Scenes -> SUBSET Devices]
    /\ MaxRequests \in Nat
    /\ Devices \cap Scenes = {} /\ (Devices \cup Scenes) \cap Learnings = {}
    /\ NoRow \notin {"active", "inactive", "offline", "manual", "learned", "generated", "only counted"}

VARIABLES
    registry, \* the status of each device's row
    phrases,  \* the learning table: the source of each row
    deleted,  \* the scenes with a deletion row
    cache,    \* what each container keeps of the three
    request,  \* what each container is at
    enrich,   \* the ingestion's phrase generation
    requests, \* how many there were
    gone      \* history: what each container deleted and nobody brought back

vars == <<registry, phrases, deleted, cache, request, enrich, requests, gone>>

Cold == [catalog |-> NotRead, learned |-> NotRead, scenes |-> NotRead]
Idle == [pc |-> "idle"]

Is(c, pc) == request[c].pc = pc

Ends(c) == request' = [request EXCEPT ![c] = Idle]

Restores(things) == gone' = [c \in Containers |-> gone[c] \ things]

-----------------------------------------------------------------------------
(* The caches *)

CatalogReaders ==
    {"learning", "creating", "scene", "resolving", "agent", "agent scene", "listing devices"}

\* _get_active_catalog: a scan that fails is an error of the request and is not kept.
LoadsCatalog(c) ==
    /\ request[c].pc \in CatalogReaders
    /\ cache[c].catalog = NotRead
    /\ \/ /\ cache' = [cache EXCEPT ![c].catalog = { d \in Devices : registry[d] = "active" }]
          /\ UNCHANGED request
       \/ Ends(c) /\ UNCHANGED cache
    /\ UNCHANGED <<registry, phrases, deleted, enrich, requests, gone>>

\* load_all_learned_phrases: one that fails is an empty table, and kept.
LoadsLearned(c) ==
    /\ Is(c, "resolving")
    /\ cache[c].learned = NotRead
    /\ \E found \in {{ k \in Learnings : phrases[k] # NoRow }, {}} :
           cache' = [cache EXCEPT ![c].learned = found]
    /\ UNCHANGED <<registry, phrases, deleted, request, enrich, requests, gone>>

\* _load_deleted_ids: one that fails is no scene deleted, and kept.
LoadsScenes(c) ==
    /\ request[c].pc \in {"matching", "agent scene", "listing scenes"}
    /\ cache[c].scenes = NotRead
    /\ cache' \in { [cache EXCEPT ![c].scenes = deleted], [cache EXCEPT ![c].scenes = Unreadable] }
    /\ UNCHANGED <<registry, phrases, deleted, request, enrich, requests, gone>>

\* get_active_scenes
ActiveScenes(c) == IF cache[c].scenes = Unreadable THEN Scenes ELSE Scenes \ cache[c].scenes

Cataloged(c) == cache[c].catalog # NotRead

-----------------------------------------------------------------------------
(* Requests that change what is stored *)

Asks(c, r) ==
    /\ Is(c, "idle") /\ requests < MaxRequests
    /\ requests' = requests + 1
    /\ request' = [request EXCEPT ![c] = r]

Asked(c) == Asks(c, Idle)

\* save_manual_phrase: it overwrites.
SaveManualPhrase(k) == phrases' = [phrases EXCEPT ![k] = "manual"]

\* POST /learn: a device in the catalog gets the phrase, whatever row there was.
Learn(c) ==
    /\ Is(c, "learning") /\ Cataloged(c)
    /\ Ends(c)
    /\ LET k == <<request[c].device, request[c].phrase>>
       IN \/ /\ k[1] \in cache[c].catalog
             /\ SaveManualPhrase(k)
             /\ cache' = [cache EXCEPT ![c].learned = NotRead]
             /\ Restores({k})
          \/ UNCHANGED <<phrases, cache, gone>>
    /\ UNCHANGED <<registry, deleted, enrich, requests>>

\* DELETE /learnings
DeleteLearning(c, k) ==
    /\ Asked(c)
    /\ \/ /\ phrases' = [phrases EXCEPT ![k] = NoRow]
          /\ cache' = [cache EXCEPT ![c].learned = NotRead]
          /\ gone' = [gone EXCEPT ![c] = @ \cup {k}]
       \/ UNCHANGED <<phrases, cache, gone>>
    /\ UNCHANGED <<registry, deleted, enrich>>

\* create_device, for a device the catalog does not have
CreateDevice(c) ==
    /\ Is(c, "creating") /\ Cataloged(c)
    /\ Ends(c)
    /\ \/ /\ request[c].device \notin cache[c].catalog
          /\ registry' = [registry EXCEPT ![request[c].device] = "active"]
          /\ cache' = [cache EXCEPT ![c].catalog = NotRead]
          /\ Restores({request[c].device})
       \/ UNCHANGED <<registry, cache, gone>>
    /\ UNCHANGED <<phrases, deleted, enrich, requests>>

\* PUT /devices/{device_id}: the name and the like, which the catalog has a copy of; it is
\* kept when an update fails.
UpdateDevice(c, d) ==
    /\ registry[d] # NoRow
    /\ Asked(c)
    /\ cache' \in {cache, [cache EXCEPT ![c].catalog = NotRead]}
    /\ UNCHANGED <<registry, phrases, deleted, enrich, gone>>

DeleteDevice_KeepsCatalog(c, d) ==
    /\ registry[d] # NoRow
    /\ Asked(c)
    /\ registry' = [registry EXCEPT ![d] = "inactive"]
    /\ gone' = [gone EXCEPT ![c] = @ \cup {d}]
    /\ UNCHANGED <<cache, phrases, deleted, enrich>>

\* DELETE /devices/{device_id}.  The device's rows are updated one after the other: a
\* failure is an error, may leave none of them active, and keeps the cache.
DeleteDevice(c, d) ==
    /\ registry[d] # NoRow
    /\ Asked(c)
    /\ \/ /\ registry' = [registry EXCEPT ![d] = "inactive"]
          /\ cache' = [cache EXCEPT ![c].catalog = NotRead]
          /\ gone' = [gone EXCEPT ![c] = @ \cup {d}]
       \/ /\ registry' \in {registry, [registry EXCEPT ![d] = "inactive"]}
          /\ UNCHANGED <<cache, gone>>
    /\ UNCHANGED <<phrases, deleted, enrich>>

\* delete_scene: a deletion that cannot be stored is an error.
DeleteScene(c, s) ==
    /\ Asked(c)
    /\ \/ /\ deleted' = deleted \cup {s}
          /\ cache' = [cache EXCEPT ![c].scenes = NotRead]
          /\ gone' = [gone EXCEPT ![c] = @ \cup {s}]
       \/ UNCHANGED <<deleted, cache, gone>>
    /\ UNCHANGED <<registry, phrases, enrich>>

-----------------------------------------------------------------------------
(* Commands *)

\* auto_learn_phrase: the command itself only from the first tier, and only if it
\* names the device.
AutoLearnPhrase(d, command, tier) ==
    IF tier = "cosine" /\ d \in Names[command] THEN command ELSE NamePhrase[d]

\* execute_steps: every step on its own; the ones that failed are left out.
ExecuteSteps(steps) == SUBSET steps

\* compute_score, against the learning threshold.
ComputeScore == BOOLEAN

\* What the steps that ran teach is to be saved, or nothing if it was not sure enough.
Executed(c, ran, phrase, invalidates) ==
    \E sure \in ComputeScore :
        request' = [request EXCEPT ![c] =
            [pc |-> "saving", invalidates |-> invalidates /\ sure,
             todo |-> IF sure THEN { <<d, phrase[d]>> : d \in ran } ELSE {}]]

StepsOnly == UNCHANGED <<registry, phrases, deleted, cache, enrich, requests, gone>>

\* _route_execute: a scene if one matches well enough, else a device.
MatchScene(c) ==
    /\ Is(c, "matching") /\ cache[c].scenes # NotRead
    /\ \/ \E s \in ActiveScenes(c) :
              request' = [request EXCEPT ![c] = [pc |-> "scene", scene |-> s, phrase |-> request[c].phrase]]
       \/ request' = [request EXCEPT ![c].pc = "resolving"]
    /\ StepsOnly

\* plan_scene_execution: the devices the catalog does not have are skipped.
ScenePlan(c) == Actions[request[c].scene] \cap cache[c].catalog

\* _handle_scene: some of the steps are blocked or fail.
HandleScene(c) ==
    /\ Is(c, "scene") /\ Cataloged(c)
    /\ IF ScenePlan(c) = {} THEN Ends(c)
       ELSE \E ran \in ExecuteSteps(ScenePlan(c)) :
                Executed(c, ran, [d \in ran |-> AutoLearnPhrase(d, request[c].phrase, "cosine")], FALSE)
    /\ StepsOnly

\* resolve_device: the nearest device of the catalog, if there is one.
ResolveDevice(c) == { {d} : d \in cache[c].catalog }

\* llm_resolve: the devices that the model names, also ones it was not told of.
LlmResolve == SUBSET Devices

LlmSteps_Unchecked(c, named) == named

\* Of those, the ones that are not in the catalog are dropped by the caller.
LlmSteps(c, named) == named \cap cache[c].catalog

\* _execute_device
ExecuteDevice(c, d, tier) ==
    \/ Ends(c)
    \/ Executed(c, {d}, [x \in {d} |-> AutoLearnPhrase(x, request[c].phrase, tier)], tier = "llm")

\* _execute_llm_devices
ExecuteLlmDevices(c, found) ==
    \E ran \in ExecuteSteps(found) :
        Executed(c, ran, [d \in ran |-> AutoLearnPhrase(d, request[c].phrase, "llm")], FALSE)

\* _handle_device_command: the first tier, the second, or neither is sure.
HandleDeviceCommand(c) ==
    /\ Is(c, "resolving") /\ Cataloged(c) /\ cache[c].learned # NotRead
    /\ \/ \E found \in ResolveDevice(c) : \E d \in found : ExecuteDevice(c, d, "cosine")
       \/ \E named \in LlmResolve :
              LET steps == LlmSteps(c, named)
              IN  \/ \E d \in steps : steps = {d} /\ ExecuteDevice(c, d, "llm")
                  \/ Cardinality(steps) > 1 /\ ExecuteLlmDevices(c, steps)
       \/ Ends(c)
    /\ StepsOnly

\* execute_device_command of an agent, which names the phrase itself
AgentDevice(c) ==
    /\ Is(c, "agent") /\ Cataloged(c)
    /\ \/ \E d \in cache[c].catalog : Executed(c, {d}, [x \in {d} |-> request[c].phrase], FALSE)
       \/ Ends(c)
    /\ StepsOnly

\* execute_scene of an agent
AgentScene(c) ==
    /\ Is(c, "agent scene") /\ Cataloged(c) /\ cache[c].scenes # NotRead
    /\ \/ \E s \in ActiveScenes(c) : \E ran \in ExecuteSteps(Actions[s] \cap cache[c].catalog) :
              Executed(c, ran, [d \in ran |-> request[c].phrase], FALSE)
       \/ Ends(c)
    /\ StepsOnly

\* list_devices and list_scenes, which only fill the caches
ListDevices(c) == Is(c, "listing devices") /\ Cataloged(c) /\ Ends(c) /\ StepsOnly
ListScenes(c) == Is(c, "listing scenes") /\ cache[c].scenes # NotRead /\ Ends(c) /\ StepsOnly

-----------------------------------------------------------------------------
(* save_learned_phrase *)

\* attribute_not_exists(phrase)
Absent_NotAsked(k) == TRUE
Absent(k) == phrases[k] = NoRow

\* The first write wins; a row that exists is only counted, in a second call.
Save(c) ==
    /\ Is(c, "saving")
    /\ \E k \in request[c].todo :
           \/ /\ Absent(k)
              /\ phrases' = [phrases EXCEPT ![k] = "learned"]
              /\ request' = [request EXCEPT ![c].todo = @ \ {k}]
              /\ Restores({k})
           \/ /\ ~Absent(k)
              /\ request' = [request EXCEPT ![c] = [pc |-> "counting", next |-> [request[c] EXCEPT !.todo = @ \ {k}], key |-> k]]
              /\ UNCHANGED <<phrases, gone>>
           \/ /\ request' = [request EXCEPT ![c].todo = @ \ {k}]
              /\ UNCHANGED <<phrases, gone>>
    /\ UNCHANGED <<registry, deleted, cache, enrich, requests>>

\* _increment_use_count: ADD makes a row where there is none, with a count and no source.
Count(c) ==
    /\ Is(c, "counting")
    /\ LET k == request[c].key
       IN \/ /\ phrases' = [phrases EXCEPT ![k] = IF @ = NoRow THEN "only counted" ELSE @]
             /\ Restores({k})
          \/ UNCHANGED <<phrases, gone>>
    /\ request' = [request EXCEPT ![c] = @.next]
    /\ UNCHANGED <<registry, deleted, cache, enrich, requests>>

\* The answer; one device of the second tier makes the container read its phrases again.
Answer(c) ==
    /\ Is(c, "saving") /\ request[c].todo = {}
    /\ Ends(c)
    /\ cache' = IF request[c].invalidates THEN [cache EXCEPT ![c].learned = NotRead] ELSE cache
    /\ UNCHANGED <<registry, phrases, deleted, enrich, requests, gone>>

-----------------------------------------------------------------------------
(* Ingestion *)

\* A sync writes a device's status.
Syncs(d) ==
    /\ requests < MaxRequests /\ requests' = requests + 1
    /\ registry' \in { [registry EXCEPT ![d] = status] : status \in {"active", "offline"} }
    /\ IF registry'[d] = "active" THEN Restores({d}) ELSE UNCHANGED gone
    /\ UNCHANGED <<phrases, deleted, cache, request, enrich>>

\* generate_phrases: what the model makes of the name; nothing if it fails.
GeneratePhrases == SUBSET Phrases

\* enrich_device: phrases are generated for a device that has none, or whose phrases
\* cannot be read.
Enrich(d) ==
    /\ enrich = {} /\ registry[d] # NoRow /\ requests < MaxRequests
    /\ requests' = requests + 1
    /\ \E generated \in GeneratePhrases : enrich' = { <<d, p>> : p \in generated }
    /\ UNCHANGED <<registry, phrases, deleted, cache, request, gone>>

\* save_generated_phrases: one conditional put each; without access it stops.
Generate ==
    /\ \E k \in enrich :
           \/ /\ Absent(k)
              /\ phrases' = [phrases EXCEPT ![k] = "generated"]
              /\ Restores({k})
              /\ enrich' = enrich \ {k}
           \/ enrich' \in {enrich \ {k}, {}} /\ UNCHANGED <<phrases, gone>>
    /\ UNCHANGED <<registry, deleted, cache, request, requests>>

-----------------------------------------------------------------------------
\* A container is replaced, also in the middle of a request.
Dies(c) ==
    /\ cache' = [cache EXCEPT ![c] = Cold]
    /\ Ends(c)
    /\ UNCHANGED <<registry, phrases, deleted, enrich, requests, gone>>

\* _handle, and the agents' tool calls
Asking(c) ==
    \/ \E p \in Phrases : Asks(c, [pc |-> "matching", phrase |-> p])
    \/ \E p \in Phrases, pc \in {"agent", "agent scene"} : Asks(c, [pc |-> pc, phrase |-> p])
    \/ \E d \in Devices, p \in Phrases : Asks(c, [pc |-> "learning", device |-> d, phrase |-> p])
    \/ \E d \in Devices : Asks(c, [pc |-> "creating", device |-> d])
    \/ \E pc \in {"listing devices", "listing scenes"} : Asks(c, [pc |-> pc])

Handle(c) ==
    \/ Asking(c) /\ UNCHANGED <<registry, phrases, deleted, cache, enrich, gone>>
    \/ \E k \in Learnings : DeleteLearning(c, k)
    \/ \E d \in Devices : UpdateDevice(c, d) \/ DeleteDevice(c, d)
    \/ \E s \in Scenes : DeleteScene(c, s)

Init ==
    /\ registry \in [Devices -> {"active", NoRow}]
    /\ phrases = [k \in Learnings |-> NoRow]
    /\ deleted = {}
    /\ cache = [c \in Containers |-> Cold]
    /\ request = [c \in Containers |-> Idle]
    /\ enrich = {}
    /\ requests = 0
    /\ gone = [c \in Containers |-> {}]

Next ==
    \/ \E c \in Containers :
           \/ Handle(c) \/ LoadsCatalog(c) \/ LoadsLearned(c) \/ LoadsScenes(c)
           \/ Learn(c) \/ CreateDevice(c) \/ MatchScene(c) \/ HandleScene(c)
           \/ HandleDeviceCommand(c) \/ AgentDevice(c) \/ AgentScene(c)
           \/ ListDevices(c) \/ ListScenes(c)
           \/ Save(c) \/ Count(c) \/ Answer(c) \/ Dies(c)
    \/ \E d \in Devices : Syncs(d) \/ Enrich(d)
    \/ Generate

Spec == Init /\ [][Next]_vars

-----------------------------------------------------------------------------
\* Statuses, rows and caches have the values the code gives them, and what is still to
\* be saved is about devices of the registry.
TypeOK ==
    /\ registry \in [Devices -> {"active", "inactive", "offline", NoRow}]
    /\ phrases \in [Learnings -> {"manual", "learned", "generated", "only counted", NoRow}]
    /\ deleted \subseteq Scenes
    /\ \A c \in Containers :
           /\ cache[c].catalog = NotRead \/ cache[c].catalog \subseteq Devices
           /\ cache[c].learned = NotRead \/ cache[c].learned \subseteq Learnings
           /\ cache[c].scenes \in {NotRead, Unreadable} \/ cache[c].scenes \subseteq Scenes
           /\ Is(c, "saving") => request[c].todo \subseteq { k \in Learnings : registry[k[1]] # NoRow }
    /\ enrich \subseteq Learnings
    /\ requests \in 0 .. MaxRequests

\* What a container deleted, in a request that succeeded, and nobody brought back is in
\* none of its caches, whatever other containers and ingestion do meanwhile: its next
\* command cannot use it.  That is not claimed of scenes when the container's read of the
\* deleted ones failed: there a deletion is forgotten.
OwnDeletesSeen ==
    \A c \in Containers :
        /\ Cataloged(c) => cache[c].catalog \cap gone[c] = {}
        /\ cache[c].learned # NotRead => cache[c].learned \cap gone[c] = {}
        /\ cache[c].scenes \notin {NotRead, Unreadable} => gone[c] \cap Scenes \subseteq cache[c].scenes

\* A phrase someone taught is never replaced by one that was learned or generated; it
\* only goes by a delete.
ManualPhrasesStand ==
    [][\A k \in Learnings :
           phrases[k] = "manual" =>
               \/ phrases'[k] = "manual"
               \/ phrases'[k] = NoRow /\ \E c \in Containers : k \in gone'[c]]_vars

\* "SCENE_CATALOG minus any scenes deleted via delete_scene()": no container that has
\* read the deleted scenes offers one that it deleted itself.
DeletedScenesStay ==
    \A c \in Containers :
        cache[c].scenes # NotRead => ActiveScenes(c) \cap gone[c] = {}
=============================================================================
