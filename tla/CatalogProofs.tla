--------------------------- MODULE CatalogProofs ---------------------------
(***************************************************************************)
(* Proofs about Catalog, for any devices, phrases, scenes and containers,  *)
(* and any number of requests; and, below, about Registry, whose runs are  *)
(* what the catalog's Syncs stands for.                                    *)
(***************************************************************************)
EXTENDS Catalog, Registry, TLAPS

Saving == [pc : {"saving"}, invalidates : BOOLEAN, todo : SUBSET Learnings]

Requests ==
    [pc : {"idle"}]
    \cup [pc : {"matching", "resolving", "agent", "agent scene"}, phrase : Phrases]
    \cup [pc : {"scene"}, scene : Scenes, phrase : Phrases]
    \cup [pc : {"learning"}, device : Devices, phrase : Phrases]
    \cup [pc : {"creating"}, device : Devices]
    \cup [pc : {"listing devices", "listing scenes"}]
    \cup Saving
    \cup [pc : {"counting"}, next : Saving, key : Learnings]

Caches ==
    [catalog : (SUBSET Devices) \cup {NotRead}, learned : (SUBSET Learnings) \cup {NotRead},
     scenes : (SUBSET Scenes) \cup {NotRead, Unreadable}]

RowsOK ==
    /\ registry \in [Devices -> {"active", "inactive", "offline", NoRow}]
    /\ phrases \in [Learnings -> {"manual", "learned", "generated", "only counted", NoRow}]
    /\ deleted \subseteq Scenes
    /\ enrich \subseteq Learnings
    /\ requests \in 0 .. MaxRequests

\* What is to be saved is about devices that have a row.
TodoKnown(q) ==
    /\ q.pc = "saving" => \A k \in q.todo : registry[k[1]] # NoRow
    /\ q.pc = "counting" => \A k \in q.next.todo : registry[k[1]] # NoRow

RequestsOK == request \in [Containers -> Requests] /\ \A c \in Containers : TodoKnown(request[c])

CatalogKnown(kept) == kept.catalog # NotRead => \A d \in kept.catalog : registry[d] # NoRow

CachesOK == cache \in [Containers -> Caches] /\ \A c \in Containers : CatalogKnown(cache[c])

\* What was deleted and not brought back is gone from the tables.
IsGone(things) ==
    /\ \A d \in Devices : d \in things => registry[d] # "active"
    /\ \A k \in Learnings : k \in things => phrases[k] = NoRow
    /\ things \cap Scenes \subseteq deleted

GoneOK == gone = [c \in Containers |-> gone[c]] /\ \A c \in Containers : IsGone(gone[c])

Unseen(kept, things) ==
    /\ kept.catalog # NotRead => kept.catalog \cap things = {}
    /\ kept.learned # NotRead => kept.learned \cap things = {}
    /\ kept.scenes \notin {NotRead, Unreadable} => things \cap Scenes \subseteq kept.scenes

SeenOK == \A c \in Containers : Unseen(cache[c], gone[c])

IInv == RowsOK /\ RequestsOK /\ CachesOK /\ GoneOK /\ SeenOK

LEMMA MaxNat == MaxRequests \in Nat
BY CatalogAssumption

LEMMA InitHolds == Init => IInv
<1> SUFFICES ASSUME Init PROVE IInv
  OBVIOUS
<1>1. RowsOK
  <2>1. registry \in [Devices -> {"active", "inactive", "offline", NoRow}]  BY DEF Init
  <2>2. phrases \in [Learnings -> {"manual", "learned", "generated", "only counted", NoRow}]  BY DEF Init
  <2>3. requests \in 0 .. MaxRequests  BY MaxNat DEF Init
  <2> QED  BY <2>1, <2>2, <2>3 DEF RowsOK, Init
<1>2. RequestsOK  BY DEF Init, RequestsOK, Requests, Idle, TodoKnown
<1>3. CachesOK  BY DEF Init, CachesOK, Caches, Cold, CatalogKnown
<1>4. GoneOK  BY DEF Init, GoneOK, IsGone
<1>5. SeenOK  BY DEF Init, SeenOK, Unseen, Cold
<1> QED  BY <1>1, <1>2, <1>3, <1>4, <1>5 DEF IInv

-----------------------------------------------------------------------------
(* Steps that change what a request is at *)

LEMMA RequestStep ==
    ASSUME IInv, NEW c \in Containers, NEW q \in Requests, TodoKnown(q),
           request' = [request EXCEPT ![c] = q], requests' \in 0 .. MaxRequests,
           UNCHANGED <<registry, phrases, deleted, cache, enrich, gone>>
    PROVE  IInv'
<1>1. RowsOK'  BY DEF IInv, RowsOK
<1>2. RequestsOK'
  <2>1. request' \in [Containers -> Requests]  BY DEF IInv, RequestsOK
  <2>2. ASSUME NEW e \in Containers PROVE TodoKnown(request[e])'
    <3>1. request'[e] = IF e = c THEN q ELSE request[e]  BY DEF IInv, RequestsOK
    <3>2. TodoKnown(request'[e])  BY <3>1 DEF IInv, RequestsOK
    <3> QED  BY <3>2 DEF TodoKnown
  <2> QED  BY <2>1, <2>2 DEF RequestsOK
<1>3. CachesOK'  BY DEF IInv, CachesOK, CatalogKnown
<1>4. GoneOK'  BY DEF IInv, GoneOK, IsGone
<1>5. SeenOK'  BY DEF IInv, SeenOK, Unseen
<1> QED  BY <1>1, <1>2, <1>3, <1>4, <1>5 DEF IInv

LEMMA IdleIs == Idle \in Requests /\ TodoKnown(Idle)
BY DEF Idle, Requests, TodoKnown

LEMMA EndStep ==
    ASSUME IInv, NEW c \in Containers, Ends(c), requests' \in 0 .. MaxRequests,
           UNCHANGED <<registry, phrases, deleted, cache, enrich, gone>>
    PROVE  IInv'
BY IdleIs, RequestStep DEF Ends

\* Only devices of the catalog the container has read are run.
LEMMA ExecutedStep ==
    ASSUME IInv, NEW c \in Containers, NEW ran \in SUBSET Devices,
           \A d \in ran : registry[d] # NoRow,
           NEW phrase, \A d \in ran : phrase[d] \in Phrases, NEW invalidates \in BOOLEAN,
           Executed(c, ran, phrase, invalidates), StepsOnly
    PROVE  IInv'
<1>1. PICK sure \in BOOLEAN :
        request' = [request EXCEPT ![c] =
            [pc |-> "saving", invalidates |-> invalidates /\ sure,
             todo |-> IF sure THEN { <<d, phrase[d]>> : d \in ran } ELSE {}]]
  BY DEF Executed, ComputeScore
<1> DEFINE todo == IF sure THEN { <<d, phrase[d]>> : d \in ran } ELSE {}
           b == invalidates /\ sure
           q == [pc |-> "saving", invalidates |-> b, todo |-> todo]
<1>2. todo \in SUBSET Learnings /\ \A k \in todo : registry[k[1]] # NoRow  BY DEF Learnings
<1>3. b \in BOOLEAN  OBVIOUS
<1>4. request' = [request EXCEPT ![c] = q]  BY <1>1
<1> HIDE DEF todo, b
<1>5. q \in Requests  BY <1>2, <1>3 DEF Requests, Saving
<1>6. TodoKnown(q)  BY <1>2 DEF TodoKnown
<1> HIDE DEF q
<1>7. requests' \in 0 .. MaxRequests  BY DEF StepsOnly, IInv, RowsOK
<1> QED  BY <1>4, <1>5, <1>6, <1>7, RequestStep DEF StepsOnly


-----------------------------------------------------------------------------
(* Steps that change the tables and one container's cache *)

LEMMA Sorts ==
    /\ \A d \in Devices : d \notin Scenes /\ d \notin Learnings
    /\ \A s \in Scenes : s \notin Devices /\ s \notin Learnings
    /\ \A k \in Learnings : k \notin Devices /\ k \notin Scenes
    /\ NoRow # "active" /\ NoRow # "inactive" /\ NoRow # "offline"
    /\ NoRow # "manual" /\ NoRow # "learned" /\ NoRow # "generated" /\ NoRow # "only counted"
<1>1. Devices \cap Scenes = {} /\ (Devices \cup Scenes) \cap Learnings = {}  BY CatalogAssumption
<1>2. NoRow \notin {"active", "inactive", "offline", "manual", "learned", "generated", "only counted"}
  BY CatalogAssumption
<1> QED  BY <1>1, <1>2

\* A row's status changes, but a row never goes.
RowsStay == \A d \in Devices : registry[d] # NoRow => registry'[d] # NoRow

LEMMA UnseenLess ==
    ASSUME NEW kept, NEW more, NEW less, less \subseteq more, Unseen(kept, more)
    PROVE  Unseen(kept, less)
BY DEF Unseen

LEMMA TodoStaysKnown ==
    ASSUME RowsStay, NEW q \in Requests, TodoKnown(q)
    PROVE  TodoKnown(q)'
<1>1. ASSUME q.pc = "saving" PROVE \A k \in q.todo : registry'[k[1]] # NoRow
  <2>1. q.todo \in SUBSET Learnings  BY <1>1 DEF Requests, Saving
  <2> QED  BY <1>1, <2>1 DEF TodoKnown, RowsStay, Learnings
<1>2. ASSUME q.pc = "counting" PROVE \A k \in q.next.todo : registry'[k[1]] # NoRow
  <2>1. q.next.todo \in SUBSET Learnings  BY <1>2 DEF Requests, Saving
  <2> QED  BY <1>2, <2>1 DEF TodoKnown, RowsStay, Learnings
<1> QED  BY <1>1, <1>2 DEF TodoKnown

LEMMA CatalogStaysKnown ==
    ASSUME RowsStay, NEW kept \in Caches, CatalogKnown(kept)
    PROVE  CatalogKnown(kept)'
BY DEF RowsStay, Caches, CatalogKnown

\* One container's request and cache, and the tables, which keep their rows.
LEMMA ContainerStep ==
    ASSUME IInv, RowsOK', GoneOK', RowsStay, NEW c \in Containers,
           NEW q \in Requests, TodoKnown(q), request' = [request EXCEPT ![c] = q],
           NEW kept \in Caches, CatalogKnown(kept), cache' = [cache EXCEPT ![c] = kept],
           Unseen(kept, gone'[c]),
           \A e \in Containers \ {c} : gone'[e] \subseteq gone[e]
    PROVE  IInv'
<1>1. RequestsOK'
  <2>1. request' \in [Containers -> Requests]  BY DEF IInv, RequestsOK
  <2>2. ASSUME NEW e \in Containers PROVE TodoKnown(request[e])'
    <3>1. request'[e] = IF e = c THEN q ELSE request[e]  BY DEF IInv, RequestsOK
    <3>2. request'[e] \in Requests /\ TodoKnown(request'[e])  BY <3>1 DEF IInv, RequestsOK
    <3>3. PICK r \in Requests : r = request'[e] /\ TodoKnown(r)  BY <3>2
    <3>4. TodoKnown(r)'  BY <3>3, TodoStaysKnown
    <3> QED  BY <3>3, <3>4 DEF TodoKnown
  <2> QED  BY <2>1, <2>2 DEF RequestsOK
<1>2. \A e \in Containers : cache'[e] = IF e = c THEN kept ELSE cache[e]  BY DEF IInv, CachesOK
<1>3. CachesOK'
  <2>1. cache' \in [Containers -> Caches]  BY DEF IInv, CachesOK
  <2>2. ASSUME NEW e \in Containers PROVE CatalogKnown(cache[e])'
    <3>1. cache'[e] \in Caches /\ CatalogKnown(cache'[e])  BY <1>2 DEF IInv, CachesOK
    <3>2. PICK r \in Caches : r = cache'[e] /\ CatalogKnown(r)  BY <3>1
    <3>3. CatalogKnown(r)'  BY <3>2, CatalogStaysKnown
    <3> QED  BY <3>2, <3>3 DEF CatalogKnown
  <2> QED  BY <2>1, <2>2 DEF CachesOK
<1>4. SeenOK'
  <2>1. ASSUME NEW e \in Containers PROVE Unseen(cache'[e], gone'[e])
    <3>1. ASSUME e # c PROVE Unseen(cache'[e], gone'[e])
      <4>1. cache'[e] = cache[e] /\ gone'[e] \subseteq gone[e]  BY <1>2, <3>1
      <4>2. Unseen(cache[e], gone[e])  BY DEF IInv, SeenOK
      <4> QED  BY <4>1, <4>2, UnseenLess
    <3> QED  BY <1>2, <3>1
  <2> QED  BY <2>1 DEF SeenOK, Unseen
<1> QED  BY <1>1, <1>3, <1>4 DEF IInv

\* Ingestion changes the tables only.
LEMMA IngestStep ==
    ASSUME IInv, RowsOK', GoneOK', RowsStay, UNCHANGED <<request, cache>>,
           \A e \in Containers : gone'[e] \subseteq gone[e]
    PROVE  IInv'
<1>1. RequestsOK'
  <2>1. ASSUME NEW e \in Containers PROVE TodoKnown(request[e])'
    <3>1. request[e] \in Requests /\ TodoKnown(request[e])  BY DEF IInv, RequestsOK
    <3>2. PICK r \in Requests : r = request'[e] /\ TodoKnown(r)  BY <3>1
    <3>3. TodoKnown(r)'  BY <3>2, TodoStaysKnown
    <3> QED  BY <3>2, <3>3 DEF TodoKnown
  <2> QED  BY <2>1 DEF IInv, RequestsOK
<1>2. CachesOK'
  <2>1. ASSUME NEW e \in Containers PROVE CatalogKnown(cache[e])'
    <3>1. cache[e] \in Caches /\ CatalogKnown(cache[e])  BY DEF IInv, CachesOK
    <3>2. PICK r \in Caches : r = cache'[e] /\ CatalogKnown(r)  BY <3>1
    <3>3. CatalogKnown(r)'  BY <3>2, CatalogStaysKnown
    <3> QED  BY <3>2, <3>3 DEF CatalogKnown
  <2> QED  BY <2>1 DEF IInv, CachesOK
<1>3. SeenOK'
  <2>1. ASSUME NEW e \in Containers PROVE Unseen(cache'[e], gone'[e])
    <3>1. gone'[e] \subseteq gone[e] /\ Unseen(cache[e], gone[e])  BY DEF IInv, SeenOK
    <3> QED  BY <3>1, UnseenLess
  <2> QED  BY <2>1 DEF SeenOK, Unseen
<1> QED  BY <1>1, <1>2, <1>3 DEF IInv


-----------------------------------------------------------------------------
(* Requests *)

LEMMA RequestsStay == IInv => requests \in 0 .. MaxRequests
BY DEF IInv, RowsOK

LEMMA AskedOne == IInv /\ requests < MaxRequests => requests + 1 \in 0 .. MaxRequests
BY MaxNat, RequestsStay

LEMMA RequestFields ==
    ASSUME IInv, NEW c \in Containers
    PROVE  /\ request[c] \in Requests /\ TodoKnown(request[c])
           /\ request[c].pc \in {"matching", "resolving", "agent", "agent scene"} =>
                  request[c] \in [pc : {"matching", "resolving", "agent", "agent scene"}, phrase : Phrases]
           /\ Is(c, "scene") => request[c] \in [pc : {"scene"}, scene : Scenes, phrase : Phrases]
           /\ Is(c, "learning") => request[c] \in [pc : {"learning"}, device : Devices, phrase : Phrases]
           /\ Is(c, "creating") => request[c] \in [pc : {"creating"}, device : Devices]
           /\ Is(c, "saving") => request[c] \in Saving
           /\ Is(c, "counting") => request[c] \in [pc : {"counting"}, next : Saving, key : Learnings]
<1>1. request[c] \in Requests /\ TodoKnown(request[c])  BY DEF IInv, RequestsOK
<1> QED  BY <1>1 DEF Requests, Is, Saving

LEMMA AskingHolds ==
    ASSUME IInv, NEW c \in Containers, Asking(c),
           UNCHANGED <<registry, phrases, deleted, cache, enrich, gone>>
    PROVE  IInv'
<1>1. ASSUME NEW q \in Requests, TodoKnown(q), Asks(c, q) PROVE IInv'
  <2>1. requests' \in 0 .. MaxRequests  BY <1>1, AskedOne DEF Asks
  <2> QED  BY <1>1, <2>1, RequestStep DEF Asks
<1>2. ASSUME NEW p \in Phrases, Asks(c, [pc |-> "matching", phrase |-> p]) PROVE IInv'
  BY <1>1, <1>2 DEF Requests, TodoKnown
<1>3. ASSUME NEW p \in Phrases, NEW pc \in {"agent", "agent scene"}, Asks(c, [pc |-> pc, phrase |-> p])
      PROVE  IInv'
  BY <1>1, <1>3 DEF Requests, TodoKnown
<1>4. ASSUME NEW d \in Devices, NEW p \in Phrases,
             Asks(c, [pc |-> "learning", device |-> d, phrase |-> p])
      PROVE  IInv'
  BY <1>1, <1>4 DEF Requests, TodoKnown
<1>5. ASSUME NEW d \in Devices, Asks(c, [pc |-> "creating", device |-> d]) PROVE IInv'
  BY <1>1, <1>5 DEF Requests, TodoKnown
<1>6. ASSUME NEW pc \in {"listing devices", "listing scenes"}, Asks(c, [pc |-> pc]) PROVE IInv'
  BY <1>1, <1>6 DEF Requests, TodoKnown
<1> QED  BY <1>2, <1>3, <1>4, <1>5, <1>6 DEF Asking

LEMMA EndsHolds ==
    ASSUME IInv, NEW c \in Containers, Ends(c), StepsOnly
    PROVE  IInv'
BY EndStep, RequestsStay DEF StepsOnly

LEMMA CatalogDevices ==
    ASSUME IInv, NEW c \in Containers, Cataloged(c)
    PROVE  cache[c].catalog \in SUBSET Devices /\ \A d \in cache[c].catalog : registry[d] # NoRow
<1>1. cache[c] \in Caches /\ CatalogKnown(cache[c])  BY DEF IInv, CachesOK
<1> QED  BY <1>1 DEF Caches, CatalogKnown, Cataloged

LEMMA LearnsAPhrase ==
    ASSUME NEW d \in Devices, NEW command \in Phrases, NEW tier
    PROVE  AutoLearnPhrase(d, command, tier) \in Phrases
<1>1. NamePhrase[d] \in Phrases  BY CatalogAssumption
<1> QED  BY <1>1 DEF AutoLearnPhrase

LEMMA MatchSceneHolds ==
    ASSUME IInv, NEW c \in Containers, MatchScene(c)
    PROVE  IInv'
<1>1. request[c] \in [pc : {"matching", "resolving", "agent", "agent scene"}, phrase : Phrases]
  BY RequestFields DEF MatchScene, Is
<1>2. requests' \in 0 .. MaxRequests  BY RequestsStay DEF MatchScene, StepsOnly
<1>3. UNCHANGED <<registry, phrases, deleted, cache, enrich, gone>>  BY DEF MatchScene, StepsOnly
<1>4. ASSUME NEW s \in ActiveScenes(c),
             request' = [request EXCEPT ![c] = [pc |-> "scene", scene |-> s, phrase |-> request[c].phrase]]
      PROVE  IInv'
  <2> DEFINE q == [pc |-> "scene", scene |-> s, phrase |-> request[c].phrase]
  <2>1. q \in Requests /\ TodoKnown(q)  BY <1>1 DEF Requests, ActiveScenes, TodoKnown
  <2>2. request' = [request EXCEPT ![c] = q]  BY <1>4
  <2> HIDE DEF q
  <2> QED  BY <2>1, <2>2, <1>2, <1>3, RequestStep
<1>5. ASSUME request' = [request EXCEPT ![c].pc = "resolving"] PROVE IInv'
  <2> DEFINE q == [request[c] EXCEPT !.pc = "resolving"]
  <2>1. q \in Requests /\ TodoKnown(q)  BY <1>1 DEF Requests, TodoKnown
  <2>2. request' = [request EXCEPT ![c] = q]  BY <1>5
  <2> HIDE DEF q
  <2> QED  BY <2>1, <2>2, <1>2, <1>3, RequestStep
<1> QED  BY <1>4, <1>5 DEF MatchScene

LEMMA HandleSceneHolds ==
    ASSUME IInv, NEW c \in Containers, HandleScene(c)
    PROVE  IInv'
<1>1. request[c].phrase \in Phrases  BY RequestFields DEF HandleScene, Is
<1>2. ScenePlan(c) \in SUBSET Devices /\ \A d \in ScenePlan(c) : registry[d] # NoRow
  BY CatalogDevices DEF ScenePlan, HandleScene
<1>3. StepsOnly  BY DEF HandleScene
<1>4. ASSUME NEW ran \in ExecuteSteps(ScenePlan(c)),
             Executed(c, ran, [d \in ran |-> AutoLearnPhrase(d, request[c].phrase, "cosine")], FALSE)
      PROVE  IInv'
  <2>1. ran \in SUBSET Devices /\ \A d \in ran : registry[d] # NoRow  BY <1>2, <1>4 DEF ExecuteSteps
  <2> DEFINE phrase == [d \in ran |-> AutoLearnPhrase(d, request[c].phrase, "cosine")]
  <2>2. \A d \in ran : phrase[d] \in Phrases  BY <2>1, <1>1, LearnsAPhrase
  <2>3. Executed(c, ran, phrase, FALSE)  BY <1>4
  <2> HIDE DEF phrase
  <2> QED  BY <2>1, <2>2, <2>3, <1>3, ExecutedStep
<1> QED  BY <1>3, <1>4, EndsHolds DEF HandleScene

LEMMA ExecuteDeviceHolds ==
    ASSUME IInv, NEW c \in Containers, NEW d \in Devices, registry[d] # NoRow, NEW tier,
           request[c].phrase \in Phrases, ExecuteDevice(c, d, tier), StepsOnly
    PROVE  IInv'
<1> DEFINE phrase == [x \in {d} |-> AutoLearnPhrase(x, request[c].phrase, tier)]
           single == tier = "llm"
<1>1. ASSUME Executed(c, {d}, phrase, single) PROVE IInv'
  <2>1. \A x \in {d} : phrase[x] \in Phrases  BY LearnsAPhrase
  <2>2. single \in BOOLEAN  OBVIOUS
  <2> HIDE DEF phrase, single
  <2> QED  BY <1>1, <2>1, <2>2, ExecutedStep
<1> QED  BY <1>1, EndsHolds DEF ExecuteDevice

LEMMA HandleDeviceCommandHolds ==
    ASSUME IInv, NEW c \in Containers, HandleDeviceCommand(c)
    PROVE  IInv'
<1>1. request[c].phrase \in Phrases  BY RequestFields DEF HandleDeviceCommand, Is
<1>2. cache[c].catalog \in SUBSET Devices /\ \A d \in cache[c].catalog : registry[d] # NoRow
  BY CatalogDevices DEF HandleDeviceCommand
<1>3. StepsOnly  BY DEF HandleDeviceCommand
<1>4. ASSUME NEW found \in ResolveDevice(c), NEW d \in found, ExecuteDevice(c, d, "cosine") PROVE IInv'
  <2>1. d \in Devices /\ registry[d] # NoRow  BY <1>2, <1>4 DEF ResolveDevice
  <2> QED  BY <2>1, <1>1, <1>3, <1>4, ExecuteDeviceHolds
<1>5. ASSUME NEW named \in LlmResolve, NEW d \in LlmSteps(c, named), ExecuteDevice(c, d, "llm") PROVE IInv'
  <2>1. d \in Devices /\ registry[d] # NoRow  BY <1>2, <1>5 DEF LlmSteps
  <2> QED  BY <2>1, <1>1, <1>3, <1>5, ExecuteDeviceHolds
<1>6. ASSUME NEW named \in LlmResolve, ExecuteLlmDevices(c, LlmSteps(c, named)) PROVE IInv'
  <2>1. PICK ran \in ExecuteSteps(LlmSteps(c, named)) :
          Executed(c, ran, [d \in ran |-> AutoLearnPhrase(d, request[c].phrase, "llm")], FALSE)
    BY <1>6 DEF ExecuteLlmDevices
  <2>2. ran \in SUBSET Devices /\ \A d \in ran : registry[d] # NoRow
    BY <1>2, <2>1 DEF ExecuteSteps, LlmSteps
  <2> DEFINE phrase == [d \in ran |-> AutoLearnPhrase(d, request[c].phrase, "llm")]
  <2>3. \A d \in ran : phrase[d] \in Phrases  BY <2>2, <1>1, LearnsAPhrase
  <2>4. Executed(c, ran, phrase, FALSE)  BY <2>1
  <2> HIDE DEF phrase
  <2> QED  BY <2>2, <2>3, <2>4, <1>3, ExecutedStep
<1> QED  BY <1>3, <1>4, <1>5, <1>6, EndsHolds DEF HandleDeviceCommand

LEMMA AgentDeviceHolds ==
    ASSUME IInv, NEW c \in Containers, AgentDevice(c)
    PROVE  IInv'
<1>1. request[c].phrase \in Phrases  BY RequestFields DEF AgentDevice, Is
<1>2. cache[c].catalog \in SUBSET Devices /\ \A d \in cache[c].catalog : registry[d] # NoRow
  BY CatalogDevices DEF AgentDevice
<1>3. StepsOnly  BY DEF AgentDevice
<1>4. ASSUME NEW d \in cache[c].catalog, Executed(c, {d}, [x \in {d} |-> request[c].phrase], FALSE)
      PROVE  IInv'
  <2> DEFINE phrase == [x \in {d} |-> request[c].phrase]
  <2>1. \A x \in {d} : phrase[x] \in Phrases  BY <1>1
  <2>2. Executed(c, {d}, phrase, FALSE)  BY <1>4
  <2>3. {d} \in SUBSET Devices /\ \A x \in {d} : registry[x] # NoRow  BY <1>2
  <2> HIDE DEF phrase
  <2> QED  BY <1>3, <2>1, <2>2, <2>3, ExecutedStep
<1> QED  BY <1>3, <1>4, EndsHolds DEF AgentDevice

LEMMA AgentSceneHolds ==
    ASSUME IInv, NEW c \in Containers, AgentScene(c)
    PROVE  IInv'
<1>1. request[c].phrase \in Phrases  BY RequestFields DEF AgentScene, Is
<1>2. cache[c].catalog \in SUBSET Devices /\ \A d \in cache[c].catalog : registry[d] # NoRow
  BY CatalogDevices DEF AgentScene
<1>3. StepsOnly  BY DEF AgentScene
<1>4. ASSUME NEW s \in ActiveScenes(c), NEW ran \in ExecuteSteps(Actions[s] \cap cache[c].catalog),
             Executed(c, ran, [d \in ran |-> request[c].phrase], FALSE)
      PROVE  IInv'
  <2> DEFINE phrase == [d \in ran |-> request[c].phrase]
  <2>1. \A d \in ran : phrase[d] \in Phrases  BY <1>1
  <2>2. Executed(c, ran, phrase, FALSE)  BY <1>4
  <2>3. ran \in SUBSET Devices /\ \A d \in ran : registry[d] # NoRow  BY <1>2, <1>4 DEF ExecuteSteps
  <2> HIDE DEF phrase
  <2> QED  BY <1>3, <2>1, <2>2, <2>3, ExecutedStep
<1> QED  BY <1>3, <1>4, EndsHolds DEF AgentScene


-----------------------------------------------------------------------------
(* The caches *)

\* A step that changes one container's cache and lets its request go on or end.
LEMMA CacheStep ==
    ASSUME IInv, NEW c \in Containers, NEW q \in Requests, TodoKnown(q),
           request' = [request EXCEPT ![c] = q],
           NEW kept \in Caches, CatalogKnown(kept), Unseen(kept, gone[c]),
           cache' = [cache EXCEPT ![c] = kept],
           requests' \in 0 .. MaxRequests,
           UNCHANGED <<registry, phrases, deleted, enrich, gone>>
    PROVE  IInv'
<1>1. RowsOK'  BY DEF IInv, RowsOK
<1>2. GoneOK'  BY DEF IInv, GoneOK, IsGone
<1>3. RowsStay  BY DEF RowsStay
<1>4. Unseen(kept, gone'[c]) /\ \A e \in Containers \ {c} : gone'[e] \subseteq gone[e]  OBVIOUS
<1> QED  BY <1>1, <1>2, <1>3, <1>4, ContainerStep

LEMMA SameRequest ==
    ASSUME IInv, NEW c \in Containers
    PROVE  request = [request EXCEPT ![c] = request[c]]
BY DEF IInv, RequestsOK

LEMMA CacheFields ==
    ASSUME IInv, NEW c \in Containers
    PROVE  /\ cache[c] \in Caches /\ CatalogKnown(cache[c])
           /\ Unseen(cache[c], gone[c]) /\ IsGone(gone[c])
           /\ cache = [cache EXCEPT ![c] = cache[c]]
BY DEF IInv, CachesOK, SeenOK, GoneOK

\* A part of a cache that is forgotten shows nothing that was deleted.
LEMMA Forgets ==
    ASSUME NEW kept \in Caches, CatalogKnown(kept), NEW things, Unseen(kept, things)
    PROVE  /\ [kept EXCEPT !.catalog = NotRead] \in Caches
           /\ CatalogKnown([kept EXCEPT !.catalog = NotRead])
           /\ Unseen([kept EXCEPT !.catalog = NotRead], things)
           /\ [kept EXCEPT !.learned = NotRead] \in Caches
           /\ CatalogKnown([kept EXCEPT !.learned = NotRead])
           /\ Unseen([kept EXCEPT !.learned = NotRead], things)
           /\ [kept EXCEPT !.scenes = NotRead] \in Caches
           /\ CatalogKnown([kept EXCEPT !.scenes = NotRead])
           /\ Unseen([kept EXCEPT !.scenes = NotRead], things)
BY DEF Caches, CatalogKnown, Unseen

LEMMA LoadsCatalogHolds ==
    ASSUME IInv, NEW c \in Containers, LoadsCatalog(c)
    PROVE  IInv'
<1>1. ASSUME cache' = [cache EXCEPT ![c].catalog = { d \in Devices : registry[d] = "active" }],
             UNCHANGED request
      PROVE  IInv'
  <2> DEFINE actives == { d \in Devices : registry[d] = "active" }
             kept == [cache[c] EXCEPT !.catalog = actives]
  <2>1. actives \in SUBSET Devices /\ \A d \in actives : registry[d] # NoRow  BY Sorts
  <2>2. actives \cap gone[c] = {}  BY CacheFields DEF IsGone
  <2>3. cache' = [cache EXCEPT ![c] = kept]  BY <1>1
  <2> HIDE DEF actives
  <2>4. kept \in Caches /\ CatalogKnown(kept) /\ Unseen(kept, gone[c])
    BY <2>1, <2>2, CacheFields DEF Caches, CatalogKnown, Unseen
  <2> HIDE DEF kept
  <2>5. requests' \in 0 .. MaxRequests  BY RequestsStay DEF LoadsCatalog
  <2>6. request' = [request EXCEPT ![c] = request[c]]  BY <1>1, SameRequest
  <2> QED  BY <2>3, <2>4, <2>5, <2>6, RequestFields, CacheStep DEF LoadsCatalog
<1> QED  BY <1>1, EndsHolds DEF LoadsCatalog, StepsOnly

LEMMA LoadsLearnedHolds ==
    ASSUME IInv, NEW c \in Containers, LoadsLearned(c)
    PROVE  IInv'
<1>1. PICK found \in {{ k \in Learnings : phrases[k] # NoRow }, {}} :
          cache' = [cache EXCEPT ![c].learned = found]
  BY DEF LoadsLearned
<1> DEFINE kept == [cache[c] EXCEPT !.learned = found]
<1>2. found \in SUBSET Learnings  OBVIOUS
<1>3. found \cap gone[c] = {}  BY CacheFields DEF IsGone
<1>4. kept \in Caches /\ CatalogKnown(kept) /\ Unseen(kept, gone[c])
  BY <1>2, <1>3, CacheFields DEF Caches, CatalogKnown, Unseen
<1>5. cache' = [cache EXCEPT ![c] = kept]  BY <1>1
<1> HIDE DEF kept
<1>6. requests' \in 0 .. MaxRequests  BY RequestsStay DEF LoadsLearned
<1>7. request' = [request EXCEPT ![c] = request[c]]  BY SameRequest DEF LoadsLearned
<1> QED  BY <1>4, <1>5, <1>6, <1>7, RequestFields, CacheStep DEF LoadsLearned

LEMMA LoadsScenesHolds ==
    ASSUME IInv, NEW c \in Containers, LoadsScenes(c)
    PROVE  IInv'
<1>1. PICK read \in {deleted, Unreadable} : cache' = [cache EXCEPT ![c].scenes = read]
  BY DEF LoadsScenes
<1> DEFINE kept == [cache[c] EXCEPT !.scenes = read]
<1>2. read \in (SUBSET Scenes) \cup {NotRead, Unreadable}  BY DEF IInv, RowsOK
<1>3. read \notin {NotRead, Unreadable} => gone[c] \cap Scenes \subseteq read
  BY CacheFields DEF IsGone
<1>4. kept \in Caches /\ CatalogKnown(kept) /\ Unseen(kept, gone[c])
  <2>1. cache[c] \in Caches /\ CatalogKnown(cache[c]) /\ Unseen(cache[c], gone[c])  BY CacheFields
  <2>2. kept \in Caches  BY <2>1, <1>2 DEF Caches
  <2>3. /\ kept.scenes = read
        /\ kept.catalog = cache[c].catalog
        /\ kept.learned = cache[c].learned
    BY <2>1 DEF Caches
  <2> HIDE DEF kept
  <2> QED  BY <2>1, <2>2, <2>3, <1>3 DEF CatalogKnown, Unseen
<1>5. cache' = [cache EXCEPT ![c] = kept]  BY <1>1
<1> HIDE DEF kept
<1>6. requests' \in 0 .. MaxRequests  BY RequestsStay DEF LoadsScenes
<1>7. request' = [request EXCEPT ![c] = request[c]]  BY SameRequest DEF LoadsScenes
<1> QED  BY <1>4, <1>5, <1>6, <1>7, RequestFields, CacheStep DEF LoadsScenes

LEMMA AnswerHolds ==
    ASSUME IInv, NEW c \in Containers, Answer(c)
    PROVE  IInv'
<1> DEFINE forgotten == [cache[c] EXCEPT !.learned = NotRead]
<1>1. PICK kept \in {cache[c], forgotten} : cache' = [cache EXCEPT ![c] = kept]
  BY CacheFields DEF Answer
<1>2. kept \in Caches /\ CatalogKnown(kept) /\ Unseen(kept, gone[c])
  <2>1. forgotten \in Caches /\ CatalogKnown(forgotten) /\ Unseen(forgotten, gone[c])
    BY CacheFields, Forgets
  <2> HIDE DEF forgotten
  <2> QED  BY <2>1, CacheFields
<1>3. requests' \in 0 .. MaxRequests  BY RequestsStay DEF Answer
<1> QED  BY <1>1, <1>2, <1>3, IdleIs, CacheStep DEF Answer, Ends

LEMMA DiesHolds ==
    ASSUME IInv, NEW c \in Containers, Dies(c)
    PROVE  IInv'
<1>1. Cold \in Caches /\ CatalogKnown(Cold) /\ Unseen(Cold, gone[c])
  BY DEF Cold, Caches, CatalogKnown, Unseen
<1>2. requests' \in 0 .. MaxRequests  BY RequestsStay DEF Dies
<1> QED  BY <1>1, <1>2, IdleIs, CacheStep DEF Dies, Ends

LEMMA UpdateDeviceHolds ==
    ASSUME IInv, NEW c \in Containers, NEW d \in Devices, UpdateDevice(c, d)
    PROVE  IInv'
<1> DEFINE kept == [cache[c] EXCEPT !.catalog = NotRead]
<1>1. kept \in Caches /\ CatalogKnown(kept) /\ Unseen(kept, gone[c])  BY CacheFields, Forgets
<1>2. cache' = [cache EXCEPT ![c] = kept] \/ cache' = cache  BY DEF UpdateDevice
<1> HIDE DEF kept
<1>3. requests' \in 0 .. MaxRequests  BY AskedOne DEF UpdateDevice, Asked, Asks
<1>4. request' = [request EXCEPT ![c] = Idle]  BY DEF UpdateDevice, Asked, Asks
<1>5. UNCHANGED <<registry, phrases, deleted, enrich, gone>>  BY DEF UpdateDevice
<1>6. CASE cache' = [cache EXCEPT ![c] = kept]  BY <1>1, <1>3, <1>4, <1>5, <1>6, IdleIs, CacheStep
<1>7. CASE cache' = cache  BY <1>3, <1>4, <1>5, <1>7, IdleIs, RequestStep
<1> QED  BY <1>2, <1>6, <1>7


-----------------------------------------------------------------------------
(* The tables *)

LEMMA GoneFields ==
    IInv => /\ gone = [c \in Containers |-> gone[c]]
            /\ \A c \in Containers : IsGone(gone[c])
BY DEF IInv, GoneOK

\* What comes back, in the devices or in the phrases, is restored.
LEMMA RestoredHolds ==
    ASSUME IInv, NEW things, Restores(things), deleted' = deleted,
           \A d \in Devices : d \notin things /\ registry'[d] = "active" => registry[d] = "active",
           \A k \in Learnings : k \notin things /\ phrases[k] = NoRow => phrases'[k] = NoRow
    PROVE  GoneOK' /\ \A e \in Containers : gone'[e] \subseteq gone[e]
<1>1. \A e \in Containers : gone'[e] = gone[e] \ things  BY DEF Restores
<1>2. ASSUME NEW e \in Containers PROVE IsGone(gone[e])'
  <2>1. IsGone(gone[e])  BY GoneFields
  <2> QED  BY <1>1, <2>1 DEF IsGone
<1>3. gone' = [e \in Containers |-> gone'[e]]  BY <1>1 DEF Restores
<1> QED  BY <1>1, <1>2, <1>3 DEF GoneOK

\* What is deleted is gone from the tables.
LEMMA DeletedHolds ==
    ASSUME IInv, NEW c \in Containers, NEW thing, gone' = [gone EXCEPT ![c] = @ \cup {thing}],
           deleted \subseteq deleted',
           \A d \in Devices : registry'[d] = "active" => registry[d] = "active" /\ d # thing,
           \A k \in Learnings : phrases[k] = NoRow => phrases'[k] = NoRow,
           \A k \in Learnings : k = thing => phrases'[k] = NoRow,
           \A s \in Scenes : s = thing => s \in deleted'
    PROVE  /\ GoneOK'
           /\ gone'[c] = gone[c] \cup {thing}
           /\ \A e \in Containers \ {c} : gone'[e] \subseteq gone[e]
<1>1. \A e \in Containers : gone'[e] = IF e = c THEN gone[e] \cup {thing} ELSE gone[e]
  BY GoneFields
<1>2. ASSUME NEW e \in Containers PROVE IsGone(gone[e])'
  <2>1. IsGone(gone[e])  BY GoneFields
  <2>2. gone'[e] \subseteq gone[e] \cup {thing}  BY <1>1
  <2> QED  BY <2>1, <2>2 DEF IsGone
<1>3. gone' = [e \in Containers |-> gone'[e]]  BY GoneFields
<1> QED  BY <1>1, <1>2, <1>3 DEF GoneOK

LEMMA RowFields ==
    IInv => /\ registry \in [Devices -> {"active", "inactive", "offline", NoRow}]
            /\ phrases \in [Learnings -> {"manual", "learned", "generated", "only counted", NoRow}]
            /\ deleted \subseteq Scenes
            /\ enrich \subseteq Learnings
BY DEF IInv, RowsOK

\* A step that writes one status.
LEMMA StatusWritten ==
    ASSUME IInv, NEW d \in Devices, NEW status \in {"active", "inactive", "offline"},
           registry' = [registry EXCEPT ![d] = status]
    PROVE  /\ registry' \in [Devices -> {"active", "inactive", "offline", NoRow}]
           /\ RowsStay
           /\ \A e \in Devices : e # d => registry'[e] = registry[e]
           /\ registry'[d] = status
BY RowFields, Sorts DEF RowsStay

\* A step that writes one phrase.
LEMMA PhraseWritten ==
    ASSUME IInv, NEW k \in Learnings,
           NEW row \in {"manual", "learned", "generated", "only counted", NoRow},
           phrases' = [phrases EXCEPT ![k] = row]
    PROVE  /\ phrases' \in [Learnings -> {"manual", "learned", "generated", "only counted", NoRow}]
           /\ \A j \in Learnings : j # k => phrases'[j] = phrases[j]
           /\ phrases'[k] = row
BY RowFields

LEMMA LearnHolds ==
    ASSUME IInv, NEW c \in Containers, Learn(c)
    PROVE  IInv'
<1>1. request[c].device \in Devices /\ request[c].phrase \in Phrases
  BY RequestFields DEF Learn, Is
<1> DEFINE k == <<request[c].device, request[c].phrase>>
           kept == [cache[c] EXCEPT !.learned = NotRead]
<1>2. k \in Learnings  BY <1>1 DEF Learnings
<1>3. ASSUME SaveManualPhrase(k), cache' = [cache EXCEPT ![c].learned = NotRead], Restores({k})
      PROVE  IInv'
  <2>1. cache' = [cache EXCEPT ![c] = kept]  BY <1>3
  <2>2. kept \in Caches /\ CatalogKnown(kept) /\ Unseen(kept, gone[c])  BY CacheFields, Forgets
  <2>3. phrases' = [phrases EXCEPT ![k] = "manual"]  BY <1>3 DEF SaveManualPhrase
  <2> HIDE DEF k, kept
  <2>4. /\ phrases' \in [Learnings -> {"manual", "learned", "generated", "only counted", NoRow}]
        /\ \A j \in Learnings : j # k => phrases'[j] = phrases[j]
    BY <1>2, <2>3, PhraseWritten
  <2>5. UNCHANGED <<registry, deleted, enrich, requests>>  BY DEF Learn
  <2>6. RowsOK' /\ RowsStay  BY <2>4, <2>5 DEF IInv, RowsOK, RowsStay
  <2>7. GoneOK' /\ \A e \in Containers : gone'[e] \subseteq gone[e]
    BY <1>3, <2>4, <2>5, RestoredHolds
  <2>8. Unseen(kept, gone'[c])  BY <2>2, <2>7, UnseenLess
  <2>9. request' = [request EXCEPT ![c] = Idle]  BY DEF Learn, Ends
  <2> QED  BY <2>1, <2>2, <2>6, <2>7, <2>8, <2>9, IdleIs, ContainerStep
<1>4. ASSUME UNCHANGED <<phrases, cache, gone>> PROVE IInv'
  BY <1>4, EndsHolds DEF Learn, StepsOnly
<1> QED  BY <1>3, <1>4 DEF Learn

LEMMA AskedHolds ==
    ASSUME IInv, NEW c \in Containers, Asked(c)
    PROVE  requests' \in 0 .. MaxRequests /\ request' = [request EXCEPT ![c] = Idle]
BY AskedOne DEF Asked, Asks

LEMMA DeleteLearningHolds ==
    ASSUME IInv, NEW c \in Containers, NEW k \in Learnings, DeleteLearning(c, k)
    PROVE  IInv'
<1>1. requests' \in 0 .. MaxRequests /\ request' = [request EXCEPT ![c] = Idle]
  BY AskedHolds DEF DeleteLearning
<1>2. UNCHANGED <<registry, deleted, enrich>>  BY DEF DeleteLearning
<1>3. ASSUME phrases' = [phrases EXCEPT ![k] = NoRow],
             cache' = [cache EXCEPT ![c].learned = NotRead],
             gone' = [gone EXCEPT ![c] = @ \cup {k}]
      PROVE  IInv'
  <2> DEFINE kept == [cache[c] EXCEPT !.learned = NotRead]
  <2>1. cache' = [cache EXCEPT ![c] = kept]  BY <1>3
  <2>2. kept \in Caches /\ CatalogKnown(kept) /\ Unseen(kept, gone[c]) /\ kept.learned = NotRead
    <3>1. kept \in Caches /\ CatalogKnown(kept) /\ Unseen(kept, gone[c])  BY CacheFields, Forgets
    <3>2. kept.learned = NotRead  BY CacheFields DEF Caches
    <3> QED  BY <3>1, <3>2
  <2> HIDE DEF kept
  <2>3. /\ phrases' \in [Learnings -> {"manual", "learned", "generated", "only counted", NoRow}]
        /\ \A j \in Learnings : j # k => phrases'[j] = phrases[j]
        /\ phrases'[k] = NoRow
    BY <1>3, PhraseWritten
  <2>4. RowsOK' /\ RowsStay  BY <1>1, <1>2, <2>3 DEF IInv, RowsOK, RowsStay
  <2>5. k \notin Devices /\ k \notin Scenes  BY Sorts
  <2>6. /\ GoneOK'
        /\ gone'[c] = gone[c] \cup {k}
        /\ \A e \in Containers \ {c} : gone'[e] \subseteq gone[e]
    <3>1. \A j \in Learnings : phrases[j] = NoRow => phrases'[j] = NoRow  BY <2>3
    <3>2. \A j \in Learnings : j = k => phrases'[j] = NoRow  BY <2>3
    <3>3. \A d \in Devices : registry'[d] = "active" => registry[d] = "active" /\ d # k  BY <1>2, <2>5
    <3>4. \A s \in Scenes : s = k => s \in deleted'  BY <2>5
    <3>5. deleted \subseteq deleted'  BY <1>2
    <3> QED  BY <1>3, <3>1, <3>2, <3>3, <3>4, <3>5, DeletedHolds
  <2>7. Unseen(kept, gone'[c])
    <3>1. kept.catalog # NotRead => kept.catalog \subseteq Devices  BY <2>2 DEF Caches
    <3> QED  BY <2>2, <2>5, <2>6, <3>1 DEF Unseen
  <2> QED  BY <1>1, <2>1, <2>2, <2>4, <2>6, <2>7, IdleIs, ContainerStep
<1>4. ASSUME UNCHANGED <<phrases, cache, gone>> PROVE IInv'
  BY <1>1, <1>2, <1>4, IdleIs, RequestStep
<1> QED  BY <1>3, <1>4 DEF DeleteLearning


LEMMA CreateDeviceHolds ==
    ASSUME IInv, NEW c \in Containers, CreateDevice(c)
    PROVE  IInv'
<1>1. request[c].device \in Devices  BY RequestFields DEF CreateDevice, Is
<1> DEFINE d == request[c].device
           kept == [cache[c] EXCEPT !.catalog = NotRead]
<1>2. ASSUME registry' = [registry EXCEPT ![d] = "active"],
             cache' = [cache EXCEPT ![c].catalog = NotRead], Restores({d})
      PROVE  IInv'
  <2>1. cache' = [cache EXCEPT ![c] = kept]  BY <1>2
  <2>2. kept \in Caches /\ CatalogKnown(kept) /\ Unseen(kept, gone[c])  BY CacheFields, Forgets
  <2>3. d \in Devices  BY <1>1
  <2> HIDE DEF d, kept
  <2>4. /\ registry' \in [Devices -> {"active", "inactive", "offline", NoRow}]
        /\ RowsStay
        /\ \A e \in Devices : e # d => registry'[e] = registry[e]
    BY <1>2, <2>3, StatusWritten
  <2>5. UNCHANGED <<phrases, deleted, enrich, requests>>  BY DEF CreateDevice
  <2>6. RowsOK'  BY <2>4, <2>5 DEF IInv, RowsOK
  <2>7. GoneOK' /\ \A e \in Containers : gone'[e] \subseteq gone[e]
    BY <1>2, <2>4, <2>5, RestoredHolds
  <2>8. Unseen(kept, gone'[c])  BY <2>2, <2>7, UnseenLess
  <2>9. request' = [request EXCEPT ![c] = Idle]  BY DEF CreateDevice, Ends
  <2> QED  BY <2>1, <2>2, <2>4, <2>6, <2>7, <2>8, <2>9, IdleIs, ContainerStep
<1>3. ASSUME UNCHANGED <<registry, cache, gone>> PROVE IInv'
  BY <1>3, EndsHolds DEF CreateDevice, StepsOnly
<1> QED  BY <1>2, <1>3 DEF CreateDevice

LEMMA DeleteDeviceHolds ==
    ASSUME IInv, NEW c \in Containers, NEW d \in Devices, DeleteDevice(c, d)
    PROVE  IInv'
<1>1. requests' \in 0 .. MaxRequests /\ request' = [request EXCEPT ![c] = Idle]
  BY AskedHolds DEF DeleteDevice
<1>2. UNCHANGED <<phrases, deleted, enrich>>  BY DEF DeleteDevice
<1>3. ASSUME registry' = [registry EXCEPT ![d] = "inactive"],
             cache' = [cache EXCEPT ![c].catalog = NotRead],
             gone' = [gone EXCEPT ![c] = @ \cup {d}]
      PROVE  IInv'
  <2> DEFINE kept == [cache[c] EXCEPT !.catalog = NotRead]
  <2>1. cache' = [cache EXCEPT ![c] = kept]  BY <1>3
  <2>2. kept \in Caches /\ CatalogKnown(kept) /\ Unseen(kept, gone[c]) /\ kept.catalog = NotRead
    <3>1. kept \in Caches /\ CatalogKnown(kept) /\ Unseen(kept, gone[c])  BY CacheFields, Forgets
    <3>2. kept.catalog = NotRead  BY CacheFields DEF Caches
    <3> QED  BY <3>1, <3>2
  <2> HIDE DEF kept
  <2>3. /\ registry' \in [Devices -> {"active", "inactive", "offline", NoRow}]
        /\ RowsStay
        /\ \A e \in Devices : e # d => registry'[e] = registry[e]
        /\ registry'[d] = "inactive"
    BY <1>3, StatusWritten
  <2>4. RowsOK'  BY <1>1, <1>2, <2>3 DEF IInv, RowsOK
  <2>5. d \notin Learnings /\ d \notin Scenes  BY Sorts
  <2>6. /\ GoneOK'
        /\ gone'[c] = gone[c] \cup {d}
        /\ \A e \in Containers \ {c} : gone'[e] \subseteq gone[e]
    <3>1. \A j \in Learnings : phrases[j] = NoRow => phrases'[j] = NoRow  BY <1>2
    <3>2. \A j \in Learnings : j = d => phrases'[j] = NoRow  BY <2>5
    <3>3. \A e \in Devices : registry'[e] = "active" => registry[e] = "active" /\ e # d  BY <2>3
    <3>4. \A s \in Scenes : s = d => s \in deleted'  BY <2>5
    <3>5. deleted \subseteq deleted'  BY <1>2
    <3> QED  BY <1>3, <3>1, <3>2, <3>3, <3>4, <3>5, DeletedHolds
  <2>7. Unseen(kept, gone'[c])
    <3>1. kept.learned # NotRead => kept.learned \subseteq Learnings  BY <2>2 DEF Caches
    <3> QED  BY <2>2, <2>5, <2>6, <3>1 DEF Unseen
  <2> QED  BY <1>1, <2>1, <2>2, <2>3, <2>4, <2>6, <2>7, IdleIs, ContainerStep
<1>4. ASSUME UNCHANGED <<registry, cache, gone>> PROVE IInv'
  BY <1>1, <1>2, <1>4, IdleIs, RequestStep
<1>5. ASSUME registry' = [registry EXCEPT ![d] = "inactive"], UNCHANGED <<cache, gone>> PROVE IInv'
  <2>1. /\ registry' \in [Devices -> {"active", "inactive", "offline", NoRow}]
        /\ RowsStay
        /\ \A e \in Devices : e # d => registry'[e] = registry[e]
        /\ registry'[d] = "inactive"
    BY <1>5, StatusWritten
  <2>2. RowsOK'  BY <1>1, <1>2, <2>1 DEF IInv, RowsOK
  <2>3. ASSUME NEW e \in Containers PROVE IsGone(gone[e])'
    <3>1. IsGone(gone[e])  BY GoneFields
    <3> QED  BY <1>2, <1>5, <2>1, <3>1 DEF IsGone
  <2>4. GoneOK'  BY <1>5, <2>3, GoneFields DEF GoneOK
  <2>5. cache' = [cache EXCEPT ![c] = cache[c]]  BY <1>5, CacheFields
  <2>6. Unseen(cache[c], gone'[c]) /\ \A e \in Containers \ {c} : gone'[e] \subseteq gone[e]
    BY <1>5, CacheFields
  <2>7. cache[c] \in Caches /\ CatalogKnown(cache[c])  BY CacheFields
  <2> QED  BY <1>1, <2>1, <2>2, <2>4, <2>5, <2>6, <2>7, IdleIs, ContainerStep
<1> QED  BY <1>3, <1>4, <1>5 DEF DeleteDevice

LEMMA DeleteSceneHolds ==
    ASSUME IInv, NEW c \in Containers, NEW s \in Scenes, DeleteScene(c, s)
    PROVE  IInv'
<1>1. requests' \in 0 .. MaxRequests /\ request' = [request EXCEPT ![c] = Idle]
  BY AskedHolds DEF DeleteScene
<1>2. UNCHANGED <<registry, phrases, enrich>>  BY DEF DeleteScene
<1>3. ASSUME deleted' = deleted \cup {s},
             cache' = [cache EXCEPT ![c].scenes = NotRead],
             gone' = [gone EXCEPT ![c] = @ \cup {s}]
      PROVE  IInv'
  <2> DEFINE kept == [cache[c] EXCEPT !.scenes = NotRead]
  <2>1. cache' = [cache EXCEPT ![c] = kept]  BY <1>3
  <2>2. kept \in Caches /\ CatalogKnown(kept) /\ Unseen(kept, gone[c]) /\ kept.scenes = NotRead
    <3>1. kept \in Caches /\ CatalogKnown(kept) /\ Unseen(kept, gone[c])  BY CacheFields, Forgets
    <3>2. kept.scenes = NotRead  BY CacheFields DEF Caches
    <3> QED  BY <3>1, <3>2
  <2> HIDE DEF kept
  <2>3. deleted' \subseteq Scenes /\ s \in deleted'  BY <1>3, RowFields
  <2>4. RowsOK' /\ RowsStay  BY <1>1, <1>2, <2>3 DEF IInv, RowsOK, RowsStay
  <2>5. s \notin Learnings /\ s \notin Devices  BY Sorts
  <2>6. /\ GoneOK'
        /\ gone'[c] = gone[c] \cup {s}
        /\ \A e \in Containers \ {c} : gone'[e] \subseteq gone[e]
    <3>1. \A j \in Learnings : phrases[j] = NoRow => phrases'[j] = NoRow  BY <1>2
    <3>2. \A j \in Learnings : j = s => phrases'[j] = NoRow  BY <2>5
    <3>3. \A d \in Devices : registry'[d] = "active" => registry[d] = "active" /\ d # s  BY <1>2, <2>5
    <3>4. \A z \in Scenes : z = s => z \in deleted'  BY <2>3
    <3>5. deleted \subseteq deleted'  BY <1>3
    <3> QED  BY <1>3, <3>1, <3>2, <3>3, <3>4, <3>5, DeletedHolds
  <2>7. Unseen(kept, gone'[c])
    <3>1. kept.learned # NotRead => kept.learned \subseteq Learnings  BY <2>2 DEF Caches
    <3>2. kept.catalog # NotRead => kept.catalog \subseteq Devices  BY <2>2 DEF Caches
    <3> QED  BY <2>2, <2>5, <2>6, <3>1, <3>2 DEF Unseen
  <2> QED  BY <1>1, <2>1, <2>2, <2>4, <2>6, <2>7, IdleIs, ContainerStep
<1>4. ASSUME UNCHANGED <<deleted, cache, gone>> PROVE IInv'
  BY <1>1, <1>2, <1>4, IdleIs, RequestStep
<1> QED  BY <1>3, <1>4 DEF DeleteScene

\* A saved, counted or generated phrase: the tables and one request change.
LEMMA PhraseStep ==
    ASSUME IInv, NEW c \in Containers, NEW q \in Requests, TodoKnown(q),
           request' = [request EXCEPT ![c] = q],
           NEW k \in Learnings, NEW row \in {"manual", "learned", "generated", "only counted", NoRow},
           phrases' = [phrases EXCEPT ![k] = row], Restores({k}),
           UNCHANGED <<registry, deleted, cache, enrich, requests>>
    PROVE  IInv'
<1>1. /\ phrases' \in [Learnings -> {"manual", "learned", "generated", "only counted", NoRow}]
      /\ \A j \in Learnings : j # k => phrases'[j] = phrases[j]
  BY PhraseWritten
<1>2. RowsOK' /\ RowsStay  BY <1>1 DEF IInv, RowsOK, RowsStay
<1>3. GoneOK' /\ \A e \in Containers : gone'[e] \subseteq gone[e]  BY <1>1, RestoredHolds
<1>4. Unseen(cache[c], gone'[c])  BY <1>3, CacheFields, UnseenLess
<1>5. cache' = [cache EXCEPT ![c] = cache[c]]  BY CacheFields
<1> QED  BY <1>2, <1>3, <1>4, <1>5, CacheFields, ContainerStep

LEMMA SaveHolds ==
    ASSUME IInv, NEW c \in Containers, Save(c)
    PROVE  IInv'
<1>1. request[c] \in Saving /\ request[c].pc = "saving" /\ TodoKnown(request[c])
  BY RequestFields DEF Save, Is
<1>2. UNCHANGED <<registry, deleted, cache, enrich, requests>>  BY DEF Save
<1>3. requests' \in 0 .. MaxRequests  BY <1>2, RequestsStay
<1>4. PICK k \in request[c].todo :
        \/ /\ phrases' = [phrases EXCEPT ![k] = "learned"]
           /\ request' = [request EXCEPT ![c].todo = @ \ {k}]
           /\ Restores({k})
        \/ /\ request' = [request EXCEPT ![c] = [pc |-> "counting", next |-> [request[c] EXCEPT !.todo = @ \ {k}], key |-> k]]
           /\ UNCHANGED <<phrases, gone>>
        \/ /\ request' = [request EXCEPT ![c].todo = @ \ {k}]
           /\ UNCHANGED <<phrases, gone>>
  BY DEF Save
<1>5. k \in Learnings  BY <1>1 DEF Saving
<1> DEFINE less == [request[c] EXCEPT !.todo = @ \ {k}]
           counting == [pc |-> "counting", next |-> less, key |-> k]
<1>6. less \in Saving /\ less.pc = "saving" /\ \A j \in less.todo : registry[j[1]] # NoRow
  BY <1>1 DEF Saving, TodoKnown
<1>7. CASE request' = [request EXCEPT ![c].todo = @ \ {k}]
  <2>1. request' = [request EXCEPT ![c] = less]  BY <1>7
  <2> HIDE DEF less
  <2>2. less \in Requests /\ TodoKnown(less)  BY <1>6 DEF Requests, TodoKnown
  <2>3. ASSUME UNCHANGED <<phrases, gone>> PROVE IInv'  BY <1>2, <1>3, <2>1, <2>2, <2>3, RequestStep
  <2>4. ASSUME phrases' = [phrases EXCEPT ![k] = "learned"], Restores({k}) PROVE IInv'
    BY <1>2, <1>5, <2>1, <2>2, <2>4, PhraseStep
  <2>5. \/ phrases' = [phrases EXCEPT ![k] = "learned"] /\ Restores({k})
        \/ UNCHANGED <<phrases, gone>>
    BY <1>4
  <2> QED  BY <2>3, <2>4, <2>5
<1>8. CASE /\ request' = [request EXCEPT ![c] = [pc |-> "counting", next |-> [request[c] EXCEPT !.todo = @ \ {k}], key |-> k]]
           /\ UNCHANGED <<phrases, gone>>
  <2>1. request' = [request EXCEPT ![c] = counting]  BY <1>8
  <2> HIDE DEF less
  <2>2. counting \in Requests /\ TodoKnown(counting)  BY <1>5, <1>6 DEF Requests, TodoKnown
  <2> HIDE DEF counting
  <2> QED  BY <1>2, <1>3, <1>8, <2>1, <2>2, RequestStep
<1> QED  BY <1>4, <1>7, <1>8

LEMMA CountHolds ==
    ASSUME IInv, NEW c \in Containers, Count(c)
    PROVE  IInv'
<1>1. /\ request[c] \in [pc : {"counting"}, next : Saving, key : Learnings]
      /\ TodoKnown(request[c])
  BY RequestFields DEF Count
<1>2. UNCHANGED <<registry, deleted, cache, enrich, requests>>  BY DEF Count
<1>3. requests' \in 0 .. MaxRequests  BY <1>2, RequestsStay
<1> DEFINE k == request[c].key
           q == request[c].next
           row == IF phrases[k] = NoRow THEN "only counted" ELSE phrases[k]
<1>4. k \in Learnings  BY <1>1
<1>5. q \in Requests /\ TodoKnown(q)  BY <1>1 DEF Requests, TodoKnown, Saving
<1>6. request' = [request EXCEPT ![c] = q]  BY DEF Count
<1>7. row \in {"manual", "learned", "generated", "only counted", NoRow}  BY <1>4, RowFields
<1>8. \/ phrases' = [phrases EXCEPT ![k] = row] /\ Restores({k})
      \/ UNCHANGED <<phrases, gone>>
  BY DEF Count
<1> HIDE DEF k, q, row
<1>9. ASSUME UNCHANGED <<phrases, gone>> PROVE IInv'
  BY <1>2, <1>3, <1>5, <1>6, <1>9, RequestStep
<1>10. ASSUME phrases' = [phrases EXCEPT ![k] = row], Restores({k}) PROVE IInv'
  BY <1>2, <1>4, <1>5, <1>6, <1>7, <1>10, PhraseStep
<1> QED  BY <1>8, <1>9, <1>10


-----------------------------------------------------------------------------
(* Ingestion *)

LEMMA SyncsHolds ==
    ASSUME IInv, NEW d \in Devices, Syncs(d)
    PROVE  IInv'
<1>1. PICK status \in {"active", "offline"} : registry' = [registry EXCEPT ![d] = status]
  BY DEF Syncs
<1>2. /\ registry' \in [Devices -> {"active", "inactive", "offline", NoRow}]
      /\ RowsStay
      /\ \A e \in Devices : e # d => registry'[e] = registry[e]
      /\ registry'[d] = status
  BY <1>1, StatusWritten
<1>3. UNCHANGED <<phrases, deleted, cache, request, enrich>>  BY DEF Syncs
<1>4. requests' \in 0 .. MaxRequests  BY AskedOne DEF Syncs
<1>5. RowsOK'  BY <1>2, <1>3, <1>4 DEF IInv, RowsOK
<1>6. GoneOK' /\ \A e \in Containers : gone'[e] \subseteq gone[e]
  <2>1. ASSUME registry'[d] = "active", Restores({d})
        PROVE  GoneOK' /\ \A e \in Containers : gone'[e] \subseteq gone[e]
    BY <1>2, <1>3, <2>1, RestoredHolds
  <2>2. ASSUME registry'[d] # "active", UNCHANGED gone
        PROVE  GoneOK' /\ \A e \in Containers : gone'[e] \subseteq gone[e]
    <3>1. ASSUME NEW e \in Containers PROVE IsGone(gone[e])'
      <4>1. IsGone(gone[e])  BY GoneFields
      <4> QED  BY <1>2, <1>3, <2>2, <4>1 DEF IsGone
    <3> QED  BY <2>2, <3>1, GoneFields DEF GoneOK
  <2> QED  BY <2>1, <2>2 DEF Syncs
<1> QED  BY <1>2, <1>3, <1>5, <1>6, IngestStep

LEMMA SameTables ==
    ASSUME IInv, UNCHANGED <<registry, phrases, deleted, gone>>
    PROVE  GoneOK' /\ RowsStay
BY DEF IInv, GoneOK, IsGone, RowsStay

LEMMA EnrichHolds ==
    ASSUME IInv, NEW d \in Devices, Enrich(d)
    PROVE  IInv'
<1>1. UNCHANGED <<registry, phrases, deleted, cache, request, gone>>  BY DEF Enrich
<1>2. requests' \in 0 .. MaxRequests  BY AskedOne DEF Enrich
<1>3. enrich' \subseteq Learnings  BY DEF Enrich, GeneratePhrases, Learnings
<1>4. RowsOK'  BY <1>1, <1>2, <1>3 DEF IInv, RowsOK
<1> QED  BY <1>1, <1>4, SameTables, IngestStep

LEMMA GenerateHolds ==
    ASSUME IInv, Generate
    PROVE  IInv'
<1>1. UNCHANGED <<registry, deleted, cache, request, requests>>  BY DEF Generate
<1>2. PICK k \in enrich :
        \/ /\ phrases' = [phrases EXCEPT ![k] = "generated"]
           /\ Restores({k})
           /\ enrich' = enrich \ {k}
        \/ enrich' \in {enrich \ {k}, {}} /\ UNCHANGED <<phrases, gone>>
  BY DEF Generate
<1>3. k \in Learnings /\ enrich' \subseteq Learnings  BY <1>2, RowFields
<1>4. ASSUME phrases' = [phrases EXCEPT ![k] = "generated"], Restores({k}) PROVE IInv'
  <2>1. /\ phrases' \in [Learnings -> {"manual", "learned", "generated", "only counted", NoRow}]
        /\ \A j \in Learnings : j # k => phrases'[j] = phrases[j]
    BY <1>3, <1>4, PhraseWritten
  <2>2. RowsOK' /\ RowsStay  BY <1>1, <1>3, <2>1 DEF IInv, RowsOK, RowsStay
  <2>3. GoneOK' /\ \A e \in Containers : gone'[e] \subseteq gone[e]
    BY <1>1, <1>4, <2>1, RestoredHolds
  <2> QED  BY <1>1, <2>2, <2>3, IngestStep
<1>5. ASSUME UNCHANGED <<phrases, gone>> PROVE IInv'
  <2>1. RowsOK'  BY <1>1, <1>3, <1>5 DEF IInv, RowsOK
  <2> QED  BY <1>1, <1>5, <2>1, SameTables, IngestStep
<1> QED  BY <1>2, <1>4, <1>5

-----------------------------------------------------------------------------
(* The theorems *)

LEMMA HandleHolds ==
    ASSUME IInv, NEW c \in Containers, Handle(c)
    PROVE  IInv'
BY AskingHolds, DeleteLearningHolds, UpdateDeviceHolds, DeleteDeviceHolds, DeleteSceneHolds DEF Handle

LEMMA ContainerHolds ==
    ASSUME IInv, NEW c \in Containers,
           \/ Handle(c) \/ LoadsCatalog(c) \/ LoadsLearned(c) \/ LoadsScenes(c)
           \/ Learn(c) \/ CreateDevice(c) \/ MatchScene(c) \/ HandleScene(c)
           \/ HandleDeviceCommand(c) \/ AgentDevice(c) \/ AgentScene(c)
           \/ ListDevices(c) \/ ListScenes(c)
           \/ Save(c) \/ Count(c) \/ Answer(c) \/ Dies(c)
    PROVE  IInv'
<1>1. ListDevices(c) \/ ListScenes(c) => IInv'  BY EndsHolds DEF ListDevices, ListScenes
<1>2. Handle(c) \/ LoadsCatalog(c) \/ LoadsLearned(c) \/ LoadsScenes(c) => IInv'
  BY HandleHolds, LoadsCatalogHolds, LoadsLearnedHolds, LoadsScenesHolds
<1>3. Learn(c) \/ CreateDevice(c) \/ MatchScene(c) \/ HandleScene(c) => IInv'
  BY LearnHolds, CreateDeviceHolds, MatchSceneHolds, HandleSceneHolds
<1>4. HandleDeviceCommand(c) \/ AgentDevice(c) \/ AgentScene(c) => IInv'
  BY HandleDeviceCommandHolds, AgentDeviceHolds, AgentSceneHolds
<1>5. Save(c) \/ Count(c) \/ Answer(c) \/ Dies(c) => IInv'
  BY SaveHolds, CountHolds, AnswerHolds, DiesHolds
<1> QED  BY <1>1, <1>2, <1>3, <1>4, <1>5

LEMMA StepHolds == IInv /\ [Next]_vars => IInv'
<1>1. ASSUME IInv, UNCHANGED vars PROVE IInv'
  <2>1. UNCHANGED <<registry, phrases, deleted, cache, request, enrich, requests, gone>>
    BY <1>1 DEF vars
  <2>2. RowsOK'  BY <1>1, <2>1 DEF IInv, RowsOK
  <2> QED  BY <1>1, <2>1, <2>2, SameTables, IngestStep
<1>2. ASSUME IInv, Next PROVE IInv'
  BY <1>2, ContainerHolds, SyncsHolds, EnrichHolds, GenerateHolds DEF Next
<1> QED  BY <1>1, <1>2

\* The inductive invariant: every request is at a step with the fields that step reads,
\* what a container keeps and what it is still to save is about devices that have a row,
\* and what was deleted and not brought back is gone from the tables and from the caches
\* of the container that deleted it.
THEOREM Invariant == Spec => []IInv
<1>1. Init => IInv  BY InitHolds
<1>2. IInv /\ [Next]_vars => IInv'  BY StepHolds
<1> QED  BY <1>1, <1>2, PTL DEF Spec

\* Whatever the containers and the ingestion do, rows and caches keep the values the
\* code gives them, and a phrase is only ever saved for a device of the registry.
THEOREM TypeCorrect == Spec => []TypeOK
<1>1. IInv => TypeOK
  <2> SUFFICES ASSUME IInv PROVE TypeOK
    OBVIOUS
  <2>1. ASSUME NEW c \in Containers
        PROVE  /\ cache[c].catalog = NotRead \/ cache[c].catalog \subseteq Devices
               /\ cache[c].learned = NotRead \/ cache[c].learned \subseteq Learnings
               /\ cache[c].scenes \in {NotRead, Unreadable} \/ cache[c].scenes \subseteq Scenes
    <3>1. cache[c] \in Caches  BY CacheFields
    <3> QED  BY <3>1 DEF Caches
  <2>2. ASSUME NEW c \in Containers, Is(c, "saving")
        PROVE  request[c].todo \subseteq { k \in Learnings : registry[k[1]] # NoRow }
    <3>1. request[c] \in Saving /\ TodoKnown(request[c])  BY <2>2, RequestFields
    <3>2. request[c].todo \in SUBSET Learnings  BY <3>1 DEF Saving
    <3> QED  BY <2>2, <3>1, <3>2 DEF TodoKnown, Is
  <2>3. requests \in 0 .. MaxRequests  BY RequestsStay
  <2> QED  BY <2>1, <2>2, <2>3, RowFields DEF TypeOK
<1> QED  BY <1>1, Invariant, PTL

\* A container keeps in no cache a device, a phrase or a scene that it deleted itself and
\* nobody brought back: its own cache forgets what it deletes, and a later read of the
\* tables does not find it.  The deleted scenes are exempt when their read failed: the
\* container then has none, and offers them all.  For any number of containers and requests.
THEOREM OwnDeletes == Spec => []OwnDeletesSeen
<1>1. IInv => OwnDeletesSeen
  BY DEF IInv, SeenOK, Unseen, OwnDeletesSeen, Cataloged
<1> QED  BY <1>1, Invariant, PTL

\* A phrase someone taught with POST /learn outlives every save, every count and every
\* generated phrase that races it; only a DELETE /learnings takes it away.
THEOREM ManualStand == Spec => ManualPhrasesStand
<1> DEFINE Stands(k) ==
        phrases[k] = "manual" =>
            \/ phrases'[k] = "manual"
            \/ phrases'[k] = NoRow /\ \E c \in Containers : k \in gone'[c]
<1>1. ASSUME IInv, Next, NEW k \in Learnings PROVE Stands(k)
  <2>1. phrases' = phrases => Stands(k)  OBVIOUS
  <2>2. ASSUME NEW j \in Learnings, phrases' = [phrases EXCEPT ![j] = "manual"] PROVE Stands(k)
    BY <2>2, <1>1, PhraseWritten
  <2>3. ASSUME NEW j \in Learnings, NEW row \in {"learned", "generated", "only counted"},
               phrases[j] = NoRow, phrases' = [phrases EXCEPT ![j] = row]
        PROVE  Stands(k)
    BY <2>3, <1>1, PhraseWritten, Sorts
  <2>4. ASSUME NEW c \in Containers, Handle(c) PROVE Stands(k)
    <3>1. ASSUME NEW j \in Learnings, DeleteLearning(c, j), phrases' # phrases PROVE Stands(k)
      <4>1. phrases' = [phrases EXCEPT ![j] = NoRow] /\ gone' = [gone EXCEPT ![c] = @ \cup {j}]
        BY <3>1 DEF DeleteLearning
      <4>2. \A i \in Learnings : i # j => phrases'[i] = phrases[i]  BY <1>1, <4>1, PhraseWritten
      <4>3. phrases'[j] = NoRow  BY <1>1, <4>1, PhraseWritten
      <4>4. j \in gone'[c]  BY <1>1, <4>1, GoneFields
      <4> QED  BY <4>2, <4>3, <4>4
    <3> QED  BY <2>1, <2>4, <3>1 DEF Handle, UpdateDevice, DeleteDevice, DeleteScene
  <2>5. ASSUME NEW c \in Containers, Learn(c), phrases' # phrases PROVE Stands(k)
    <3>1. PICK j : j = <<request[c].device, request[c].phrase>> /\ phrases' = [phrases EXCEPT ![j] = "manual"]
      BY <2>5 DEF Learn, SaveManualPhrase
    <3>2. j \in Learnings  BY <1>1, <2>5, <3>1, RequestFields DEF Learn, Is, Learnings
    <3> QED  BY <2>2, <3>1, <3>2
  <2>6. ASSUME NEW c \in Containers, Save(c), phrases' # phrases PROVE Stands(k)
    <3>1. request[c] \in Saving  BY <1>1, <2>6, RequestFields DEF Save
    <3>2. PICK j \in request[c].todo : phrases[j] = NoRow /\ phrases' = [phrases EXCEPT ![j] = "learned"]
      BY <2>6 DEF Save, Absent
    <3>3. j \in Learnings  BY <3>1 DEF Saving
    <3> QED  BY <2>3, <3>2, <3>3
  <2>7. ASSUME NEW c \in Containers, Count(c), phrases' # phrases PROVE Stands(k)
    <3>1. request[c].key \in Learnings  BY <1>1, <2>7, RequestFields DEF Count
    <3>2. PICK j \in Learnings : phrases' = [phrases EXCEPT ![j] = IF @ = NoRow THEN "only counted" ELSE @]
      BY <2>7, <3>1 DEF Count
    <3>3. CASE phrases[j] = NoRow
      <4>1. phrases' = [phrases EXCEPT ![j] = "only counted"]  BY <3>2, <3>3
      <4> QED  BY <2>3, <3>3, <4>1
    <3>4. CASE phrases[j] # NoRow
      <4>1. phrases' = phrases  BY <1>1, <3>2, <3>4, RowFields
      <4> QED  BY <2>1, <4>1
    <3> QED  BY <3>3, <3>4
  <2>8. ASSUME Generate, phrases' # phrases PROVE Stands(k)
    <3>1. PICK j \in enrich : phrases[j] = NoRow /\ phrases' = [phrases EXCEPT ![j] = "generated"]
      BY <2>8 DEF Generate, Absent
    <3>2. j \in Learnings  BY <1>1, <3>1, RowFields
    <3> QED  BY <2>3, <3>1, <3>2
  <2>9. ASSUME NEW c \in Containers,
               \/ LoadsCatalog(c) \/ LoadsLearned(c) \/ LoadsScenes(c) \/ CreateDevice(c)
               \/ MatchScene(c) \/ HandleScene(c) \/ HandleDeviceCommand(c)
               \/ AgentDevice(c) \/ AgentScene(c) \/ ListDevices(c) \/ ListScenes(c)
               \/ Answer(c) \/ Dies(c)
        PROVE  phrases' = phrases
    BY <2>9 DEF LoadsCatalog, LoadsLearned, LoadsScenes, CreateDevice, MatchScene, HandleScene,
                HandleDeviceCommand, AgentDevice, AgentScene, ListDevices, ListScenes, Answer, Dies,
                StepsOnly
  <2>10. ASSUME NEW d \in Devices, Syncs(d) \/ Enrich(d) PROVE phrases' = phrases
    BY <2>10 DEF Syncs, Enrich
  <2> QED  BY <1>1, <2>1, <2>4, <2>5, <2>6, <2>7, <2>8, <2>9, <2>10 DEF Next
<1>2. IInv /\ [Next]_vars => [\A k \in Learnings : Stands(k)]_vars  BY <1>1
<1> QED  BY <1>2, Invariant, PTL DEF Spec, ManualPhrasesStand

-----------------------------------------------------------------------------
(* The registry below the catalog: the ingestion runs that Syncs stands for *)
(* are those of Registry, for any devices, providers and runs.               *)

Found == UNION { [D -> Row] : D \in SUBSET Provided }

RunRecords ==
    {IdleRun}
    \cup [pc : {"discovering"}, provider : Providers, mode : {"full", "delta"}]
    \cup [pc : {"reading", "writing"}, provider : Providers, mode : {"full", "delta"},
          found : Found, left : SUBSET Provided, differs : SUBSET Provided,
          missing : SUBSET Provided]

\* What is left to write was found, and what is missing was not and has a row.
WorkOK(q) ==
    q.pc \in {"reading", "writing"} =>
        /\ DOMAIN q.found \subseteq { d \in Provided : ProviderOf[d] = q.provider }
        /\ q.differs \subseteq q.left /\ q.left \subseteq DOMAIN q.found
        /\ \A d \in q.missing : /\ d \notin DOMAIN q.found /\ ProviderOf[d] = q.provider
                                /\ rows[<<d, q.provider>>] # NoItem
        /\ q.mode = "delta" => q.missing = {} /\ q.pc = "writing"
        /\ q.pc = "reading" => q.left = DOMAIN q.found /\ q.missing = {}

\* What was found and is written stands as it was found; of the rest, what is active is
\* still to be marked.
Agrees(q) ==
    q.pc = "writing" =>
        \A d \in Provided : ProviderOf[d] = q.provider =>
            /\ d \in DOMAIN q.found \ q.left => rows[<<d, q.provider>>] = q.found[d]
            /\ d \notin DOMAIN q.found =>
                  (HasStatus(<<d, q.provider>>, "active") <=> d \in q.missing)

CleanAt(q) == q # IdleRun /\ q.mode = "full" /\ Agrees(q)

TableOK ==
    /\ cloud \in [Provided -> [there : BOOLEAN, online : BOOLEAN, name : Identities]]
    /\ rows \in [Keys -> Row \cup {NoItem}]

RunsOK == run \in [Runs -> RunRecords] /\ \A r \in Runs : WorkOK(run[r])

CleanOK == clean \subseteq Runs /\ \A r \in clean : CleanAt(run[r])

SyncInv == TableOK /\ RunsOK /\ CleanOK

LEMMA SyncInit == RegistryInit => SyncInv
<1> SUFFICES ASSUME RegistryInit PROVE SyncInv
  OBVIOUS
<1>1. cloud \in [Provided -> [there : BOOLEAN, online : BOOLEAN, name : Identities]]
  <2> DEFINE atFirst == { [there |-> TRUE, online |-> TRUE, name |-> n] : n \in Identities }
  <2>1. cloud \in [Provided -> atFirst]  BY DEF RegistryInit
  <2>2. \A c \in atFirst : c \in [there : BOOLEAN, online : BOOLEAN, name : Identities]
    <3> SUFFICES ASSUME NEW n \in Identities
                 PROVE  [there |-> TRUE, online |-> TRUE, name |-> n]
                            \in [there : BOOLEAN, online : BOOLEAN, name : Identities]
      OBVIOUS
    <3> QED  OBVIOUS
  <2> HIDE DEF atFirst
  <2> QED  BY <2>1, <2>2
<1>2. rows \in [Keys -> Row \cup {NoItem}]  BY DEF RegistryInit
<1>3. RunsOK  BY DEF RegistryInit, RunsOK, RunRecords, WorkOK, IdleRun
<1>4. CleanOK  BY DEF RegistryInit, CleanOK
<1> QED  BY <1>1, <1>2, <1>3, <1>4 DEF SyncInv, TableOK

LEMMA HasNoRow == NoItem \notin Row
BY RegistryAssumption DEF Row

LEMMA KeysAre ==
    ASSUME NEW d \in Provided
    PROVE  <<d, ProviderOf[d]>> \in Keys /\ <<d, "manual">> \in Keys
BY DEF Keys

\* A run goes on and writes nothing.
LEMMA RunStep ==
    ASSUME SyncInv, NEW r \in Runs, NEW q \in RunRecords, WorkOK(q),
           run' = [run EXCEPT ![r] = q], UNCHANGED <<cloud, rows>>,
           clean' \subseteq clean \cup {r}, r \in clean' => CleanAt(q)
    PROVE  SyncInv'
<1>1. TableOK'  BY DEF SyncInv, TableOK
<1>2. \A s \in Runs : run'[s] = IF s = r THEN q ELSE run[s]  BY DEF SyncInv, RunsOK
<1>3. RunsOK'
  <2>1. run' \in [Runs -> RunRecords]  BY DEF SyncInv, RunsOK
  <2>2. ASSUME NEW s \in Runs PROVE WorkOK(run[s])'
    <3>1. WorkOK(run'[s])  BY <1>2 DEF SyncInv, RunsOK
    <3> QED  BY <3>1 DEF WorkOK
  <2> QED  BY <2>1, <2>2 DEF RunsOK
<1>4. CleanOK'
  <2>1. clean' \subseteq Runs  BY DEF SyncInv, CleanOK
  <2>2. ASSUME NEW s \in clean' PROVE CleanAt(run[s])'
    <3>1. CleanAt(run'[s])  BY <1>2, <2>1 DEF SyncInv, CleanOK
    <3> QED  BY <3>1 DEF CleanAt, Agrees, HasStatus
  <2> QED  BY <2>1, <2>2 DEF CleanOK
<1> QED  BY <1>1, <1>3, <1>4 DEF SyncInv

\* A row is written, and no other run is clean any more.
LEMMA WriteStep ==
    ASSUME SyncInv, NEW k \in Keys, NEW row \in Row, rows' = [rows EXCEPT ![k] = row],
           UNCHANGED cloud, run' \in [Runs -> RunRecords],
           \A s \in Runs : WorkOK(run'[s]),
           clean' \subseteq Runs, \A s \in clean' : CleanAt(run[s])'
    PROVE  SyncInv'
<1>1. TableOK'  BY DEF SyncInv, TableOK
<1>2. \A j \in Keys : rows[j] # NoItem => rows'[j] # NoItem
  BY HasNoRow DEF SyncInv, TableOK
<1>3. ASSUME NEW s \in Runs PROVE WorkOK(run[s])'
  <2>1. WorkOK(run'[s]) /\ run'[s] \in RunRecords  OBVIOUS
  <2>2. PICK q \in RunRecords : q = run'[s] /\ WorkOK(q)  BY <2>1
  <2>3. ASSUME q.pc \in {"reading", "writing"}, NEW d \in q.missing
        PROVE  rows'[<<d, q.provider>>] # NoItem
    <3>1. q.missing \in SUBSET Provided  BY <2>3 DEF RunRecords, IdleRun
    <3>2. ProviderOf[d] = q.provider /\ rows[<<d, q.provider>>] # NoItem  BY <2>2, <2>3 DEF WorkOK
    <3> QED  BY <1>2, <3>1, <3>2, KeysAre DEF SyncInv
  <2>4. WorkOK(q)'  BY <2>2, <2>3 DEF WorkOK
  <2> QED  BY <2>2, <2>4 DEF WorkOK
<1> QED  BY <1>1, <1>3 DEF SyncInv, RunsOK, CleanOK

-----------------------------------------------------------------------------
(* Discovery *)

LEMMA RecordsAreRows ==
    ASSUME SyncInv, NEW d \in Provided
    PROVE  Records(d) \subseteq Row
<1>1. cloud[d].name \in Identities  BY DEF SyncInv, TableOK
<1>2. Reported(d) \subseteq Row  BY <1>1 DEF Reported, Row
<1>3. Listed(d) \subseteq Row  BY <1>1 DEF Listed, Row
<1>4. /\ Kasa(d) \subseteq Row
      /\ SwitchBot(d) \subseteq Row
      /\ Govee(d) \subseteq Row
      /\ Ring(d) \subseteq Row
      /\ MyQ(d) \subseteq Row
      /\ Wyze(d) \subseteq Row
  BY <1>2, <1>3 DEF Kasa, SwitchBot, Govee, Ring, MyQ, Wyze
<1>5. ProviderOf[d] \in {"kasa", "switchbot", "govee", "ring", "myq", "wyze"}
  BY RegistryAssumption DEF Providers
<1> QED  BY <1>4, <1>5 DEF Records

LEMMA ListingIs ==
    ASSUME SyncInv, NEW p
    PROVE  /\ DOMAIN Listing(p) \subseteq { d \in Provided : ProviderOf[d] = p }
           /\ \A d \in DOMAIN Listing(p) : Listing(p)[d] \in Row
           /\ Listing(p) \in Found
<1> DEFINE D == { x \in Provided : ProviderOf[x] = p /\ cloud[x].there /\ Records(x) # {} }
           listing == [d \in D |-> CHOOSE r \in Records(d) : TRUE]
<1>1. Listing(p) = listing  BY DEF Listing
<1>2. ASSUME NEW d \in D PROVE listing[d] \in Row
  <2>1. Records(d) # {} /\ Records(d) \subseteq Row  BY RecordsAreRows
  <2> QED  BY <2>1
<1>3. listing \in [D -> Row]  BY <1>2
<1>4. D \in SUBSET Provided /\ DOMAIN listing = D  OBVIOUS
<1>5. D \subseteq { d \in Provided : ProviderOf[d] = p }  OBVIOUS
<1> HIDE DEF D, listing
<1>6. listing \in Found  BY <1>3, <1>4 DEF Found
<1> QED  BY <1>1, <1>2, <1>4, <1>5, <1>6

LEMMA RunForm ==
    ASSUME SyncInv, NEW r \in Runs
    PROVE  /\ run[r] \in RunRecords /\ WorkOK(run[r])
           /\ run[r].pc = "discovering" =>
                 run[r] \in [pc : {"discovering"}, provider : Providers, mode : {"full", "delta"}]
           /\ run[r].pc \in {"reading", "writing"} =>
                 run[r] \in [pc : {"reading", "writing"}, provider : Providers,
                             mode : {"full", "delta"}, found : Found, left : SUBSET Provided,
                             differs : SUBSET Provided, missing : SUBSET Provided]
           /\ r \in clean => CleanAt(run[r])
<1>1. run[r] \in RunRecords /\ WorkOK(run[r]) /\ (r \in clean => CleanAt(run[r]))
  BY DEF SyncInv, RunsOK, CleanOK
<1> QED  BY <1>1 DEF RunRecords, IdleRun

LEMMA DiscoveredHolds ==
    ASSUME SyncInv, NEW r \in Runs, run[r].pc = "discovering", NEW found \in Found,
           DOMAIN found \subseteq { d \in Provided : ProviderOf[d] = run[r].provider },
           Discovered(r, found), UNCHANGED <<cloud, rows>>, clean' \subseteq clean
    PROVE  SyncInv'
<1> DEFINE full == run[r].mode = "full"
           q == [pc |-> IF full THEN "reading" ELSE "writing",
                 provider |-> run[r].provider, mode |-> run[r].mode, found |-> found,
                 left |-> DOMAIN found, differs |-> {}, missing |-> {}]
<1>1. run[r] \in [pc : {"discovering"}, provider : Providers, mode : {"full", "delta"}]
  BY RunForm
<1>2. run' = [run EXCEPT ![r] = q]  BY DEF Discovered
<1>3. DOMAIN found \in SUBSET Provided  OBVIOUS
<1>4. q \in RunRecords  BY <1>1, <1>3 DEF RunRecords
<1>5. WorkOK(q)  BY <1>1, <1>3 DEF WorkOK
<1>6. r \in clean' => CleanAt(q)
  <2>1. r \in clean' => full  BY RunForm DEF CleanAt
  <2>2. full => CleanAt(q)  BY DEF CleanAt, Agrees, IdleRun
  <2> QED  BY <2>1, <2>2
<1> HIDE DEF q
<1> QED  BY <1>2, <1>4, <1>5, <1>6, RunStep

LEMMA DiscoversHolds ==
    ASSUME SyncInv, NEW r \in Runs, Discovers(r) \/ DiscoversLess(r)
    PROVE  SyncInv'
<1> DEFINE all == Listing(run[r].provider)
<1>1. PICK D \in SUBSET DOMAIN all :
        Discovered(r, all) \/ Discovered(r, [d \in D |-> all[d]])
  BY DEF Discovers, DiscoversLess, Restrict
<1>2. /\ run[r].pc = "discovering" /\ UNCHANGED <<cloud, rows>>
      /\ clean' \subseteq clean
  BY DEF Discovers, DiscoversLess
<1>3. /\ DOMAIN all \subseteq { d \in Provided : ProviderOf[d] = run[r].provider }
      /\ \A d \in DOMAIN all : all[d] \in Row
      /\ all \in Found
  BY ListingIs
<1> HIDE DEF all
<1> DEFINE some == [d \in D |-> all[d]]
<1>4. some \in [D -> Row] /\ D \in SUBSET Provided /\ DOMAIN some = D  BY <1>3
<1> HIDE DEF some
<1>5. some \in Found  BY <1>4 DEF Found
<1>6. Discovered(r, all) \/ Discovered(r, some)  BY <1>1 DEF some
<1> QED  BY <1>2, <1>3, <1>4, <1>5, <1>6, DiscoveredHolds

LEMMA StartsHolds ==
    ASSUME SyncInv, NEW r \in Runs, NEW p \in Range(ProviderOf), NEW mode \in {"full", "delta"},
           Starts(r, p, mode)
    PROVE  SyncInv'
<1> DEFINE q == [pc |-> "discovering", provider |-> p, mode |-> mode]
<1>1. p \in Providers  BY RegistryAssumption DEF Range
<1>2. q \in RunRecords /\ WorkOK(q)  BY <1>1 DEF RunRecords, WorkOK
<1>3. run' = [run EXCEPT ![r] = q]  BY DEF Starts
<1>4. r \notin clean
  <2>1. run[r] = IdleRun  BY DEF Starts
  <2> QED  BY <2>1, RunForm DEF CleanAt
<1>5. clean' \subseteq clean \cup {r} /\ (r \in clean' => mode = "full")  BY <1>4 DEF Starts
<1>6. mode = "full" => CleanAt(q)  BY DEF CleanAt, Agrees, IdleRun
<1> HIDE DEF q
<1> QED  BY <1>2, <1>3, <1>5, <1>6, RunStep DEF Starts

LEMMA ReadsHolds ==
    ASSUME SyncInv, NEW r \in Runs, ReadsTable(r) \/ ReadsNothing(r)
    PROVE  SyncInv'
<1> DEFINE actives == ActiveIds(run[r].provider)
<1>1. PICK ids \in {actives, {}} : /\ ReadsActive(r, ids)
                                   /\ clean' \subseteq clean
                                   /\ r \in clean' => ids = actives
  BY DEF ReadsTable, ReadsNothing
<1> DEFINE q == [run[r] EXCEPT !.pc = "writing", !.differs = run[r].left, !.missing = ids \ run[r].left]
<1>2. run' = [run EXCEPT ![r] = q]  BY <1>1 DEF ReadsActive, SyncInv, RunsOK
<1>3. run[r].pc = "reading" /\ UNCHANGED <<cloud, rows>>  BY <1>1 DEF ReadsActive
<1>4. /\ run[r] \in [pc : {"reading", "writing"}, provider : Providers,
                     mode : {"full", "delta"}, found : Found, left : SUBSET Provided,
                     differs : SUBSET Provided, missing : SUBSET Provided]
      /\ WorkOK(run[r])
  BY <1>3, RunForm
<1>5. actives \in SUBSET Provided  BY DEF ActiveIds
<1>6. \A d \in actives : ProviderOf[d] = run[r].provider /\ rows[<<d, run[r].provider>>] # NoItem
  BY DEF ActiveIds, HasStatus
<1>7. \A d \in Provided : ProviderOf[d] = run[r].provider =>
          (HasStatus(<<d, run[r].provider>>, "active") <=> d \in actives)
  BY DEF ActiveIds
<1> HIDE DEF actives
<1>8. q \in RunRecords  BY <1>1, <1>4, <1>5 DEF RunRecords
<1>9. WorkOK(q)  BY <1>1, <1>3, <1>4, <1>6 DEF WorkOK
<1>10. r \in clean' => CleanAt(q)
  <2> SUFFICES ASSUME r \in clean' PROVE CleanAt(q)
    OBVIOUS
  <2>1. run[r].mode = "full" /\ ids = actives  BY <1>1, RunForm DEF CleanAt
  <2>2. q.mode = "full" /\ q.pc = "writing" /\ q.provider = run[r].provider
        /\ q.found = run[r].found /\ q.left = run[r].left /\ q.missing = ids \ run[r].left
    BY <1>4, <2>1
  <2>3. run[r].left = DOMAIN run[r].found  BY <1>3, <1>4 DEF WorkOK
  <2>4. q # IdleRun  BY <2>2 DEF IdleRun
  <2> HIDE DEF q
  <2> QED  BY <1>7, <2>1, <2>2, <2>3, <2>4 DEF CleanAt, Agrees
<1> HIDE DEF q
<1> QED  BY <1>1, <1>2, <1>3, <1>8, <1>9, <1>10, RunStep

-----------------------------------------------------------------------------
(* Writes *)

\* A run in the middle of its writes.
LEMMA WorkForm ==
    ASSUME SyncInv, NEW r \in Runs, run[r].pc = "writing"
    PROVE  /\ run[r] \in [pc : {"reading", "writing"}, provider : Providers,
                          mode : {"full", "delta"}, found : Found, left : SUBSET Provided,
                          differs : SUBSET Provided, missing : SUBSET Provided]
           /\ WorkOK(run[r])
           /\ \A d \in DOMAIN run[r].found : run[r].found[d] \in Row
<1>1. /\ run[r] \in [pc : {"reading", "writing"}, provider : Providers,
                     mode : {"full", "delta"}, found : Found, left : SUBSET Provided,
                     differs : SUBSET Provided, missing : SUBSET Provided]
      /\ WorkOK(run[r])
  BY RunForm
<1>2. run[r].found \in Found  BY <1>1
<1>3. PICK D \in SUBSET Provided : run[r].found \in [D -> Row]  BY <1>2 DEF Found
<1> QED  BY <1>1, <1>3

\* A delta sync looks at one row, or fails to, and a step of any sync fails.
LEMMA LooksHolds ==
    ASSUME SyncInv, NEW r \in Runs, NEW d,
           \/ ReadsFingerprint(r, d) \/ CannotRead(r, d)
           \/ UpsertFails(r, d) \/ MarkFails(r, d)
    PROVE  SyncInv'
<1>1. run[r].pc = "writing" /\ UNCHANGED <<cloud, rows>>
  BY DEF ReadsFingerprint, CannotRead, UpsertFails, MarkFails
<1>2. clean' \subseteq clean /\ r \notin clean'
  <2>1. run[r].mode = "delta" => r \notin clean  BY RunForm DEF CleanAt
  <2> QED  BY <2>1 DEF ReadsFingerprint, CannotRead, UpsertFails, MarkFails
<1>3. /\ run[r] \in [pc : {"reading", "writing"}, provider : Providers,
                     mode : {"full", "delta"}, found : Found, left : SUBSET Provided,
                     differs : SUBSET Provided, missing : SUBSET Provided]
      /\ WorkOK(run[r])
  BY <1>1, WorkForm
<1> DEFINE some == [run[r] EXCEPT !.differs = {d}]
           same == [run[r] EXCEPT !.left = @ \ {d}]
           less == [run[r] EXCEPT !.left = @ \ {d}, !.differs = @ \ {d}]
           fewer == [run[r] EXCEPT !.missing = @ \ {d}]
<1>4. \/ run' = [run EXCEPT ![r] = some] /\ d \in run[r].left
      \/ run' = [run EXCEPT ![r] = same] /\ run[r].differs = {}
      \/ run' = [run EXCEPT ![r] = less]
      \/ run' = [run EXCEPT ![r] = fewer]
  BY DEF ReadsFingerprint, CannotRead, UpsertFails, MarkFails, SyncInv, RunsOK
<1>5. d \in run[r].left => some \in RunRecords /\ WorkOK(some)
  BY <1>1, <1>3 DEF RunRecords, WorkOK
<1>6. run[r].differs = {} => same \in RunRecords /\ WorkOK(same)
  BY <1>1, <1>3 DEF RunRecords, WorkOK
<1>7. less \in RunRecords /\ WorkOK(less)  BY <1>1, <1>3 DEF RunRecords, WorkOK
<1>8. fewer \in RunRecords /\ WorkOK(fewer)  BY <1>1, <1>3 DEF RunRecords, WorkOK
<1> HIDE DEF some, same, less, fewer
<1> QED  BY <1>1, <1>2, <1>4, <1>5, <1>6, <1>7, <1>8, RunStep

LEMMA SyncEndsHolds ==
    ASSUME SyncInv, NEW r \in Runs, RunEnds(r) \/ RunDies(r)
    PROVE  SyncInv'
<1>1. /\ run' = [run EXCEPT ![r] = IdleRun] /\ UNCHANGED <<cloud, rows>>
      /\ clean' = clean \ {r}
  BY DEF RunEnds, RunDies
<1>2. IdleRun \in RunRecords /\ WorkOK(IdleRun)  BY DEF RunRecords, WorkOK, IdleRun
<1> QED  BY <1>1, <1>2, RunStep

LEMMA UpsertsHolds ==
    ASSUME SyncInv, NEW r \in Runs, NEW d \in Provided, Upserts(r, d)
    PROVE  SyncInv'
<1> DEFINE q == [run[r] EXCEPT !.left = @ \ {d}, !.differs = @ \ {d}]
           k == <<d, run[r].provider>>
           row == run[r].found[d]
<1>1. run[r].pc = "writing" /\ d \in run[r].differs  BY DEF Upserts
<1>2. /\ run[r] \in [pc : {"reading", "writing"}, provider : Providers,
                     mode : {"full", "delta"}, found : Found, left : SUBSET Provided,
                     differs : SUBSET Provided, missing : SUBSET Provided]
      /\ WorkOK(run[r])
      /\ \A x \in DOMAIN run[r].found : run[r].found[x] \in Row
  BY <1>1, WorkForm
<1>3. d \in DOMAIN run[r].found /\ ProviderOf[d] = run[r].provider  BY <1>1, <1>2 DEF WorkOK
<1>4. row \in Row  BY <1>2, <1>3
<1>5. k \in Keys  BY <1>3, KeysAre DEF SyncInv
<1>6. q \in RunRecords /\ WorkOK(q)  BY <1>1, <1>2 DEF RunRecords, WorkOK
<1>7. /\ q.pc = "writing" /\ q.mode = run[r].mode /\ q.provider = run[r].provider
      /\ q.found = run[r].found /\ q.left = run[r].left \ {d} /\ q.missing = run[r].missing
  BY <1>1, <1>2
<1>8. run' = [run EXCEPT ![r] = q]  BY DEF Upserts, SyncInv, RunsOK
<1>9. rows' = [rows EXCEPT ![k] = row] /\ clean' = clean \cap {r} /\ UNCHANGED cloud
  BY DEF Upserts, Writes, KeyOf
<1> HIDE DEF q, row
<1>10. run' \in [Runs -> RunRecords] /\ \A s \in Runs : run'[s] = IF s = r THEN q ELSE run[s]
  BY <1>6, <1>8 DEF SyncInv, RunsOK
<1>11. \A s \in Runs : WorkOK(run'[s])  BY <1>6, <1>10 DEF SyncInv, RunsOK
<1>12. ASSUME r \in clean PROVE CleanAt(run[r])'
  <2>0. run'[r].provider = run[r].provider  BY <1>7, <1>10
  <2>1. CleanAt(run[r])  BY <1>12, RunForm
  <2>2. /\ rows'[k] = row
        /\ \A x \in Provided : x # d /\ ProviderOf[x] = run[r].provider =>
              rows'[<<x, run[r].provider>>] = rows[<<x, run[r].provider>>]
    <3>1. \A x \in Provided : x # d => <<x, run[r].provider>> # k  OBVIOUS
    <3>2. \A x \in Provided : ProviderOf[x] = run[r].provider => <<x, run[r].provider>> \in Keys
      BY KeysAre DEF SyncInv
    <3> QED  BY <1>5, <1>9, <3>1, <3>2 DEF SyncInv, TableOK
  <2>3. q # IdleRun  BY <1>7 DEF IdleRun
  <2>4. ASSUME NEW x \in Provided, ProviderOf[x] = run[r].provider
        PROVE  /\ x \in DOMAIN run[r].found \ q.left => rows'[<<x, run[r].provider>>] = run[r].found[x]
               /\ x \notin DOMAIN run[r].found =>
                     (HasStatus(<<x, run[r].provider>>, "active")' <=> x \in run[r].missing)
    <3>1. /\ x \in DOMAIN run[r].found \ run[r].left => rows[<<x, run[r].provider>>] = run[r].found[x]
          /\ x \notin DOMAIN run[r].found =>
                (HasStatus(<<x, run[r].provider>>, "active") <=> x \in run[r].missing)
      BY <1>1, <2>1, <2>4 DEF CleanAt, Agrees
    <3>2. CASE x = d
      <4>1. x \in DOMAIN run[r].found  BY <1>3, <3>2
      <4>2. rows'[<<x, run[r].provider>>] = run[r].found[x]  BY <2>2, <3>2 DEF row
      <4> QED  BY <4>1, <4>2
    <3>3. CASE x # d
      <4>1. rows'[<<x, run[r].provider>>] = rows[<<x, run[r].provider>>]  BY <2>2, <2>4, <3>3
      <4>2. HasStatus(<<x, run[r].provider>>, "active")'
                <=> HasStatus(<<x, run[r].provider>>, "active")
        BY <4>1, <2>0 DEF HasStatus
      <4>3. x \in DOMAIN run[r].found \ q.left => x \in DOMAIN run[r].found \ run[r].left
        BY <1>7, <3>3
      <4> QED  BY <3>1, <4>1, <4>2, <4>3
    <3> QED  BY <3>2, <3>3
  <2>5. run'[r] = q  BY <1>10
  <2>6. q.mode = "full"  BY <1>7, <2>1 DEF CleanAt
  <2> QED  BY <1>7, <2>3, <2>4, <2>5, <2>6 DEF CleanAt, Agrees
<1>13. clean' \subseteq Runs /\ \A s \in clean' : CleanAt(run[s])'
  BY <1>9, <1>12
<1> QED  BY <1>4, <1>5, <1>9, <1>10, <1>11, <1>13, WriteStep

LEMMA MarksOfflineHolds ==
    ASSUME SyncInv, NEW r \in Runs, NEW d \in Provided, MarksOffline(r, d)
    PROVE  SyncInv'
<1> DEFINE q == [run[r] EXCEPT !.missing = @ \ {d}]
           k == <<d, run[r].provider>>
           row == [rows[k] EXCEPT !.status = "offline"]
<1>1. run[r].pc = "writing" /\ run[r].left = {} /\ d \in run[r].missing  BY DEF MarksOffline
<1>2. /\ run[r] \in [pc : {"reading", "writing"}, provider : Providers,
                     mode : {"full", "delta"}, found : Found, left : SUBSET Provided,
                     differs : SUBSET Provided, missing : SUBSET Provided]
      /\ WorkOK(run[r])
  BY <1>1, WorkForm
<1>3. d \notin DOMAIN run[r].found /\ ProviderOf[d] = run[r].provider /\ rows[k] # NoItem
  BY <1>1, <1>2 DEF WorkOK
<1>4. k \in Keys  BY <1>3, KeysAre DEF SyncInv
<1>5. row \in Row /\ row.status = "offline"
  <2>1. rows[k] \in Row  BY <1>3, <1>4 DEF SyncInv, TableOK
  <2> HIDE DEF k
  <2> QED  BY <2>1 DEF Row
<1>6. q \in RunRecords /\ WorkOK(q)  BY <1>1, <1>2 DEF RunRecords, WorkOK
<1>7. /\ q.pc = "writing" /\ q.mode = run[r].mode /\ q.provider = run[r].provider
      /\ q.found = run[r].found /\ q.left = run[r].left /\ q.missing = run[r].missing \ {d}
  BY <1>1, <1>2
<1>8. run' = [run EXCEPT ![r] = q]  BY DEF MarksOffline, SyncInv, RunsOK
<1>9. rows' = [rows EXCEPT ![k] = row] /\ clean' = clean \cap {r} /\ UNCHANGED cloud
  BY DEF MarksOffline, Writes, KeyOf
<1> HIDE DEF q, row
<1>10. run' \in [Runs -> RunRecords] /\ \A s \in Runs : run'[s] = IF s = r THEN q ELSE run[s]
  BY <1>6, <1>8 DEF SyncInv, RunsOK
<1>11. \A s \in Runs : WorkOK(run'[s])  BY <1>6, <1>10 DEF SyncInv, RunsOK
<1>12. ASSUME r \in clean PROVE CleanAt(run[r])'
  <2>0. run'[r].provider = run[r].provider  BY <1>7, <1>10
  <2>1. CleanAt(run[r])  BY <1>12, RunForm
  <2>2. /\ rows'[k] = row
        /\ \A x \in Provided : x # d /\ ProviderOf[x] = run[r].provider =>
              rows'[<<x, run[r].provider>>] = rows[<<x, run[r].provider>>]
    <3>1. \A x \in Provided : x # d => <<x, run[r].provider>> # k  OBVIOUS
    <3>2. \A x \in Provided : ProviderOf[x] = run[r].provider => <<x, run[r].provider>> \in Keys
      BY KeysAre DEF SyncInv
    <3> QED  BY <1>4, <1>9, <3>1, <3>2 DEF SyncInv, TableOK
  <2>3. q # IdleRun  BY <1>7 DEF IdleRun
  <2>4. ASSUME NEW x \in Provided, ProviderOf[x] = run[r].provider
        PROVE  /\ x \in DOMAIN run[r].found \ q.left => rows'[<<x, run[r].provider>>] = run[r].found[x]
               /\ x \notin DOMAIN run[r].found =>
                     (HasStatus(<<x, run[r].provider>>, "active")' <=> x \in q.missing)
    <3>1. /\ x \in DOMAIN run[r].found \ run[r].left => rows[<<x, run[r].provider>>] = run[r].found[x]
          /\ x \notin DOMAIN run[r].found =>
                (HasStatus(<<x, run[r].provider>>, "active") <=> x \in run[r].missing)
      BY <1>1, <2>1, <2>4 DEF CleanAt, Agrees
    <3>2. CASE x = d
      <4>1. x \notin DOMAIN run[r].found /\ x \notin q.missing  BY <1>3, <1>7, <3>2
      <4>2. rows'[<<x, run[r].provider>>].status = "offline"  BY <1>5, <2>2, <3>2
      <4> QED  BY <4>1, <4>2, <2>0 DEF HasStatus
    <3>3. CASE x # d
      <4>1. rows'[<<x, run[r].provider>>] = rows[<<x, run[r].provider>>]  BY <2>2, <2>4, <3>3
      <4>2. HasStatus(<<x, run[r].provider>>, "active")'
                <=> HasStatus(<<x, run[r].provider>>, "active")
        BY <4>1, <2>0 DEF HasStatus
      <4>3. q.left = run[r].left /\ (x \in q.missing <=> x \in run[r].missing)  BY <1>7, <3>3
      <4> QED  BY <3>1, <4>1, <4>2, <4>3
    <3> QED  BY <3>2, <3>3
  <2>5. run'[r] = q  BY <1>10
  <2>6. q.mode = "full"  BY <1>7, <2>1 DEF CleanAt
  <2> QED  BY <1>7, <2>3, <2>4, <2>5, <2>6 DEF CleanAt, Agrees
<1>13. clean' \subseteq Runs /\ \A s \in clean' : CleanAt(run[s])'
  BY <1>9, <1>12
<1> QED  BY <1>4, <1>5, <1>9, <1>10, <1>11, <1>13, WriteStep

\* Only the clouds change, or nothing does.
LEMMA CloudStep ==
    ASSUME SyncInv, UNCHANGED <<rows, run, clean>>,
           cloud' \in [Provided -> [there : BOOLEAN, online : BOOLEAN, name : Identities]]
    PROVE  SyncInv'
<1>1. TableOK'  BY DEF SyncInv, TableOK
<1>2. RunsOK'
  BY DEF SyncInv, RunsOK, WorkOK
<1>3. CleanOK'
  BY DEF SyncInv, CleanOK, CleanAt, Agrees, HasStatus
<1> QED  BY <1>1, <1>2, <1>3 DEF SyncInv

LEMMA SameSync == SyncInv /\ UNCHANGED <<cloud, rows, run, clean>> => SyncInv'
BY CloudStep DEF SyncInv, TableOK

LEMMA RequestsHold ==
    ASSUME SyncInv, RouteWrites
    PROVE  SyncInv'
<1>1. ASSUME NEW k \in Keys, NEW row \in Row, Writes(k, row, {}), UNCHANGED <<cloud, run>>
      PROVE  SyncInv'
  <2>1. rows' = [rows EXCEPT ![k] = row] /\ clean' = {}  BY <1>1 DEF Writes
  <2>2. run' \in [Runs -> RunRecords] /\ \A s \in Runs : WorkOK(run'[s])  BY <1>1 DEF SyncInv, RunsOK
  <2> QED  BY <1>1, <2>1, <2>2, WriteStep
<1>2. ASSUME NEW d \in Provided, Creates(d) PROVE SyncInv'
  <2>1. [status |-> "active", fp |-> NoItem] \in Row  BY DEF Row
  <2>2. <<d, "manual">> \in Keys  BY KeysAre DEF SyncInv
  <2> QED  BY <1>1, <1>2, <2>1, <2>2 DEF Creates
<1>3. ASSUME NEW k \in Keys, Deactivates(k) PROVE SyncInv'
  <2>1. rows[k] \in Row  BY <1>3 DEF Deactivates, SyncInv, TableOK
  <2>2. [rows[k] EXCEPT !.status = "inactive"] \in Row  BY <2>1 DEF Row
  <2> QED  BY <1>1, <1>3, <2>2 DEF Deactivates
<1>4. ASSUME NEW d \in Provided, Renames(d) PROVE SyncInv'
  <2>1. PICK n \in Identities : cloud' = [cloud EXCEPT ![d].name = n]  BY <1>4 DEF Renames
  <2>2. cloud' \in [Provided -> [there : BOOLEAN, online : BOOLEAN, name : Identities]]
    BY <2>1 DEF SyncInv, TableOK
  <2> QED  BY <1>4, <2>2, CloudStep DEF Renames
<1>5. PICK d \in Provided :
        \/ Creates(d) \/ Renames(d)
        \/ Deactivates(<<d, "manual">>) \/ Deactivates(<<d, ProviderOf[d]>>)
  BY DEF RouteWrites
<1>6. <<d, "manual">> \in Keys /\ <<d, ProviderOf[d]>> \in Keys
  BY KeysAre DEF SyncInv
<1> QED  BY <1>2, <1>3, <1>4, <1>5, <1>6

LEMMA CloudChangesHolds ==
    ASSUME SyncInv, NEW d \in Provided, CloudChanges(d)
    PROVE  SyncInv'
<1>1. PICK there \in BOOLEAN, online \in BOOLEAN, n \in Identities :
        cloud' = [cloud EXCEPT ![d] = [there |-> there, online |-> online, name |-> n]]
  BY DEF CloudChanges
<1>2. cloud' \in [Provided -> [there : BOOLEAN, online : BOOLEAN, name : Identities]]
  BY <1>1 DEF SyncInv, TableOK
<1> QED  BY <1>2, CloudStep DEF CloudChanges

LEMMA SyncStep == SyncInv /\ [RegistryNext]_(registryVars) => SyncInv'
<1> SUFFICES ASSUME SyncInv, [RegistryNext]_(registryVars) PROVE SyncInv'
  OBVIOUS
<1>1. ASSUME NEW r \in Runs, Goes(r) PROVE SyncInv'
  <2>1. CASE Discovers(r)  BY <2>1, DiscoversHolds
  <2>2. CASE ReadsTable(r)  BY <2>2, ReadsHolds
  <2>3. CASE RunEnds(r)  BY <2>3, SyncEndsHolds
  <2>4. ASSUME NEW d \in Provided,
               ReadsFingerprint(r, d) \/ Upserts(r, d) \/ MarksOffline(r, d)
        PROVE  SyncInv'
    BY <2>4, LooksHolds, UpsertsHolds, MarksOfflineHolds
  <2> QED  BY <1>1, <2>1, <2>2, <2>3, <2>4 DEF Goes
<1>2. ASSUME NEW r \in Runs, Fails(r) PROVE SyncInv'
  <2>1. CASE DiscoversLess(r)  BY <2>1, DiscoversHolds
  <2>2. CASE ReadsNothing(r)  BY <2>2, ReadsHolds
  <2>3. CASE RunDies(r)  BY <2>3, SyncEndsHolds
  <2>4. ASSUME NEW d \in Provided,
               CannotRead(r, d) \/ UpsertFails(r, d) \/ MarkFails(r, d)
        PROVE  SyncInv'
    BY <2>4, LooksHolds
  <2> QED  BY <1>2, <2>1, <2>2, <2>3, <2>4 DEF Fails
<1>3. ASSUME NEW r \in Runs, NEW p \in Range(ProviderOf), NEW mode \in {"full", "delta"},
             Starts(r, p, mode)
      PROVE  SyncInv'
  BY <1>3, StartsHolds
<1>4. CASE RouteWrites  BY <1>4, RequestsHold
<1>5. ASSUME NEW d \in Provided, CloudChanges(d) PROVE SyncInv'
  BY <1>5, CloudChangesHolds
<1>6. CASE UNCHANGED registryVars
  <2>1. UNCHANGED <<cloud, rows, run, clean>>  BY <1>6 DEF registryVars
  <2> QED  BY <2>1, SameSync
<1> QED  BY <1>1, <1>2, <1>3, <1>4, <1>5, <1>6 DEF RegistryNext

\* Every run found what it writes and marks, and one that is clean leaves its rows as its
\* listing says, whatever other runs and the routes do.
THEOREM SyncInvariant == RegistrySpec => []SyncInv
<1>1. RegistryInit => SyncInv  BY SyncInit
<1>2. SyncInv /\ [RegistryNext]_(registryVars) => SyncInv'  BY SyncStep
<1> QED  BY <1>1, <1>2, PTL DEF RegistrySpec

\* A full sync in which nothing fails and nobody else writes ends with exactly those rows of
\* its provider active that its listing calls active.
THEOREM SyncReconciles == RegistrySpec => []FullSyncReconciles
<1>1. SyncInv => FullSyncReconciles
  <2> SUFFICES ASSUME SyncInv, NEW r \in clean, AtEnd(r),
                      NEW d \in Provided, ProviderOf[d] = run[r].provider
               PROVE  HasStatus(<<d, run[r].provider>>, "active")
                          <=> d \in DOMAIN run[r].found /\ run[r].found[d].status = "active"
    BY DEF FullSyncReconciles, KeyOf
  <2>1. r \in Runs  BY DEF SyncInv, CleanOK
  <2>2. run[r].pc = "writing" /\ run[r].left = {} /\ run[r].missing = {}  BY DEF AtEnd
  <2>3. /\ d \in DOMAIN run[r].found => rows[<<d, run[r].provider>>] = run[r].found[d]
        /\ d \notin DOMAIN run[r].found => ~ HasStatus(<<d, run[r].provider>>, "active")
    BY <2>1, <2>2, RunForm DEF CleanAt, Agrees
  <2>4. \A x \in DOMAIN run[r].found : run[r].found[x] \in Row  BY <2>1, <2>2, WorkForm
  <2>5. CASE d \in DOMAIN run[r].found
    <3>1. run[r].found[d] # NoItem  BY <2>4, <2>5, HasNoRow
    <3> QED  BY <2>3, <2>5, <3>1 DEF HasStatus
  <2> QED  BY <2>3, <2>5
<1> QED  BY <1>1, SyncInvariant, PTL


\* A row is of the table's type, a run found devices of its provider and goes on with some
\* of them, and what it marks was not found and has a row.
THEOREM SyncTypeCorrect == RegistrySpec => []RegistryTypeOK
<1>1. SyncInv => RegistryTypeOK
  <2> SUFFICES ASSUME SyncInv PROVE RegistryTypeOK
    OBVIOUS
  <2>1. \A k \in Keys : rows[k] # NoItem => rows[k] \in Row  BY DEF SyncInv, TableOK
  <2>2. ASSUME NEW q \in RunRecords, WorkOK(q) PROVE RunTypeOK(q)
    <3>1. CASE q = IdleRun  BY <3>1 DEF RunTypeOK
    <3>2. CASE q # IdleRun /\ q.pc = "discovering"  BY <2>2, <3>2 DEF RunTypeOK, RunRecords
    <3>3. CASE q # IdleRun /\ q.pc # "discovering"
      <4>1. /\ q \in [pc : {"reading", "writing"}, provider : Providers, mode : {"full", "delta"},
                      found : Found, left : SUBSET Provided, differs : SUBSET Provided,
                      missing : SUBSET Provided]
        BY <3>3 DEF RunRecords
      <4>2. \A d \in DOMAIN q.found : q.found[d] \in Row  BY <4>1 DEF Found
      <4> QED  BY <2>2, <3>3, <4>1, <4>2 DEF RunTypeOK, WorkOK
    <3> QED  BY <3>1, <3>2, <3>3
  <2>3. \A r \in Runs : RunTypeOK(run[r])  BY <2>2 DEF SyncInv, RunsOK
  <2>4. clean \subseteq Runs  BY DEF SyncInv, CleanOK
  <2> QED  BY <2>1, <2>3, <2>4 DEF RegistryTypeOK
<1> QED  BY <1>1, SyncInvariant, PTL
=============================================================================
