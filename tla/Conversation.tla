---------------------------- MODULE Conversation ----------------------------
(***************************************************************************)
(* One conversation: text messages and HTTP requests (sms_handler,         *)
(* app._route_execute_conversational) that load the session, run an agent  *)
(* over it (agent_factory, bedrock_agent, gemini_agent) and save it whole  *)
(* (conversation_store), possibly several at once and over two providers   *)
(* whose histories have different shapes.                                  *)
(*                                                                         *)
(* A turn is its shape, its role, what it says and whether it calls tools  *)
(* or brings their results; wording, prompts and what the tools do are     *)
(* left out.  Any run may go to either provider: the internet probe that   *)
(* decides is cached for a minute in each container.                       *)
(***************************************************************************)
EXTENDS Naturals, SequencesExt

CONSTANTS
    Sms, Http,     \* the messages, by the way they come
    Resets,        \* the texts that are a reset keyword
    MaxRounds,     \* _MAX_TOOL_ROUNDS
    MaxDeliveries, \* bound: how many messages come, those that come again included
    AgentProvider, \* AGENT_PROVIDER: "auto", or one provider for every run
    Invocations

ASSUME ConversationAssumption ==
    /\ AgentProvider \in {"auto", "bedrock", "gemini"}
    /\ Sms \cap Http = {} /\ Resets \subseteq Sms
    /\ MaxRounds \in Nat \ {0} /\ MaxDeliveries \in Nat

Messages == Sms \cup Http
Providers == {"bedrock", "gemini"}

VARIABLES
    session,    \* the item: its turns; history: how the run that wrote it ended
    inv,        \* the invocations
    deliveries

vars == <<session, inv, deliveries>>

-----------------------------------------------------------------------------
(* Turns *)

\* A run ends with an answer; with an answer that has not a word; or cut off, at the
\* round limit or in the middle of its calls.
Endings == {"answered", "mute", "cut"}

Empty == [turns |-> <<>>, ending |-> "answered"]

UserTurn(p, text)      == [form |-> p, role |-> "user", text |-> text, call |-> FALSE, result |-> FALSE]
AssistantTurn(p, text) == [form |-> p, role |-> "assistant", text |-> text, call |-> FALSE, result |-> FALSE]
CallTurn(p, text)      == [form |-> p, role |-> "assistant", text |-> text, call |-> TRUE, result |-> FALSE]
ResultTurn(p)          == [form |-> p, role |-> "user", text |-> <<>>, call |-> FALSE, result |-> TRUE]

\* json.dumps(..., default=str): what the SDK's own objects become when saved.
Dumped(turns) ==
    [k \in DOMAIN turns |->
        IF turns[k].form = "gemini" /\ (turns[k].call \/ turns[k].result)
            THEN [turns[k] EXCEPT !.form = "string", !.text = <<>>] ELSE turns[k]]

Said(m)    == <<"said", m>>
Reply(m)   == <<"reply", m>>
Note       == <<"note">>

\* The elements of s that are in S, in order.
Keep(s, S) == FoldLeft(LAMBDA kept, x : IF x \in S THEN Append(kept, x) ELSE kept, <<>>, s)

Items == {Note} \cup { Said(m) : m \in Messages } \cup { Reply(m) : m \in Messages }

Turn ==
    [form : Providers \cup {"string"}, role : {"user", "assistant"}, text : Seq(Items),
     call : BOOLEAN, result : BOOLEAN]

\* The turns that say something: one that was dumped to a string does not.
TextTurns == { t \in Turn : t.text # <<>> }

\* Texts of one turn, or of two merged ones.
JoinTurn(p, acc, t) ==
    IF acc # <<>> /\ Last(acc).role = t.role
        THEN [acc EXCEPT ![Len(acc)].text = @ \o t.text]
        ELSE Append(acc, IF t.role = "user" THEN UserTurn(p, t.text) ELSE AssistantTurn(p, t.text))

Joined(p, turns) == FoldLeft(LAMBDA acc, t : JoinTurn(p, acc, t), <<>>, turns)

NormalizeHistory_FirstTurn(turns, p) ==
    IF turns = <<>> \/ Head(turns).form = p THEN turns ELSE Joined(p, Keep(turns, TextTurns))

\* _normalize_history
NormalizeHistory(turns, p) ==
    IF \A k \in DOMAIN turns : turns[k].form = p
        THEN turns
        ELSE Joined(p, Keep(turns, TextTurns))

\* What either provider accepts: turns of its own shape, none of them empty, that start
\* with the user, and every call followed by its results.  Converse also wants the roles
\* to alternate.
Accepts(p, turns) ==
    /\ turns # <<>> /\ Head(turns).role = "user"
    /\ \A k \in DOMAIN turns :
           turns[k].form = p /\ (turns[k].text # <<>> \/ turns[k].call \/ turns[k].result)
    /\ \A k \in 1 .. Len(turns) - 1 :
           /\ turns[k + 1].result <=> turns[k].call
           /\ p = "bedrock" => turns[k].role # turns[k + 1].role

-----------------------------------------------------------------------------
(* An invocation loads the session and starts the agent *)

Idle == [pc |-> "idle"]

\* SNS may deliver a message more than once, and a caller may ask again.
Delivered ==
    /\ deliveries < MaxDeliveries
    /\ deliveries' = deliveries + 1

\* run_agent of agent_factory: the history in the shape of the provider chosen.
StartedOn(p, m, loaded) ==
    [pc |-> "asking", provider |-> p, message |-> m, round |-> 0,
     loaded |-> loaded, ending |-> "answered",
     turns |-> Append(NormalizeHistory(loaded.turns, p), UserTurn(p, <<Said(m)>>))]

\* _is_nat_running: what a probe found, up to a minute ago and in this container.
NatRunning == BOOLEAN

\* _select_provider
SelectProvider ==
    IF AgentProvider = "auto"
        THEN { IF reachable THEN "bedrock" ELSE "gemini" : reachable \in NatRunning }
        ELSE {AgentProvider}

\* load_session: a failed read starts afresh.
Loads(i, m) ==
    \E loaded \in {session, Empty}, p \in SelectProvider :
        inv' = [inv EXCEPT ![i] = StartedOn(p, m, loaded)]

\* _handle_record, a reset keyword: the empty session is saved, or the save fails.
Reset(m) ==
    /\ m \in Resets
    /\ Delivered
    /\ session' \in {session, Empty}
    /\ UNCHANGED inv

\* _handle_record, any other text
Text(i, m) ==
    /\ inv[i] = Idle
    /\ m \in Sms \ Resets
    /\ Delivered
    /\ Loads(i, m)
    /\ UNCHANGED session

\* POST /execute in conversational mode
Execute(i, m) ==
    /\ inv[i] = Idle
    /\ m \in Http
    /\ Delivered
    /\ Loads(i, m)
    /\ UNCHANGED session

-----------------------------------------------------------------------------
(* The agents *)

AnswersWith(i, turns, ending) ==
    inv' = [inv EXCEPT ![i].pc = "saving", ![i].turns = turns, ![i].ending = ending]

LastRound(i) == inv[i].round + 1 >= MaxRounds

\* Tools are run, also one that fails: its error is the result.
RunsTools(i, p, text) ==
    LET turns == inv[i].turns \o <<CallTurn(p, text), ResultTurn(p)>>
    IN IF LastRound(i)
           THEN AnswersWith(i, turns, "cut")
           ELSE inv' = [inv EXCEPT ![i].round = @ + 1, ![i].turns = turns]

\* An exception: an apology or a 502, and nothing is saved.
GivesUp(i) == inv' = [inv EXCEPT ![i] = Idle]

\* The provider refuses the request: its call raises.
Refused(i) ==
    /\ inv[i].pc = "asking"
    /\ ~Accepts(inv[i].provider, inv[i].turns)
    /\ GivesUp(i)
    /\ UNCHANGED <<session, deliveries>>

Asks(i, p) ==
    /\ inv[i].pc = "asking" /\ inv[i].provider = p
    /\ Accepts(p, inv[i].turns)

Notes == {<<>>, <<Note>>}

\* run_agent of bedrock_agent, one round.  Any answer that ends the run is saved as it
\* is: end_turn, or max_tokens, may come without a word, and tool_use without a call is
\* an answer; max_tokens may also cut it off in a call.
Bedrock(i) ==
    /\ Asks(i, "bedrock")
    /\ LET With(turn) == Append(inv[i].turns, turn)
           reply == <<Reply(inv[i].message)>>
       IN  \/ \E text \in Notes : RunsTools(i, "bedrock", text)
           \/ AnswersWith(i, With(AssistantTurn("bedrock", reply)), "answered")
           \/ AnswersWith(i, With(AssistantTurn("bedrock", <<>>)), "mute")
           \/ \E text \in {<<>>, reply} : AnswersWith(i, With(CallTurn("bedrock", text)), "cut")
    /\ UNCHANGED <<session, deliveries>>

TextHistory_UsersOnly(i) ==
    Keep(NormalizeHistory(inv[i].loaded.turns, "gemini"), { t \in TextTurns : t.role = "user" })

\* What gemini_agent keeps of the history it was given: the turns that say something.
TextHistory(i) == Keep(NormalizeHistory(inv[i].loaded.turns, "gemini"), TextTurns)

\* run_agent of gemini_agent, one round.  A run that answers saves text only.
Gemini(i) ==
    /\ Asks(i, "gemini")
    /\ \/ \E text \in Notes : RunsTools(i, "gemini", text)
       \/ AnswersWith(i, TextHistory(i) \o <<UserTurn("gemini", <<Said(inv[i].message)>>),
                                             AssistantTurn("gemini", <<Reply(inv[i].message)>>)>>, "answered")
    /\ UNCHANGED <<session, deliveries>>

\* A call to a provider raises or times out, or the Lambda ends.
Fails(i) ==
    /\ inv[i] # Idle
    /\ GivesUp(i)
    /\ UNCHANGED <<session, deliveries>>

\* save_session: the whole item, over whatever is there; a failure is only logged.
Save(i) ==
    /\ inv[i].pc = "saving"
    /\ session' \in {session, [turns |-> Dumped(inv[i].turns), ending |-> inv[i].ending]}
    /\ inv' = [inv EXCEPT ![i] = Idle]
    /\ UNCHANGED deliveries

\* The time to live, renewed by every save, runs out.
Expires ==
    /\ session' = Empty
    /\ UNCHANGED <<inv, deliveries>>

-----------------------------------------------------------------------------
Init ==
    /\ session = Empty
    /\ inv = [i \in Invocations |-> Idle]
    /\ deliveries = 0

Next ==
    \/ \E m \in Messages : Reset(m)
    \/ \E i \in Invocations :
           \/ \E m \in Messages : Text(i, m) \/ Execute(i, m)
           \/ Bedrock(i) \/ Gemini(i) \/ Refused(i) \/ Fails(i) \/ Save(i)
    \/ Expires

Spec == Init /\ [][Next]_vars

-----------------------------------------------------------------------------
Session == [turns : Seq(Turn), ending : Endings]

Run ==
    [pc : {"asking", "saving"}, provider : Providers, message : Messages,
     round : 0 .. MaxRounds - 1, loaded : Session, ending : Endings, turns : Seq(Turn)]

\* Stored and running histories are sequences of turns, and a run has the provider's
\* shape throughout and never makes more rounds than the limit.
TypeOK ==
    /\ session \in Session
    /\ inv \in [Invocations -> {Idle} \cup Run]
    /\ \A i \in Invocations :
           inv[i] # Idle => \A k \in DOMAIN inv[i].turns : inv[i].turns[k].form = inv[i].provider
    /\ deliveries \in 0 .. MaxDeliveries

\* A stored session gives Gemini a request that it accepts, whichever provider wrote it
\* and however that run ended; and Bedrock one, unless the run that wrote it was cut off
\* or ended without a word: what such a run saves, only Gemini still takes.
AnswerableUnlessCut ==
    \A m \in Messages :
        /\ Accepts("gemini", StartedOn("gemini", m, session).turns)
        /\ session.ending = "answered" => Accepts("bedrock", StartedOn("bedrock", m, session).turns)

\* "don't persist a broken history": what a run saves that was not cut off, Bedrock can
\* go on from.
NoBrokenHistory ==
    session.ending # "cut" =>
        \A m \in Messages : Accepts("bedrock", StartedOn("bedrock", m, session).turns)

Exchange(turns) ==
    FoldLeft(LAMBDA said, t : said \o Keep(t.text, Items \ {Note}), <<>>, turns)

\* A run that saves over the session it loaded keeps every message and reply in it, in
\* order, across any change of provider, and adds its own message after them.
KeepsTheConversation ==
    [][\A i \in Invocations :
           inv[i].pc = "saving" /\ inv'[i] = Idle /\ inv[i].loaded = session /\ session' # session =>
               IsPrefix(Append(Exchange(session.turns), Said(inv[i].message)), Exchange(session'.turns))]_vars

\* "so Bedrock's strict role alternation still holds": no request sent to Bedrock has
\* two turns of one role in a row.
StrictAlternation ==
    \A i \in Invocations :
        inv[i] # Idle /\ inv[i].provider = "bedrock" /\ inv[i].pc = "asking" =>
            \A k \in 1 .. Len(inv[i].turns) - 1 : inv[i].turns[k].role # inv[i].turns[k + 1].role
=============================================================================
