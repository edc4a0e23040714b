----------------------------- MODULE RoomsProofs -----------------------------
(***************************************************************************)
(* What Rooms keeps for all people, devices, rooms, windows, requests and  *)
(* sample runs.                                                            *)
(*                                                                         *)
(* TypeOK and RunsKnown hold of the tables and of the sample runs under    *)
(* way.  From the two follow the theorems on schedule rules (RulesKnown),  *)
(* on models (AnswersKnown) and on fingerprints.                           *)
(***************************************************************************)
EXTENDS Rooms, FiniteSetTheorems, TLAPS

\* A sample run knows one device as soon as it has a sample, and none goes on after eero
\* has failed.
RunsKnown ==
    /\ failed = {}
    /\ \A j \in Jobs : jobs[j].state = "run" =>
          /\ jobs[j].samples # {} => jobs[j].device \in Devices
          /\ \A s \in jobs[j].samples : s.device = jobs[j].device

LEMMA JobForm ==
    ASSUME NEW job \in Job
    PROVE  /\ job.state \in {"none", "over", "run"}
           /\ job.state = "run" =>
                /\ job.key \in Key /\ job.left \in 0..MaxSamples
                /\ job.device \in Devices \cup {"none"} /\ job.samples \subseteq Sample
                /\ job = [state |-> "run", key |-> job.key, left |-> job.left,
                          device |-> job.device, samples |-> job.samples]
BY DEF Job, NoJob, Over

LEMMA CallForm ==
    ASSUME NEW call \in Call
    PROVE  /\ call.op \in {"idle", "set", "store", "train"}
           /\ call.op = "set" => call.rule \in Rule
           /\ call.op = "store" => call.id \in Ids /\ call.row \in Row
           /\ call.op = "train" => call.person \in People /\ call.rooms \subseteq Rooms
BY DEF Call, Idle

LEMMA TakesTyped ==
    ASSUME TypeOK, NEW c \in Calls, NEW call \in Call, Takes(c, call)
    PROVE  calls' \in [Calls -> Call] /\ used' \in 0..MaxCalls /\ stale' \subseteq Calls
BY BoundsAssumption DEF TypeOK, Takes

LEMMA EndsTyped ==
    ASSUME TypeOK, NEW c \in Calls, Ends(c)
    PROVE  calls' \in [Calls -> Call] /\ used' \in 0..MaxCalls
BY DEF TypeOK, Ends, Call, Idle

LEMMA AtOnceTyped ==
    ASSUME TypeOK, AtOnce
    PROVE  calls' \in [Calls -> Call] /\ used' \in 0..MaxCalls /\ used' \in Ids
BY BoundsAssumption DEF TypeOK, AtOnce, Ids

LEMMA PutPrintTyped ==
    ASSUME TypeOK, RunsKnown, NEW j \in Jobs, jobs[j].state = "run", PutPrint(j)
    PROVE  prints' \in [Key -> Entry \cup {NoPrint}]
<1>1. jobs[j] \in Job
  BY DEF TypeOK
<1>2. jobs[j].key \in Key /\ jobs[j].samples \subseteq Sample
  BY <1>1, JobForm
<1>3. CASE jobs[j].samples = {}
  BY <1>3 DEF PutPrint, TypeOK
<1>4. CASE jobs[j].samples # {}
  <2>1. [device |-> jobs[j].device, samples |-> jobs[j].samples] \in Entry
    BY <1>2, <1>4 DEF RunsKnown, Entry
  <2>2. QED
    BY <2>1, <1>2, <1>4 DEF PutPrint, TypeOK
<1>5. QED
  BY <1>3, <1>4

-----------------------------------------------------------------------------
(* Types and sample runs *)

LEMMA RequestsTyped == TypeOK /\ Requests => TypeOK'
<1> SUFFICES ASSUME TypeOK, Requests PROVE TypeOK'
  OBVIOUS
<1>0. AtOnce
  BY DEF Requests, DeleteRule, Record, Capture, DeleteRow, DeletePrint
<1>00. calls' \in [Calls -> Call] /\ used' \in 0..MaxCalls /\ used' \in Ids
  BY <1>0, AtOnceTyped
<1>1. CASE DeleteRule
  BY <1>1, <1>00 DEF DeleteRule, TypeOK
<1>2. CASE Record
  <2>1. PICK p \in People, label \in Labels, source \in CallerSources :
           /\ rows' = [rows EXCEPT ![used'] = NewRow(p, label, source)]
           /\ answers' = [answers EXCEPT ![p] = @ \cup {label}]
    BY <1>2 DEF Record
  <2>2. NewRow(p, label, source) \in Row
    BY RoomsAssumption DEF NewRow, Row
  <2>3. QED
    BY <1>2, <1>00, <2>1, <2>2 DEF Record, TypeOK
<1>3. CASE Capture
  <2>1. PICK p \in People, source \in CallerSources :
           rows' = [rows EXCEPT ![used'] = NewRow(p, "", source)]
    BY <1>3 DEF Capture
  <2>2. NewRow(p, "", source) \in Row
    BY RoomsAssumption DEF NewRow, Row
  <2>3. QED
    BY <1>3, <1>00, <2>1, <2>2 DEF Capture, TypeOK
<1>4. CASE DeleteRow
  BY <1>4, <1>00 DEF DeleteRow, TypeOK
<1>5. CASE DeletePrint
  BY <1>5, <1>00 DEF DeletePrint, TypeOK
<1>6. QED
  BY <1>1, <1>2, <1>3, <1>4, <1>5 DEF Requests

\* What a call has decided on to write.
LEMMA TakersTyped ==
    ASSUME TypeOK, NEW c \in Calls,
           SetRule(c) \/ Label(c) \/ Observe(c) \/ Train(c)
    PROVE  calls' \in [Calls -> Call] /\ used' \in 0..MaxCalls /\ stale' \subseteq Calls
<1>1. CASE SetRule(c)
  <2>1. PICK r \in Rule : Takes(c, [op |-> "set", rule |-> r])
    BY <1>1 DEF SetRule
  <2>2. [op |-> "set", rule |-> r] \in Call
    BY DEF Call
  <2>3. QED
    BY <2>1, <2>2, TakesTyped
<1>2. CASE Label(c)
  <2>1. PICK i \in Ids, label \in Labels :
           /\ rows[i] # NoRow
           /\ Takes(c, [op |-> "store", id |-> i, row |-> [rows[i] EXCEPT !.room = label]])
    BY <1>2 DEF Label
  <2>2. rows[i] \in Row
    BY <2>1 DEF TypeOK
  <2>3. [rows[i] EXCEPT !.room = label] \in Row
    BY <2>2 DEF Row
  <2>4. [op |-> "store", id |-> i, row |-> [rows[i] EXCEPT !.room = label]] \in Call
    BY <2>3 DEF Call
  <2>5. QED
    BY <2>1, <2>4, TakesTyped
<1>3. CASE Observe(c)
  <2>0. PICK p \in People, m \in Clock : \E r \in Matching(p, m) :
           Takes(c, [op |-> "store", id |-> used + 1, row |-> NewRow(p, r.room, "schedule_rule")])
    BY <1>3 DEF Observe
  <2>1. PICK r \in Matching(p, m) :
           Takes(c, [op |-> "store", id |-> used + 1, row |-> NewRow(p, r.room, "schedule_rule")])
    BY <2>0
  <2>2. r.room \in Rooms
    BY <2>1 DEF Matching, Holding, TypeOK, Rule
  <2>3. NewRow(p, r.room, "schedule_rule") \in Row
    BY <2>2 DEF NewRow, Row, Labels, Sources
  <2>4. used + 1 \in Ids
    BY <2>1, BoundsAssumption DEF Takes, TypeOK, Ids
  <2>5. [op |-> "store", id |-> used + 1, row |-> NewRow(p, r.room, "schedule_rule")] \in Call
    BY <2>3, <2>4 DEF Call
  <2>6. QED
    BY <2>1, <2>5, TakesTyped
<1>4. CASE Train(c)
  <2>0. PICK p \in People : \E S \in SUBSET Trainable(p) :
           Takes(c, [op |-> "train", person |-> p, rooms |-> { rows[i].room : i \in S }])
    BY <1>4 DEF Train
  <2>1. PICK S \in SUBSET Trainable(p) :
           Takes(c, [op |-> "train", person |-> p, rooms |-> { rows[i].room : i \in S }])
    BY <2>0
  <2>2. { rows[i].room : i \in S } \subseteq Rooms
    BY <2>1 DEF Trainable
  <2>3. [op |-> "train", person |-> p, rooms |-> { rows[i].room : i \in S }] \in Call
    BY <2>2 DEF Call
  <2>4. QED
    BY <2>1, <2>3, TakesTyped
<1>5. QED
  BY <1>1, <1>2, <1>3, <1>4

LEMMA CallStepTyped ==
    ASSUME TypeOK, NEW c \in Calls, CallStep(c)
    PROVE  TypeOK'
<1>0. calls[c] \in Call
  BY DEF TypeOK
<1>1. CASE SetRule(c)
  BY <1>1, TakersTyped DEF SetRule, TypeOK
<1>2. CASE PutRule(c)
  <2>1. calls[c].rule \in Rule
    BY <1>0, <1>2, CallForm DEF PutRule
  <2>2. calls[c].rule.person \in People
    BY <2>1 DEF Rule
  <2>3. QED
    BY <1>2, <2>1, <2>2, EndsTyped DEF PutRule, TypeOK
<1>3. CASE Label(c)
  <2>1. PICK i \in Ids, label \in Labels :
           rows[i] # NoRow /\ answers' = [answers EXCEPT ![rows[i].person] = @ \cup {label}]
    BY <1>3 DEF Label
  <2>2. rows[i].person \in People
    BY <2>1 DEF TypeOK, Row
  <2>3. answers' \in [People -> SUBSET Labels]
    BY <2>1, <2>2 DEF TypeOK
  <2>4. QED
    BY <1>3, <2>3, TakersTyped DEF Label, TypeOK
<1>4. CASE Observe(c)
  BY <1>4, TakersTyped DEF Observe, TypeOK
<1>5. CASE PutRow(c)
  BY <1>0, <1>5, CallForm, EndsTyped DEF PutRow, TypeOK
<1>6. CASE Train(c)
  BY <1>6, TakersTyped DEF Train, TypeOK
<1>7. CASE PutModel(c)
  BY <1>0, <1>7, CallForm, EndsTyped DEF PutModel, TypeOK
<1>8. CASE Dies(c)
  BY <1>8, EndsTyped DEF Dies, TypeOK
<1>9. QED
  BY <1>1, <1>2, <1>3, <1>4, <1>5, <1>6, <1>7, <1>8 DEF CallStep

\* A sample run after a sample.
LEMMA TakenForm ==
    ASSUME NEW job \in Job, job.state = "run", job.left > 0, NEW s \in Sample,
           job.samples # {} => job.device \in Devices,
           \A t \in job.samples : t.device = job.device
    PROVE  LET next == Taken(job, s) IN
           /\ next \in Job /\ next.state = "run" /\ next.key = job.key
           /\ next.samples # {} => next.device \in Devices
           /\ \A t \in next.samples : t.device = next.device
<1>1. /\ job.key \in Key /\ job.left \in 0..MaxSamples
      /\ job.device \in Devices \cup {"none"} /\ job.samples \subseteq Sample
      /\ job = [state |-> "run", key |-> job.key, left |-> job.left,
                device |-> job.device, samples |-> job.samples]
  BY JobForm
<1>2. job.left - 1 \in 0..MaxSamples
  BY <1>1, BoundsAssumption
<1>3. s.device \in Devices
  BY DEF Sample, Sampled
<1>4. CASE job.device \in {"none", s.device}
  <2>1. Taken(job, s) = [state |-> "run", key |-> job.key, left |-> job.left - 1,
                         device |-> s.device, samples |-> job.samples \cup {s}]
    BY <1>1, <1>4 DEF Taken
  <2>2. \A t \in job.samples : t.device = s.device
    BY <1>4, RoomsAssumption
  <2>3. QED
    BY <1>1, <1>2, <1>3, <2>1, <2>2 DEF Job
<1>5. CASE job.device \notin {"none", s.device}
  <2>1. Taken(job, s) = [state |-> "run", key |-> job.key, left |-> job.left - 1,
                         device |-> job.device, samples |-> job.samples]
    BY <1>1, <1>5 DEF Taken
  <2>2. QED
    BY <1>1, <1>2, <2>1 DEF Job
<1>6. QED
  BY <1>4, <1>5

\* A run that starts, or starts anew, has no sample yet.
LEMMA FreshForm ==
    ASSUME NEW key \in Key
    PROVE  /\ Fresh(key) \in Job /\ Fresh(key).state = "run"
           /\ Fresh(key).key = key /\ Fresh(key).samples = {}
BY BoundsAssumption DEF Fresh, Job

LEMMA OverForm == Over \in Job /\ NoJob \in Job /\ Over.state = "over" /\ NoJob.state = "none"
BY DEF Job, Over, NoJob

LEMMA JobStepTyped ==
    ASSUME TypeOK, RunsKnown, NEW j \in Jobs, JobStep(j)
    PROVE  TypeOK' /\ RunsKnown'
<1>0. jobs[j] \in Job
  BY DEF TypeOK
<1>1. CASE StartJob(j)
  <2>1. PICK key \in Key : jobs' = [jobs EXCEPT ![j] = Fresh(key)]
    BY <1>1 DEF StartJob
  <2>2. used' \in 0..MaxCalls
    BY <1>1, BoundsAssumption DEF StartJob, TypeOK
  <2>3. TypeOK'
    BY <1>1, <2>1, <2>2, FreshForm DEF StartJob, TypeOK
  <2>4. RunsKnown'
    BY <1>1, <2>1, FreshForm DEF StartJob, TypeOK, RunsKnown
  <2>5. QED
    BY <2>3, <2>4
<1>2. CASE TakeSample(j)
  <2>1. PICK s \in Sample : jobs' = [jobs EXCEPT ![j] = Taken(jobs[j], s)]
    BY <1>2 DEF TakeSample
  <2> DEFINE next == Taken(jobs[j], s)
  <2>2. /\ next \in Job /\ next.state = "run"
        /\ next.samples # {} => next.device \in Devices
        /\ \A t \in next.samples : t.device = next.device
    BY <1>0, <1>2, TakenForm DEF TakeSample, Sampling, RunsKnown
  <2> HIDE DEF next
  <2>3. TypeOK'
    BY <1>2, <2>1, <2>2 DEF TakeSample, TypeOK, next
  <2>4. RunsKnown'
    BY <1>2, <2>1, <2>2 DEF TakeSample, TypeOK, RunsKnown, next
  <2>5. QED
    BY <2>3, <2>4
<1>3. CASE TakeNone(j)
  <2>1. /\ jobs[j].key \in Key /\ jobs[j].left \in 0..MaxSamples
        /\ jobs[j].device \in Devices \cup {"none"} /\ jobs[j].samples \subseteq Sample
        /\ jobs[j] = [state |-> "run", key |-> jobs[j].key, left |-> jobs[j].left,
                      device |-> jobs[j].device, samples |-> jobs[j].samples]
    BY <1>0, <1>3, JobForm DEF TakeNone, Sampling
  <2> DEFINE next == [jobs[j] EXCEPT !.left = @ - 1]
  <2>2. next = [state |-> "run", key |-> jobs[j].key, left |-> jobs[j].left - 1,
                device |-> jobs[j].device, samples |-> jobs[j].samples]
    BY <2>1
  <2>3. jobs[j].left - 1 \in 0..MaxSamples
    BY <1>3, <2>1, BoundsAssumption DEF TakeNone, Sampling
  <2>4. next \in Job
    BY <2>1, <2>2, <2>3 DEF Job
  <2>5. jobs' = [jobs EXCEPT ![j] = next]
    BY <1>3 DEF TakeNone
  <2>6. /\ next.samples # {} => next.device \in Devices
        /\ \A t \in next.samples : t.device = next.device
    BY <1>3, <2>2 DEF TakeNone, Sampling, RunsKnown
  <2> HIDE DEF next
  <2>7. TypeOK'
    BY <1>3, <2>4, <2>5 DEF TakeNone, TypeOK
  <2>8. RunsKnown'
    BY <1>3, <2>5, <2>6 DEF TakeNone, TypeOK, RunsKnown
  <2>9. QED
    BY <2>7, <2>8
<1>4. CASE EeroFails(j)
  <2>1. jobs' = [jobs EXCEPT ![j] = Over]
    BY <1>4 DEF EeroFails, AfterFailure
  <2>2. failed' = failed
    BY <1>4, <2>1 DEF EeroFails, TypeOK
  <2>3. TypeOK'
    BY <1>4, <2>1, <2>2, OverForm DEF EeroFails, TypeOK
  <2>4. RunsKnown'
    BY <2>1, <2>2, OverForm DEF TypeOK, RunsKnown
  <2>5. QED
    BY <2>3, <2>4
<1>5. CASE SavePrint(j)
  <2>1. prints' \in [Key -> Entry \cup {NoPrint}]
    BY <1>5, PutPrintTyped DEF SavePrint
  <2>2. TypeOK'
    BY <1>5, <2>1, OverForm DEF SavePrint, TypeOK
  <2>3. RunsKnown'
    BY <1>5, OverForm DEF SavePrint, TypeOK, RunsKnown
  <2>4. QED
    BY <2>2, <2>3
<1>6. CASE Redeliver(j)
  <2>1. jobs[j].key \in Key
    BY <1>0, <1>6, JobForm DEF Redeliver
  <2>2. prints' \in [Key -> Entry \cup {NoPrint}]
    BY <1>6, PutPrintTyped DEF Redeliver, TypeOK
  <2>3. used' \in 0..MaxCalls
    BY <1>6, BoundsAssumption DEF Redeliver, TypeOK
  <2>4. PICK next \in {Over, Fresh(jobs[j].key)} : jobs' = [jobs EXCEPT ![j] = next]
    BY <1>6 DEF Redeliver
  <2>5. next \in Job /\ (next.state = "run" => next.samples = {})
    BY <2>1, <2>4, FreshForm, OverForm
  <2>6. TypeOK'
    BY <1>6, <2>2, <2>3, <2>4, <2>5 DEF Redeliver, TypeOK
  <2>7. RunsKnown'
    BY <1>6, <2>4, <2>5 DEF Redeliver, TypeOK, RunsKnown
  <2>8. QED
    BY <2>6, <2>7
<1>7. QED
  BY <1>1, <1>2, <1>3, <1>4, <1>5, <1>6 DEF JobStep

\* Requests and calls leave sample runs alone.
LEMMA RunsKept ==
    ASSUME TypeOK, RunsKnown, [Next]_vars
    PROVE  TypeOK' /\ RunsKnown'
<1>1. CASE Requests
  BY <1>1, RequestsTyped
     DEF Requests, DeleteRule, Record, Capture, DeleteRow, DeletePrint, RunsKnown
<1>2. ASSUME NEW c \in Calls, CallStep(c) PROVE TypeOK' /\ RunsKnown'
  BY <1>2, CallStepTyped
     DEF CallStep, SetRule, PutRule, Label, Observe, PutRow, Train, PutModel, Dies, RunsKnown
<1>3. ASSUME NEW j \in Jobs, JobStep(j) PROVE TypeOK' /\ RunsKnown'
  BY <1>3, JobStepTyped
<1>4. CASE UNCHANGED vars
  BY <1>4 DEF vars, TypeOK, RunsKnown
<1>5. QED
  BY <1>1, <1>2, <1>3, <1>4 DEF Next

LEMMA InitTyped == Init => TypeOK /\ RunsKnown
BY BoundsAssumption, OverForm DEF Init, TypeOK, RunsKnown, Call, Idle

\* Every state of the tables, the calls and the sample runs has its type: a fingerprint
\* has a device, whatever samples were passed over.
THEOREM TypeCorrect == Spec => [](TypeOK /\ RunsKnown)
<1>1. TypeOK /\ RunsKnown /\ [Next]_vars => (TypeOK /\ RunsKnown)'
  BY RunsKept
<1>2. QED
  BY <1>1, InitTyped, PTL DEF Spec

-----------------------------------------------------------------------------
(* Schedule rules *)

Apart(r, s) == \A m \in Clock : ~(Contains(r, m) /\ Contains(s, m))

\* Whose rules have not been raced has rules apart, and a call that no put has made stale
\* is about to put one that is apart from them.
RulesKnown ==
    /\ \A r, s \in rules :
          r.person = s.person /\ r # s /\ r.person \notin raced => Apart(r, s)
    /\ \A c \in Calls : calls[c].op = "set" /\ c \notin stale =>
          \A s \in rules :
             s.person = calls[c].rule.person /\ RuleId(s) # RuleId(calls[c].rule)
                => Apart(calls[c].rule, s)

LEMMA ApartSymmetric == \A r, s : Apart(r, s) <=> Apart(s, r)
BY DEF Apart

\* A put of a rule that is apart from the others.
LEMMA PutRuleKeeps ==
    ASSUME TypeOK, RulesKnown, NEW c \in Calls, PutRule(c)
    PROVE  RulesKnown'
<1> DEFINE new == calls[c].rule
<1>1. /\ rules' = { s \in rules : RuleId(s) # RuleId(new) } \cup {new}
      /\ stale' = { d \in Calls : d # c /\ calls[d].op = "set" }
      /\ raced' = IF c \in stale THEN raced \cup {new.person} ELSE raced
      /\ calls' = [calls EXCEPT ![c] = Idle]
      /\ calls[c].op = "set"
  BY DEF PutRule, Ends
<1>2. ASSUME NEW s \in rules, RuleId(s) # RuleId(new), s.person = new.person,
             new.person \notin raced'
      PROVE  Apart(new, s)
  BY <1>1, <1>2 DEF RulesKnown
<1> HIDE DEF new
<1>3. ASSUME NEW r \in rules', NEW s \in rules', r.person = s.person, r # s,
             r.person \notin raced'
      PROVE  Apart(r, s)
  <2>1. CASE r = new
    BY <1>1, <1>2, <1>3, <2>1
  <2>2. CASE s = new
    BY <1>1, <1>2, <1>3, <2>2, ApartSymmetric
  <2>3. CASE r # new /\ s # new
    BY <1>1, <1>3, <2>3 DEF RulesKnown
  <2>4. QED
    BY <2>1, <2>2, <2>3
<1>4. ASSUME NEW d \in Calls, calls'[d].op = "set" PROVE d \in stale'
  BY <1>1, <1>4 DEF TypeOK, Idle
<1>5. QED
  BY <1>3, <1>4 DEF RulesKnown, Apart, Clock, Contains, RuleId

\* A call that has found no overlap is about to put a rule that is apart.
LEMMA SetRuleKeeps ==
    ASSUME TypeOK, RulesKnown, NEW c \in Calls, SetRule(c)
    PROVE  RulesKnown'
<1>1. PICK r \in Rule :
         /\ ~\E s \in rules : s.person = r.person /\ RuleId(s) # RuleId(r) /\ Overlaps(r, s)
         /\ Takes(c, [op |-> "set", rule |-> r])
  BY DEF SetRule
<1>2. /\ rules' = rules /\ raced' = raced
      /\ calls' = [calls EXCEPT ![c] = [op |-> "set", rule |-> r]]
      /\ stale' = stale \ {c}
  BY <1>1 DEF SetRule, Takes
<1>3. ASSUME NEW s \in rules, s.person = r.person, RuleId(s) # RuleId(r) PROVE Apart(r, s)
  BY <1>1, <1>3 DEF Overlaps, Apart
<1>4. ASSUME NEW d \in Calls, calls'[d].op = "set", d \notin stale', NEW s \in rules',
             s.person = calls'[d].rule.person, RuleId(s) # RuleId(calls'[d].rule)
      PROVE  Apart(calls'[d].rule, s)
  <2>1. CASE d = c
    BY <1>2, <1>3, <1>4, <2>1 DEF TypeOK
  <2>2. CASE d # c
    BY <1>2, <1>4, <2>2 DEF TypeOK, RulesKnown
  <2>3. QED
    BY <2>1, <2>2
<1>5. QED
  BY <1>2, <1>4 DEF RulesKnown, Apart, Clock, Contains, RuleId

\* The other calls decide on no rule and end no staleness of another.
LEMMA OtherCallsKeepRules ==
    ASSUME TypeOK, RulesKnown, NEW c \in Calls, rules' = rules, raced' = raced,
           \/ \E call : call.op # "set" /\ Takes(c, call)
           \/ Ends(c) /\ stale' = stale
    PROVE  RulesKnown'
<1>1. ASSUME NEW d \in Calls, calls'[d].op = "set", d \notin stale'
      PROVE  calls[d].op = "set" /\ d \notin stale /\ calls'[d] = calls[d]
  BY <1>1 DEF Takes, Ends, TypeOK, Idle
<1>2. QED
  BY <1>1 DEF RulesKnown, Apart, Clock, Contains, RuleId

LEMMA RulesKept ==
    ASSUME TypeOK, RulesKnown, [Next]_vars
    PROVE  RulesKnown'
<1>1. CASE Requests
  <2>1. rules' \subseteq rules /\ UNCHANGED <<calls, stale, raced>>
    BY <1>1 DEF Requests, DeleteRule, Record, Capture, DeleteRow, DeletePrint, AtOnce
  <2>2. QED
    BY <2>1 DEF RulesKnown, Apart, Clock, Contains, RuleId
<1>2. ASSUME NEW c \in Calls, CallStep(c) PROVE RulesKnown'
  <2>1. CASE SetRule(c)
    BY <2>1, SetRuleKeeps
  <2>2. CASE PutRule(c)
    BY <2>2, PutRuleKeeps
  <2>3. CASE Label(c)
    BY <2>3, OtherCallsKeepRules DEF Label
  <2>4. CASE Observe(c)
    BY <2>4, OtherCallsKeepRules DEF Observe
  <2>5. CASE PutRow(c)
    BY <2>5, OtherCallsKeepRules DEF PutRow
  <2>6. CASE Train(c)
    BY <2>6, OtherCallsKeepRules DEF Train
  <2>7. CASE PutModel(c)
    BY <2>7, OtherCallsKeepRules DEF PutModel
  <2>8. CASE Dies(c)
    BY <2>8, OtherCallsKeepRules DEF Dies
  <2>9. QED
    BY <1>2, <2>1, <2>2, <2>3, <2>4, <2>5, <2>6, <2>7, <2>8 DEF CallStep
<1>3. ASSUME NEW j \in Jobs, JobStep(j) PROVE RulesKnown'
  <2>1. UNCHANGED <<rules, calls, stale, raced>>
    BY <1>3 DEF JobStep, StartJob, TakeSample, TakeNone, EeroFails, SavePrint, Redeliver
  <2>2. QED
    BY <2>1 DEF RulesKnown, Apart, Clock, Contains, RuleId
<1>4. CASE UNCHANGED vars
  BY <1>4 DEF vars, RulesKnown, Apart, Clock, Contains, RuleId
<1>5. QED
  BY <1>1, <1>2, <1>3, <1>4 DEF Next

LEMMA InitRules == Init => RulesKnown
BY DEF Init, RulesKnown, Idle

\* Windows of one person and zone are disjoint, unless a rule was put between the check
\* of another and its put: for every length of the day and every window.
THEOREM WindowsHold == Spec => []WindowsDisjoint
<1>1. RulesKnown => WindowsDisjoint
  BY DEF RulesKnown, WindowsDisjoint, Apart
<1>2. TypeOK /\ RunsKnown /\ RulesKnown /\ [Next]_vars => RulesKnown'
  BY RulesKept
<1>3. QED
  BY <1>1, <1>2, InitRules, TypeCorrect, PTL DEF Spec

-----------------------------------------------------------------------------
(* Models *)

\* Somebody has answered with the room of a row that trains.
Answered(row) ==
    row.source # "schedule_rule" /\ row.room # "" => row.room \in answers[row.person]

\* What trains was answered: in the table, and in what is about to be put.
AnswersKnown ==
    /\ \A i \in Ids : Answered(rows[i])
    /\ \A c \in Calls : calls[c].op = "store" => Answered(calls[c].row)
    /\ \A c \in Calls : calls[c].op = "train" => calls[c].rooms \subseteq answers[calls[c].person]
    /\ TrainedOnAnswers

\* Answers are never taken back.
LEMMA AnswersGrow ==
    ASSUME TypeOK, [Next]_vars
    PROVE  \A p \in People : answers[p] \subseteq answers'[p]
<1>1. CASE Requests
  BY <1>1 DEF Requests, DeleteRule, Record, Capture, DeleteRow, DeletePrint, TypeOK
<1>2. ASSUME NEW c \in Calls, CallStep(c)
      PROVE  \A p \in People : answers[p] \subseteq answers'[p]
  <2>1. CASE Label(c)
    BY <2>1 DEF Label, TypeOK
  <2>2. CASE ~Label(c)
    BY <1>2, <2>2
       DEF CallStep, SetRule, PutRule, Observe, PutRow, Train, PutModel, Dies
  <2>3. QED
    BY <2>1, <2>2
<1>3. ASSUME NEW j \in Jobs, JobStep(j) PROVE answers' = answers
  BY <1>3 DEF JobStep, StartJob, TakeSample, TakeNone, EeroFails, SavePrint, Redeliver
<1>4. CASE UNCHANGED vars
  BY <1>4 DEF vars
<1>5. QED
  BY <1>1, <1>2, <1>3, <1>4 DEF Next

\* A row that is answered stays so, whatever is answered besides.
LEMMA AnsweredStays ==
    ASSUME NEW row \in Row \cup {NoRow}, Answered(row),
           \A p \in People : answers[p] \subseteq answers'[p]
    PROVE  row.source # "schedule_rule" /\ row.room # "" => row.room \in answers'[row.person]
<1>1. CASE row \in Row
  <2>1. row.person \in People
    BY <1>1 DEF Row
  <2>2. QED
    BY <2>1 DEF Answered
<1>2. CASE row = NoRow
  BY <1>2 DEF NoRow
<1>3. QED
  BY <1>1, <1>2

\* What is captured, and what is deleted, has no room.
LEMMA NoRoom == NoRow.room = "" /\ \A p, source : NewRow(p, "", source).room = ""
BY DEF NoRow, NewRow

LEMMA RequestsKeepAnswers ==
    ASSUME TypeOK, AnswersKnown, Requests, \A p \in People : answers[p] \subseteq answers'[p]
    PROVE  AnswersKnown'
<1>1. UNCHANGED <<calls, models>>
  BY DEF Requests, DeleteRule, Record, Capture, DeleteRow, DeletePrint, AtOnce
<1>2. ASSUME NEW i \in Ids PROVE Answered(rows[i])'
  <2>1. rows[i] \in Row \cup {NoRow} /\ Answered(rows[i])
    BY DEF TypeOK, AnswersKnown
  <2>2. CASE rows'[i] = rows[i]
    BY <2>1, <2>2, AnsweredStays DEF Answered
  <2>3. CASE rows'[i] # rows[i]
    <3>1. CASE Record
      <4>1. PICK p \in People, label \in Labels, source \in CallerSources :
               /\ rows' = [rows EXCEPT ![used'] = NewRow(p, label, source)]
               /\ answers' = [answers EXCEPT ![p] = @ \cup {label}]
        BY <3>1 DEF Record
      <4>2. rows'[i] = NewRow(p, label, source) /\ label \in answers'[p]
        BY <2>3, <4>1 DEF TypeOK
      <4>3. rows'[i].person = p /\ rows'[i].room = label
        BY <4>2 DEF NewRow
      <4>4. QED
        BY <4>2, <4>3 DEF Answered
    <3>2. CASE Capture
      <4>1. PICK p \in People, source \in CallerSources :
               rows' = [rows EXCEPT ![used'] = NewRow(p, "", source)]
        BY <3>2 DEF Capture
      <4>2. rows'[i] = NewRow(p, "", source)
        BY <2>3, <4>1 DEF TypeOK
      <4>3. rows'[i].room = ""
        BY <4>2, NoRoom
      <4>4. QED
        BY <4>3 DEF Answered
    <3>3. CASE DeleteRow
      <4>1. rows'[i] = NoRow
        BY <2>3, <3>3 DEF DeleteRow, TypeOK
      <4>2. rows'[i].room = ""
        BY <4>1, NoRoom
      <4>3. QED
        BY <4>2 DEF Answered
    <3>4. QED
      BY <2>3, <3>1, <3>2, <3>3 DEF Requests, DeleteRule, DeletePrint
  <2>4. QED
    BY <2>2, <2>3
<1>3. ASSUME NEW c \in Calls, calls[c].op = "store" PROVE Answered(calls[c].row)'
  BY <1>1, <1>3, CallForm, AnsweredStays DEF TypeOK, AnswersKnown, Answered
<1>4. ASSUME NEW c \in Calls, calls[c].op = "train"
      PROVE  calls[c].rooms \subseteq answers'[calls[c].person]
  BY <1>4, CallForm DEF TypeOK, AnswersKnown
<1>5. TrainedOnAnswers'
  BY <1>1 DEF AnswersKnown, TrainedOnAnswers
<1>6. QED
  BY <1>1, <1>2, <1>3, <1>4, <1>5 DEF AnswersKnown, Answered

\* Whose call changes, and what it is then.
LEMMA CallChanges ==
    ASSUME TypeOK, NEW c \in Calls, NEW d \in Calls, calls'[d] # calls[d]
    PROVE  /\ \A call : Takes(c, call) => calls'[d] = call
           /\ Ends(c) => calls'[d].op = "idle"
BY DEF Takes, Ends, Idle, TypeOK

\* Only label and store_observed go on to put a row.
LEMMA NotAStore ==
    ASSUME TypeOK, NEW c \in Calls, CallStep(c), NEW d \in Calls, calls'[d] # calls[d],
           ~Label(c) /\ ~Observe(c)
    PROVE  calls'[d].op # "store"
<1>1. CASE SetRule(c)
  <2>1. PICK r \in Rule : Takes(c, [op |-> "set", rule |-> r])
    BY <1>1 DEF SetRule
  <2>2. QED
    BY <2>1, CallChanges
<1>2. CASE Train(c)
  <2>0. PICK p \in People : \E S \in SUBSET Trainable(p) :
           Takes(c, [op |-> "train", person |-> p, rooms |-> { rows[i].room : i \in S }])
    BY <1>2 DEF Train
  <2>1. PICK S \in SUBSET Trainable(p) :
           Takes(c, [op |-> "train", person |-> p, rooms |-> { rows[i].room : i \in S }])
    BY <2>0
  <2>2. QED
    BY <2>1, CallChanges
<1>3. CASE Ends(c)
  BY <1>3, CallChanges
<1>4. QED
  BY <1>1, <1>2, <1>3 DEF CallStep, PutRule, PutRow, PutModel, Dies

\* Only a training goes on to put a model.
LEMMA NotATraining ==
    ASSUME TypeOK, NEW c \in Calls, CallStep(c), NEW d \in Calls, calls'[d] # calls[d],
           ~Train(c)
    PROVE  calls'[d].op # "train"
<1>1. CASE SetRule(c)
  <2>1. PICK r \in Rule : Takes(c, [op |-> "set", rule |-> r])
    BY <1>1 DEF SetRule
  <2>2. QED
    BY <2>1, CallChanges
<1>2. CASE Label(c)
  <2>1. PICK i \in Ids, label \in Labels :
           Takes(c, [op |-> "store", id |-> i, row |-> [rows[i] EXCEPT !.room = label]])
    BY <1>2 DEF Label
  <2>2. QED
    BY <2>1, CallChanges
<1>3. CASE Observe(c)
  <2>0. PICK p \in People, m \in Clock : \E r \in Matching(p, m) :
           Takes(c, [op |-> "store", id |-> used + 1, row |-> NewRow(p, r.room, "schedule_rule")])
    BY <1>3 DEF Observe
  <2>1. PICK r \in Matching(p, m) :
           Takes(c, [op |-> "store", id |-> used + 1, row |-> NewRow(p, r.room, "schedule_rule")])
    BY <2>0
  <2>2. QED
    BY <2>1, CallChanges
<1>4. CASE Ends(c)
  BY <1>4, CallChanges
<1>5. QED
  BY <1>1, <1>2, <1>3, <1>4 DEF CallStep, PutRule, PutRow, PutModel, Dies

\* The rows a call is about to put.
LEMMA CallsKeepAnswers ==
    ASSUME TypeOK, AnswersKnown, NEW c \in Calls, CallStep(c), TypeOK',
           \A p \in People : answers[p] \subseteq answers'[p]
    PROVE  AnswersKnown'
<1>0. calls[c] \in Call
  BY DEF TypeOK
<1>1. ASSUME NEW i \in Ids PROVE Answered(rows[i])'
  <2>1. CASE PutRow(c) /\ i = calls[c].id
    <3>1. rows'[i] = calls[c].row /\ calls[c].op = "store" /\ answers' = answers
      BY <2>1 DEF PutRow, TypeOK
    <3>2. QED
      BY <3>1 DEF AnswersKnown, Answered
  <2>2. CASE ~(PutRow(c) /\ i = calls[c].id)
    <3>1. rows'[i] = rows[i]
      BY <2>2 DEF CallStep, SetRule, PutRule, Label, Observe, PutRow, Train, PutModel, Dies,
                  TypeOK
    <3>2. rows[i] \in Row \cup {NoRow} /\ Answered(rows[i])
      BY DEF TypeOK, AnswersKnown
    <3>3. QED
      BY <3>1, <3>2, AnsweredStays DEF Answered
  <2>3. QED
    BY <2>1, <2>2
<1>2. ASSUME NEW d \in Calls, calls'[d].op = "store" PROVE Answered(calls[d].row)'
  <2>1. CASE calls'[d] = calls[d]
    BY <1>2, <2>1, CallForm, AnsweredStays DEF TypeOK, AnswersKnown, Answered
  <2>2. CASE calls'[d] # calls[d]
    <3>1. CASE Label(c)
      <4>1. PICK i \in Ids, label \in Labels :
               /\ rows[i] # NoRow
               /\ Takes(c, [op |-> "store", id |-> i, row |-> [rows[i] EXCEPT !.room = label]])
               /\ answers' = [answers EXCEPT ![rows[i].person] = @ \cup {label}]
        BY <3>1 DEF Label
      <4>2. rows[i] \in Row
        BY <4>1 DEF TypeOK
      <4>3. calls'[d].row = [rows[i] EXCEPT !.room = label]
        BY <2>2, <4>1 DEF Takes, TypeOK
      <4>4. calls'[d].row.room = label /\ calls'[d].row.person = rows[i].person
        BY <4>2, <4>3 DEF Row
      <4>5. rows[i].person \in People
        BY <4>2 DEF Row
      <4>6. label \in answers'[rows[i].person]
        BY <4>1, <4>5 DEF TypeOK
      <4>7. QED
        BY <4>4, <4>6 DEF Answered
    <3>2. CASE Observe(c)
      <4>0. PICK p \in People, m \in Clock : \E r \in Matching(p, m) :
               Takes(c, [op |-> "store", id |-> used + 1, row |-> NewRow(p, r.room, "schedule_rule")])
        BY <3>2 DEF Observe
      <4>1. PICK r \in Matching(p, m) :
               Takes(c, [op |-> "store", id |-> used + 1, row |-> NewRow(p, r.room, "schedule_rule")])
        BY <4>0
      <4>2. calls'[d].row = NewRow(p, r.room, "schedule_rule")
        BY <2>2, <4>1 DEF Takes, TypeOK
      <4>3. calls'[d].row.source = "schedule_rule"
        BY <4>2 DEF NewRow
      <4>4. QED
        BY <4>3 DEF Answered
    <3>3. CASE ~Label(c) /\ ~Observe(c)
      <4>1. calls'[d].op # "store"
        BY <2>2, <3>3, NotAStore
      <4>2. QED
        BY <1>2, <4>1
    <3>4. QED
      BY <3>1, <3>2, <3>3
  <2>3. QED
    BY <2>1, <2>2
<1>3. ASSUME NEW d \in Calls, calls'[d].op = "train"
      PROVE  calls'[d].rooms \subseteq answers'[calls'[d].person]
  <2>1. CASE calls'[d] = calls[d]
    BY <1>3, <2>1, CallForm DEF TypeOK, AnswersKnown
  <2>2. CASE calls'[d] # calls[d]
    <3>1. CASE Train(c)
      <4>0. PICK p \in People : \E S \in SUBSET Trainable(p) :
               Takes(c, [op |-> "train", person |-> p, rooms |-> { rows[i].room : i \in S }])
        BY <3>1 DEF Train
      <4>1. PICK S \in SUBSET Trainable(p) :
               Takes(c, [op |-> "train", person |-> p, rooms |-> { rows[i].room : i \in S }])
        BY <4>0
      <4>2. calls'[d].rooms = { rows[i].room : i \in S } /\ calls'[d].person = p
        BY <2>2, <4>1 DEF Takes, TypeOK
      <4>3. ASSUME NEW i \in S PROVE rows[i].room \in answers[p]
        BY <4>1, RoomsAssumption DEF Trainable, AnswersKnown, Answered
      <4>4. QED
        BY <4>2, <4>3
    <3>2. CASE ~Train(c)
      <4>1. calls'[d].op # "train"
        BY <2>2, <3>2, NotATraining
      <4>2. QED
        BY <1>3, <4>1
    <3>3. QED
      BY <3>1, <3>2
  <2>3. QED
    BY <2>1, <2>2
<1>4. TrainedOnAnswers'
  <2>1. CASE PutModel(c)
    BY <1>0, <2>1, CallForm DEF PutModel, TypeOK, AnswersKnown, TrainedOnAnswers
  <2>2. CASE ~PutModel(c)
    <3>1. models' = models
      BY <2>2 DEF CallStep, SetRule, PutRule, Label, Observe, PutRow, Train, Dies
    <3>2. QED
      BY <3>1 DEF AnswersKnown, TrainedOnAnswers
  <2>3. QED
    BY <2>1, <2>2
<1>5. QED
  BY <1>1, <1>2, <1>3, <1>4 DEF AnswersKnown, Answered

LEMMA AnswersKept ==
    ASSUME TypeOK, TypeOK', AnswersKnown, [Next]_vars
    PROVE  AnswersKnown'
<1>0. \A p \in People : answers[p] \subseteq answers'[p]
  BY AnswersGrow
<1>1. CASE Requests
  BY <1>0, <1>1, RequestsKeepAnswers
<1>2. ASSUME NEW c \in Calls, CallStep(c) PROVE AnswersKnown'
  BY <1>0, <1>2, CallsKeepAnswers
<1>3. ASSUME NEW j \in Jobs, JobStep(j) PROVE AnswersKnown'
  <2>1. UNCHANGED <<rows, calls, models, answers>>
    BY <1>3 DEF JobStep, StartJob, TakeSample, TakeNone, EeroFails, SavePrint, Redeliver
  <2>2. QED
    BY <2>1 DEF AnswersKnown, Answered, TrainedOnAnswers
<1>4. CASE UNCHANGED vars
  BY <1>4 DEF vars, AnswersKnown, Answered, TrainedOnAnswers
<1>5. QED
  BY <1>1, <1>2, <1>3, <1>4 DEF Next

LEMMA InitAnswers == Init => AnswersKnown
<1> SUFFICES ASSUME Init PROVE AnswersKnown
  OBVIOUS
<1>1. \A i \in Ids : rows[i] = NoRow
  BY DEF Init
<1>2. NoRow.room = ""
  BY NoRoom
<1>3. \A c \in Calls : calls[c].op = "idle"
  BY DEF Init, Idle
<1>4. TrainedOnAnswers
  BY DEF Init, TrainedOnAnswers
<1>5. QED
  BY <1>1, <1>2, <1>3, <1>4 DEF AnswersKnown, Answered

\* No model names a room that nobody has answered for the person: with any number of
\* people, requests and polls, and whatever sources the callers name.
THEOREM ModelsHold == Spec => []TrainedOnAnswers
<1>1. TypeOK /\ RunsKnown /\ [Next]_vars => TypeOK'
  BY RunsKept
<1>2. TypeOK /\ TypeOK' /\ AnswersKnown /\ [Next]_vars => AnswersKnown'
  BY AnswersKept
<1>3. AnswersKnown => TrainedOnAnswers
  BY DEF AnswersKnown
<1>4. QED
  BY <1>2, <1>3, InitAnswers, TypeCorrect, PTL DEF Spec

-----------------------------------------------------------------------------
(* Fingerprints *)

\* What one step may do to the fingerprint of a person and a room.
WholeRun(k) ==
    prints'[k] # prints[k] /\ prints'[k] # NoPrint =>
        /\ \E j \in Jobs \ failed : jobs[j].state = "run" /\ jobs[j].key = k
        /\ \A s \in prints'[k].samples : s.device = prints'[k].device

LEMMA PutPrintWhole ==
    ASSUME TypeOK, RunsKnown, NEW j \in Jobs, jobs[j].state = "run", NEW k \in Key,
           PutPrint(j) \/ UNCHANGED prints
    PROVE  WholeRun(k)
<1> SUFFICES ASSUME prints'[k] # prints[k]
             PROVE  /\ \E i \in Jobs \ failed : jobs[i].state = "run" /\ jobs[i].key = k
                    /\ \A s \in prints'[k].samples : s.device = prints'[k].device
  BY DEF WholeRun
<1>1. /\ jobs[j].key = k
      /\ prints'[k] = [device |-> jobs[j].device, samples |-> jobs[j].samples]
  BY DEF PutPrint, TypeOK
<1>2. QED
  BY <1>1 DEF RunsKnown

LEMMA StepWhole ==
    ASSUME TypeOK, RunsKnown, [Next]_vars, NEW k \in Key
    PROVE  WholeRun(k)
<1>1. CASE Requests
  BY <1>1 DEF Requests, DeleteRule, Record, Capture, DeleteRow, DeletePrint, TypeOK, WholeRun
<1>2. ASSUME NEW c \in Calls, CallStep(c) PROVE WholeRun(k)
  BY <1>2
     DEF CallStep, SetRule, PutRule, Label, Observe, PutRow, Train, PutModel, Dies, WholeRun
<1>3. ASSUME NEW j \in Jobs, JobStep(j) PROVE WholeRun(k)
  <2>1. CASE SavePrint(j) \/ Redeliver(j)
    BY <2>1, PutPrintWhole DEF SavePrint, Redeliver
  <2>2. CASE ~(SavePrint(j) \/ Redeliver(j))
    BY <1>3, <2>2 DEF JobStep, StartJob, TakeSample, TakeNone, EeroFails, WholeRun
  <2>3. QED
    BY <2>1, <2>2
<1>4. CASE UNCHANGED vars
  BY <1>4 DEF vars, WholeRun
<1>5. QED
  BY <1>1, <1>2, <1>3, <1>4 DEF Next

\* What replaces a fingerprint is a whole run of that person and room, and of one device:
\* for runs of any length, delivered any number of times.
THEOREM PrintsWhole == Spec => PrintsAreWholeRuns
<1>1. TypeOK /\ RunsKnown /\ [Next]_vars =>
        [\A k \in Key : prints'[k] # prints[k] /\ prints'[k] # NoPrint =>
            /\ \E j \in Jobs \ failed : jobs[j].state = "run" /\ jobs[j].key = k
            /\ \A s \in prints'[k].samples : s.device = prints'[k].device]_vars
  BY StepWhole DEF WholeRun
<1>2. QED
  BY <1>1, TypeCorrect, PTL DEF Spec, PrintsAreWholeRuns


-----------------------------------------------------------------------------
(* The classifier *)

LEMMA LeastIs ==
    ASSUME NEW S \in SUBSET (0..4), S # {}
    PROVE  Least(S) \in S /\ \A n \in S : Least(S) <= n
<1>1. \E n \in S : \A m \in S : n <= m
  <2>1. CASE 0 \in S  BY <2>1
  <2>2. CASE 0 \notin S /\ 1 \in S  BY <2>2
  <2>3. CASE 0 \notin S /\ 1 \notin S /\ 2 \in S  BY <2>3
  <2>4. CASE 0 \notin S /\ 1 \notin S /\ 2 \notin S /\ 3 \in S  BY <2>4
  <2>5. CASE 0 \notin S /\ 1 \notin S /\ 2 \notin S /\ 3 \notin S /\ 4 \in S  BY <2>5
  <2>6. 0 \in S \/ 1 \in S \/ 2 \in S \/ 3 \in S \/ 4 \in S
    <3>1. PICK n \in S : TRUE  OBVIOUS
    <3>2. n = 0 \/ n = 1 \/ n = 2 \/ n = 3 \/ n = 4  OBVIOUS
    <3> QED  BY <3>1, <3>2
  <2> QED  BY <2>1, <2>2, <2>3, <2>4, <2>5, <2>6
<1> QED  BY <1>1 DEF Least

\* Only where buckets were compared can a print be away at all.
LEMMA DistanceRange ==
    ASSUME NEW print, NEW spot, spot.bucket \in 0..5,
           \A s \in print.samples : s.bucket \in 0..5
    PROVE  /\ Distance(print, spot) \in 0..4
           /\ Distance(print, spot) # 0 => Measured(print, spot)
<1>1. CASE ~Measured(print, spot)  BY <1>1 DEF Distance
<1>2. CASE Measured(print, spot)
  <2>1. \A b \in BucketsOf(print, spot) : b \in 1..5  BY DEF BucketsOf, OnNode
  <2>2. spot.bucket \in 1..5  BY <1>2 DEF Measured
  <2> DEFINE away == { Away(b, spot.bucket) : b \in BucketsOf(print, spot) }
  <2>3. away \in SUBSET (0..4)  BY <2>1, <2>2 DEF Away
  <2>4. away # {}  BY <1>2 DEF Measured
  <2> HIDE DEF away
  <2>5. Least(away) \in 0..4  BY <2>3, <2>4, LeastIs
  <2> QED  BY <1>2, <2>5 DEF Distance, away
<1> QED  BY <1>1, <1>2

\* The distance is the least one within which the print has a sample.
LEMMA WithinIs ==
    ASSUME NEW print, NEW spot, spot.bucket \in 0..5,
           \A s \in print.samples : s.bucket \in 0..5, NEW n \in 0..3
    PROVE  Within(print, spot, n) <=> OnNode(print, spot) # {} /\ Distance(print, spot) <= n
<1> DEFINE there == { s \in print.samples : s.node = spot.node \/ s.node = spot.zone }
           told == { s \in there : s.bucket # 0 }
<1>1. there = OnNode(print, spot)  BY DEF OnNode
<1>2. BucketsOf(print, spot) = { s.bucket : s \in told }  BY <1>1 DEF BucketsOf
<1>3. Within(print, spot, n) <=>
         there # {} /\ (spot.bucket = 0 \/ told = {} \/ \E s \in told : s.bucket - spot.bucket \in -n..n)
  BY DEF Within
<1>4. \A s \in told : s.bucket \in 1..5  OBVIOUS
<1> HIDE DEF there, told
<1>5. Measured(print, spot) <=> spot.bucket # 0 /\ told # {}  BY <1>2 DEF Measured
<1>6. CASE ~Measured(print, spot)
  <2>1. Distance(print, spot) = 0  BY <1>6 DEF Distance
  <2> QED  BY <1>1, <1>3, <1>5, <1>6, <2>1
<1>7. CASE Measured(print, spot)
  <2> DEFINE away == { Away(s.bucket, spot.bucket) : s \in told }
  <2>1. { Away(b, spot.bucket) : b \in BucketsOf(print, spot) } = away  BY <1>2
  <2>2. Distance(print, spot) = Least(away)  BY <1>7, <2>1 DEF Distance
  <2>3. spot.bucket \in 1..5 /\ told # {}  BY <1>5, <1>7
  <2>4. \A s \in told : /\ Away(s.bucket, spot.bucket) \in 0..4
                        /\ Away(s.bucket, spot.bucket) <= n <=> s.bucket - spot.bucket \in -n..n
    BY <1>4, <2>3 DEF Away
  <2>5. away \in SUBSET (0..4) /\ away # {}  BY <2>3, <2>4
  <2>6. Least(away) \in away /\ \A m \in away : Least(away) <= m
    <3> HIDE DEF away
    <3> QED  BY <2>5, LeastIs
  <2>7. Least(away) <= n <=> \E s \in told : Away(s.bucket, spot.bucket) <= n
    <3>1. ASSUME NEW s \in told, Away(s.bucket, spot.bucket) <= n PROVE Least(away) <= n
      <4>1. Away(s.bucket, spot.bucket) \in away  OBVIOUS
      <4> DEFINE a == Away(s.bucket, spot.bucket)
      <4>2. a \in 0..4 /\ Least(away) \in 0..4 /\ Least(away) <= a /\ a <= n
        BY <2>4, <2>5, <2>6, <3>1, <4>1
      <4> HIDE DEF a, away
      <4> QED  BY <4>2
    <3>2. \E s \in told : Least(away) = Away(s.bucket, spot.bucket)  BY <2>6
    <3> QED  BY <3>1, <3>2
  <2> HIDE DEF away
  <2> QED  BY <1>1, <1>3, <1>5, <1>7, <2>2, <2>3, <2>4, <2>7
<1> QED  BY <1>6, <1>7

\* The floor lets a room pass that is within two buckets, or exact where it has a rival.
LEMMA FloorPasses ==
    ASSUME NEW dist \in 0..4, NEW measured \in BOOLEAN, NEW rival \in BOOLEAN,
           ~measured => dist = 0
    PROVE  Confidence(dist, measured, rival) < Floor <=> ~(dist = 0 \/ (dist <= 2 /\ ~rival))
<1> DEFINE below == Confidence(dist, measured, rival) < Floor
           exact == dist = 0
           close == dist <= 2
<1>1. CASE ~measured
  <2>1. Confidence(dist, measured, rival) = Floor  BY <1>1, Zenon DEF Confidence
  <2>2. ~below /\ exact  BY <1>1, <2>1 DEF Floor
  <2> HIDE DEF below, exact, close
  <2>3. below <=> ~(exact \/ (close /\ ~rival))  BY <2>2, Zenon
  <2> QED  BY <2>3, Zenon DEF below, exact, close
<1>2. CASE measured /\ rival
  <2>1. Confidence(dist, measured, rival) = BucketSpan - dist  BY <1>2, Zenon DEF Confidence
  <2>2. below <=> ~exact  BY <2>1 DEF Floor, BucketSpan
  <2> HIDE DEF below, exact, close
  <2>3. below <=> ~(exact \/ (close /\ ~rival))  BY <1>2, <2>2, Zenon
  <2> QED  BY <2>3, Zenon DEF below, exact, close
<1>3. CASE measured /\ ~rival
  <2>1. Confidence(dist, measured, rival) = 2 * (BucketSpan - dist)  BY <1>3, Zenon DEF Confidence
  <2>2. below <=> ~(exact \/ close)  BY <2>1 DEF Floor, BucketSpan
  <2> HIDE DEF below, exact, close
  <2>3. below <=> ~(exact \/ (close /\ ~rival))  BY <1>3, <2>2, Zenon
  <2> QED  BY <2>3 DEF below, exact, close
<1> QED  BY <1>1, <1>2, <1>3

LEMMA NearestOf ==
    ASSUME NEW near, IsFiniteSet(DOMAIN near), NEW spot, spot.bucket \in 0..5,
           \A k \in DOMAIN near : \A s \in near[k].samples : s.bucket \in 0..5,
           NEW room, room # "unknown"
    PROVE  LET here == { k \in DOMAIN near : OnNode(near[k], spot) # {} }
               dist(k) == Distance(near[k], spot)
           IN  Classified(near, spot) = room <=>
                 \E k \in here :
                     /\ k.room = room /\ dist(k) <= 2
                     /\ \A m \in here : m.room # room =>
                           dist(m) > dist(k) /\ (dist(k) = 0 \/ dist(m) >= dist(k) + 2)
<1> DEFINE ranked == { k \in DOMAIN near : OnNode(near[k], spot) # {} }
           dist(k) == Distance(near[k], spot)
           best == Least({ dist(k) : k \in ranked })
           winners == { k \in ranked : dist(k) = best }
           rooms == { k.room : k \in winners }
           measured == \E k \in winners : Measured(near[k], spot)
           rival == \E k \in ranked : k.room \notin rooms /\ dist(k) - best <= 1
           sure == ~(Confidence(best, measured, rival) < Floor)
           wins(k) == /\ k.room = room /\ dist(k) <= 2
                      /\ \A m \in ranked : m.room # room =>
                            dist(m) > dist(k) /\ (dist(k) = 0 \/ dist(m) >= dist(k) + 2)
           named == IF ranked = {} \/ Cardinality(rooms) # 1 \/ ~sure THEN "unknown"
                    ELSE CHOOSE r \in rooms : TRUE
<1>1. Classified(near, spot) = named  BY DEF Classified
<1>2. \A k \in ranked : dist(k) \in 0..4 /\ (dist(k) # 0 => Measured(near[k], spot))
  BY DistanceRange
<1>3. IsFiniteSet(rooms)
  <2>1. IsFiniteSet(winners)  BY FS_Subset
  <2> DEFINE roomOf == [k \in winners |-> k.room]
  <2>2. roomOf \in Surjection(winners, rooms)  BY DEF Surjection
  <2> HIDE DEF winners, rooms, roomOf
  <2> QED  BY <2>1, <2>2, FS_Surjection
<1>4. CASE ranked = {}
  BY <1>1, <1>4
<1>5. CASE ranked # {}
  <2> DEFINE D == { dist(k) : k \in ranked }
  <2>1. D \in SUBSET (0..4) /\ D # {}  BY <1>2, <1>5
  <2>2. Least(D) \in D /\ \A n \in D : Least(D) <= n
    <3> HIDE DEF D
    <3> QED  BY <2>1, LeastIs
  <2>3. best \in 0..4 /\ winners # {} /\ \A k \in ranked : best <= dist(k)
    BY <2>1, <2>2
  <2>4. ~measured => best = 0  BY <1>2, <2>3
  <2>5. sure <=> best = 0 \/ (best <= 2 /\ ~rival)
    <3>1. measured \in BOOLEAN /\ rival \in BOOLEAN  OBVIOUS
    <3> HIDE DEF measured, rival, best
    <3> QED  BY <2>3, <2>4, <3>1, FloorPasses
  <2>6. named = room <=> rooms = {room} /\ sure
    <3>1. Cardinality(rooms) = 1 <=> \E r : rooms = {r}  BY <1>3, FS_Singleton
    <3> HIDE DEF rooms, sure, ranked
    <3>2. \A r : rooms = {r} => (CHOOSE x \in rooms : TRUE) = r  OBVIOUS
    <3> QED  BY <1>5, <3>1, <3>2
  <2> HIDE DEF best, sure
  <2>7. ASSUME rooms = {room}, sure PROVE \E k \in ranked : wins(k)
    <3>1. PICK k \in winners : TRUE  BY <2>3
    <3>2. k \in ranked /\ k.room = room /\ dist(k) = best  BY <2>7, <3>1
    <3>3. best <= 2  BY <2>3, <2>5, <2>7
    <3>4. ASSUME NEW m \in ranked, m.room # room
          PROVE  dist(m) > best /\ (best = 0 \/ dist(m) >= best + 2)
      <4>1. m \notin winners  BY <2>7, <3>4
      <4>2. dist(m) \in 0..4 /\ best <= dist(m) /\ dist(m) # best  BY <1>2, <2>3, <4>1
      <4>3. best # 0 => ~(dist(m) - best <= 1)  BY <2>5, <2>7, <3>4
      <4> HIDE DEF dist
      <4> QED  BY <2>3, <4>2, <4>3
    <3> QED  BY <3>2, <3>3, <3>4
  <2>8. ASSUME NEW k \in ranked, wins(k) PROVE rooms = {room} /\ sure
    <3>1. dist(k) \in 0..4 /\ best <= dist(k) /\ dist(k) <= 2 /\ k.room = room  BY <1>2, <2>3, <2>8
    <3>2. ASSUME NEW m \in ranked, m.room # room
          PROVE  dist(m) \in 0..4 /\ dist(m) > dist(k) /\ (dist(k) = 0 \/ dist(m) >= dist(k) + 2)
      BY <1>2, <2>8, <3>2
    <3>3. ASSUME NEW m \in winners PROVE m.room = room
      <4>1. m \in ranked /\ dist(m) = best  OBVIOUS
      <4> HIDE DEF dist
      <4> QED  BY <2>3, <3>1, <3>2, <4>1
    <3>4. rooms = {room}  BY <2>3, <3>3
    <3>5. best = 0 \/ ~rival
      <4>1. ASSUME rival, best # 0 PROVE FALSE
        <5>1. PICK m \in ranked : m.room # room /\ dist(m) - best <= 1  BY <3>4, <4>1
        <5>2. dist(m) \in 0..4 /\ dist(m) > dist(k) /\ (dist(k) = 0 \/ dist(m) >= dist(k) + 2)
          BY <3>2, <5>1
        <5> HIDE DEF dist
        <5> QED  BY <2>3, <3>1, <4>1, <5>1, <5>2
      <4> QED  BY <4>1
    <3>6. best <= 2
      <4> HIDE DEF dist
      <4> QED  BY <2>3, <3>1
    <3> DEFINE exact == best = 0
               close == best <= 2
    <3>7. close /\ (sure <=> exact \/ (close /\ ~rival)) /\ (exact \/ ~rival)  BY <2>5, <3>5, <3>6
    <3> HIDE DEF rooms, rival, exact, close
    <3> QED  BY <3>4, <3>7, Zenon
  <2> QED  BY <1>1, <2>6, <2>7, <2>8
<1> QED  BY <1>4, <1>5

\* The same, by samples that are near enough.
LEMMA NearestWithin ==
    ASSUME NEW near, IsFiniteSet(DOMAIN near), NEW spot, spot.bucket \in 0..5,
           \A k \in DOMAIN near : \A s \in near[k].samples : s.bucket \in 0..5,
           NEW room, room # "unknown"
    PROVE  LET InRoom(n) == \E k \in DOMAIN near : k.room = room /\ Within(near[k], spot, n)
               Elsewhere(n) == \E k \in DOMAIN near : k.room # room /\ Within(near[k], spot, n)
           IN  Classified(near, spot) = room <=>
                 \E n \in 0..2 : InRoom(n) /\ ~Elsewhere(IF n = 0 THEN 0 ELSE n + 1)
<1> DEFINE InRoom(n) == \E k \in DOMAIN near : k.room = room /\ Within(near[k], spot, n)
           Elsewhere(n) == \E k \in DOMAIN near : k.room # room /\ Within(near[k], spot, n)
           next(n) == IF n = 0 THEN 0 ELSE n + 1
           here == { k \in DOMAIN near : OnNode(near[k], spot) # {} }
           dist(k) == Distance(near[k], spot)
           wins(k) == /\ k.room = room /\ dist(k) <= 2
                      /\ \A m \in here : m.room # room =>
                            dist(m) > dist(k) /\ (dist(k) = 0 \/ dist(m) >= dist(k) + 2)
           Is(n) == InRoom(n) /\ ~Elsewhere(next(n))
<1>1. Classified(near, spot) = room <=> \E k \in here : wins(k)  BY NearestOf
<1>2. \A k \in here : dist(k) \in 0..4  BY DistanceRange
<1>3. \A k \in DOMAIN near, n \in 0..3 : Within(near[k], spot, n) <=> k \in here /\ dist(k) <= n
  BY WithinIs
<1> HIDE DEF dist, here
<1>4. ASSUME NEW k \in here, wins(k) PROVE \E n \in 0..2 : Is(n)
  <2>1. dist(k) \in 0..2 /\ next(dist(k)) \in 0..3  BY <1>2, <1>4
  <2>2. InRoom(dist(k))
    <3>1. k \in DOMAIN near  BY DEF here
    <3> QED  BY <1>3, <1>4, <2>1, <3>1
  <2>3. ASSUME Elsewhere(next(dist(k))) PROVE FALSE
    <3>1. PICK m \in DOMAIN near : m.room # room /\ Within(near[m], spot, next(dist(k)))
      BY <2>3
    <3>2. m \in here /\ dist(m) <= next(dist(k))  BY <1>3, <2>1, <3>1
    <3>3. dist(m) > dist(k) /\ (dist(k) = 0 \/ dist(m) >= dist(k) + 2)  BY <1>4, <3>1, <3>2
    <3>4. dist(m) \in 0..4  BY <1>2, <3>2
    <3> QED  BY <2>1, <3>2, <3>3, <3>4
  <2> QED  BY <2>1, <2>2, <2>3
<1>5. ASSUME NEW n \in 0..2, Is(n) PROVE \E k \in here : wins(k)
  <2>1. next(n) \in 0..3 /\ n \in 0..3  OBVIOUS
  <2>2. PICK k \in DOMAIN near : k.room = room /\ Within(near[k], spot, n)  BY <1>5
  <2>3. k \in here /\ dist(k) <= n /\ dist(k) \in 0..4  BY <1>2, <1>3, <2>1, <2>2
  <2>4. ASSUME NEW m \in here, m.room # room
        PROVE  dist(m) > dist(k) /\ (dist(k) = 0 \/ dist(m) >= dist(k) + 2)
    <3>1. m \in DOMAIN near  BY DEF here
    <3>2. ~Within(near[m], spot, next(n))  BY <1>5, <2>4, <3>1
    <3>3. dist(m) \in 0..4 /\ ~(dist(m) <= next(n))  BY <1>2, <1>3, <2>1, <3>1, <3>2
    <3> QED  BY <2>3, <3>3
  <2>5. dist(k) <= 2  BY <2>3
  <2> QED  BY <2>2, <2>3, <2>4, <2>5
<1> HIDE DEF InRoom, Elsewhere, wins
<1>6. Classified(near, spot) = room <=> \E n \in 0..2 : Is(n)  BY <1>1, <1>4, <1>5
<1> QED  BY <1>6 DEF InRoom, Elsewhere

\* There are finitely many prints: a step puts or deletes one.
KeptFinite == IsFiniteSet(Kept)

LEMMA OneMore ==
    ASSUME KeptFinite, NEW k, Kept' \subseteq Kept \cup {k}
    PROVE  KeptFinite'
<1>1. IsFiniteSet(Kept \cup {k})  BY FS_AddElement DEF KeptFinite
<1>2. IsFiniteSet(Kept')  BY <1>1, FS_Subset
<1> QED  BY <1>2 DEF KeptFinite

LEMMA KeptStaysFinite == TypeOK /\ KeptFinite /\ [Next]_vars => KeptFinite'
<1> SUFFICES ASSUME TypeOK, KeptFinite, [Next]_vars PROVE KeptFinite'
  OBVIOUS
<1>1. ASSUME UNCHANGED prints PROVE KeptFinite'  BY <1>1 DEF KeptFinite, Kept
<1>2. ASSUME NEW j \in Jobs, PutPrint(j) PROVE KeptFinite'
  BY <1>2, <1>1, OneMore DEF PutPrint, Kept, TypeOK
<1>3. CASE Requests
  <2>1. ASSUME DeletePrint PROVE KeptFinite'
    <3>1. PICK k \in Kept : prints' = [prints EXCEPT ![k] = NoPrint]  BY <2>1 DEF DeletePrint
    <3>2. Kept' \subseteq Kept \cup {k}  BY <3>1 DEF Kept, TypeOK
    <3> QED  BY <3>2, OneMore
  <2> QED  BY <1>1, <1>3, <2>1 DEF Requests, DeleteRule, Record, Capture, DeleteRow
<1>4. ASSUME NEW c \in Calls, CallStep(c) PROVE KeptFinite'
  BY <1>1, <1>4 DEF CallStep, SetRule, PutRule, Label, Observe, PutRow, Train, PutModel, Dies
<1>5. ASSUME NEW j \in Jobs, JobStep(j) PROVE KeptFinite'
  BY <1>1, <1>2, <1>5
     DEF JobStep, StartJob, TakeSample, TakeNone, EeroFails, SavePrint, Redeliver
<1>6. CASE UNCHANGED vars
  BY <1>1, <1>6 DEF vars
<1> QED  BY <1>3, <1>4, <1>5, <1>6 DEF Next

\* A person is placed in the room that has a sample within two buckets, under the node's
\* name or its location, when no other room has one as near (or one bucket farther away,
\* unless it is exact), and in no room otherwise: for all people, rooms, spots and
\* fingerprints that runs have put.
THEOREM NearestHolds == Spec => []NamesTheNearest
<1>1. Init => KeptFinite
  <2> SUFFICES ASSUME Init PROVE KeptFinite
    OBVIOUS
  <2>1. Kept = {}  BY DEF Init, Kept
  <2> QED  BY <2>1, FS_EmptySet DEF KeptFinite
<1>2. TypeOK /\ KeptFinite => NamesTheNearest
  <2> SUFFICES ASSUME TypeOK, KeptFinite,
                      NEW p \in People, NEW d \in Devices, NEW spot \in Spots, NEW room \in Rooms
               PROVE  LET near == Usable(p, d)
                          InRoom(n) == \E k \in DOMAIN near : k.room = room /\ Within(near[k], spot, n)
                          Elsewhere(n) == \E k \in DOMAIN near : k.room # room /\ Within(near[k], spot, n)
                      IN  Classified(near, spot) = room <=>
                            \E n \in 0..2 : InRoom(n) /\ ~Elsewhere(IF n = 0 THEN 0 ELSE n + 1)
    BY DEF NamesTheNearest
  <2>1. spot.bucket \in 0..5 /\ room # "unknown"  BY RoomsAssumption DEF Spot
  <2>2. DOMAIN Usable(p, d) \subseteq Kept  BY DEF Usable
  <2>3. IsFiniteSet(DOMAIN Usable(p, d))  BY <2>2, FS_Subset DEF KeptFinite
  <2>4. ASSUME NEW k \in DOMAIN Usable(p, d), NEW s \in Usable(p, d)[k].samples
        PROVE  s.bucket \in 0..5
    <3>1. k \in Key /\ prints[k] # NoPrint /\ Usable(p, d)[k] = prints[k]
      BY <2>2 DEF Usable, Kept
    <3>2. prints[k] \in Entry  BY <3>1 DEF TypeOK
    <3>3. s \in Sample  BY <3>1, <3>2 DEF Entry
    <3>4. PICK t \in Spots : s.bucket = t.bucket  BY <3>3 DEF Sample, Sampled
    <3> QED  BY <3>4, RoomsAssumption DEF Spot
  <2> HIDE DEF Usable
  <2> QED  BY <2>1, <2>3, <2>4, NearestWithin
<1> QED  BY <1>1, <1>2, KeptStaysFinite, TypeCorrect, PTL DEF Spec
=============================================================================
