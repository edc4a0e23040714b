-------------------------------- MODULE Rooms --------------------------------
(***************************************************************************)
(* What the rooms of people are learned from: three tables that the        *)
(* calibration Lambda, the presence poll and the training script share.    *)
(*                                                                         *)
(*   prints   room fingerprints, put by sample runs (eero_calibration_     *)
(*            handler.collect_room), and the models trained from check-ins *)
(*   rows     labelled check-ins (room_checkin)                            *)
(*   rules    where somebody is between two clock times (room_schedule)    *)
(*                                                                         *)
(* No request holds a lock: each reads, decides and writes.                *)
(***************************************************************************)
EXTENDS Fingerprint

CONSTANTS
    People, Devices, Rooms,
    Spots,          \* what eero may report of a device
    Minutes,        \* the minutes of a day
    Windows,        \* where rules may start and end
    Zones, Offset,  \* time zones, and how far each is ahead
    CallerSources,  \* the sources that callers give their check-ins
    Calls,          \* requests, polls and trainings under way at once
    Jobs,           \* sample runs, each of which is asked for once
    MaxSamples,     \* the samples that a run is asked for
    MinTrainRows,   \* MIN_TRAIN_ROWS
    MaxCalls        \* bound: requests, polls, trainings, redeliveries, and twice the
                    \*   sample runs

\* "asked" for record, capture and names of the caller's own; "schedule_rule" also for
\* the hourly routines.
Sources == {"asked", "schedule_rule"}

ASSUME BoundsAssumption ==
    /\ Minutes \in Nat \ {0} /\ MaxSamples \in Nat \ {0}
    /\ MinTrainRows \in Nat /\ MaxCalls \in Nat

ASSUME RoomsAssumption ==
    /\ Windows \subseteq (0..(Minutes - 1)) \times (0..(Minutes - 1))
    /\ Offset \in [Zones -> Nat]
    /\ CallerSources \subseteq Sources
    /\ \A s \in Spots : s \in Spot({s.node, s.zone})
    /\ "not home" \notin Rooms /\ "" \notin Rooms /\ "unknown" \notin Rooms
    /\ "none" \notin Devices

VARIABLES
    prints,     \* prints[k]: the fingerprint of person and room k
    models,     \* models[p]: the rooms p's model names, {} without a model
    rows,       \* rows[i]: the check-in with id i
    rules,      \* the schedule rules
    calls,      \* what each request, poll and training is about to put
    jobs,       \* the sample runs
    used,       \* how many of MaxCalls there were so far
    stale,      \* history: calls that decided before another rule was put
    raced,      \* history: people who got a rule from such a call
    failed,     \* history: sample runs that go on though eero has failed
    answers     \* history: answers[p]: the labels that callers gave for p

vars == <<prints, models, rows, rules, calls, jobs, used, stale, raced, failed, answers>>

Key == [person : People, room : Rooms]

\* A sample keeps the node's name and the bucket, not the location.
Sampled(spot, device) == [node |-> spot.node, bucket |-> spot.bucket, device |-> device]
Sample == { Sampled(spot, d) : spot \in Spots, d \in Devices }

Entry == [device : Devices, samples : SUBSET Sample]
NoPrint == [device |-> "none", samples |-> {}]

Labels == Rooms \cup {"not home"}
Row == [person : People, room : Labels \cup {""}, source : Sources]
NoRow == [person |-> "none", room |-> "", source |-> "none"]
Ids == 1..MaxCalls

Clock == 0..(Minutes - 1)
Rule == [person : People, room : Rooms, start : Clock, end : Clock, zone : Zones]

\* rule_id_for: a person's rules are told apart by their windows.
RuleId(r) == <<r.person, r.start, r.end>>

Idle == [op |-> "idle"]
Call ==
    {Idle} \cup [op : {"set"}, rule : Rule] \cup [op : {"store"}, id : Ids, row : Row]
    \cup [op : {"train"}, person : People, rooms : SUBSET Rooms]

NoJob == [state |-> "none"]
Over == [state |-> "over"]
Job ==
    {NoJob, Over} \cup
    [state : {"run"}, key : Key, left : 0..MaxSamples,
     device : Devices \cup {"none"}, samples : SUBSET Sample]

TypeOK ==
    /\ prints \in [Key -> Entry \cup {NoPrint}]
    /\ models \in [People -> SUBSET Rooms]
    /\ rows \in [Ids -> Row \cup {NoRow}]
    /\ rules \subseteq Rule
    /\ calls \in [Calls -> Call]
    /\ jobs \in [Jobs -> Job]
    /\ used \in 0..MaxCalls
    /\ stale \subseteq Calls /\ raced \subseteq People /\ failed \subseteq Jobs
    /\ answers \in [People -> SUBSET Labels]

Init ==
    /\ prints = [k \in Key |-> NoPrint]
    /\ models = [p \in People |-> {}]
    /\ rows = [i \in Ids |-> NoRow]
    /\ rules = {}
    /\ calls = [c \in Calls |-> Idle]
    /\ jobs = [j \in Jobs |-> NoJob]
    /\ used = 0
    /\ stale = {} /\ raced = {} /\ failed = {}
    /\ answers = [p \in People |-> {}]

\* A call has read the tables and goes on to write what it made of them.
Takes(c, call) ==
    /\ calls[c] = Idle /\ used < MaxCalls
    /\ calls' = [calls EXCEPT ![c] = call]
    /\ used' = used + 1
    /\ stale' = stale \ {c}

Ends(c) == calls' = [calls EXCEPT ![c] = Idle] /\ UNCHANGED used

\* A call whose one write does not depend on what it has read.
AtOnce == used < MaxCalls /\ used' = used + 1 /\ UNCHANGED calls

-----------------------------------------------------------------------------
(* Schedule rules *)

\* in_window, _contains: half open; a window that ends before it starts wraps midnight.
Contains(r, m) ==
    IF r.start <= r.end THEN r.start <= m /\ m < r.end
    ELSE m >= r.start \/ m < r.end

\* Variant for the checks: the usual comparison of intervals, which forgets midnight.
Overlaps_Intervals(r, s) == r.start < s.end /\ s.start < r.end

\* _overlaps: zones are not compared.
Overlaps(r, s) == \E m \in Clock : Contains(r, m) /\ Contains(s, m)

\* set_rule, up to its put: another rule of the person overlaps, or it goes ahead.
SetRule(c) ==
    /\ \E r \in Rule :
          /\ <<r.start, r.end>> \in Windows /\ r.start # r.end
          /\ ~\E s \in rules : s.person = r.person /\ RuleId(s) # RuleId(r) /\ Overlaps(r, s)
          /\ Takes(c, [op |-> "set", rule |-> r])
    /\ UNCHANGED <<prints, models, rows, rules, jobs, raced, failed, answers>>

PutRule(c) ==
    /\ calls[c].op = "set"
    /\ rules' = { s \in rules : RuleId(s) # RuleId(calls[c].rule) } \cup {calls[c].rule}
    /\ stale' = { d \in Calls : d # c /\ calls[d].op = "set" }
    /\ raced' = IF c \in stale THEN raced \cup {calls[c].rule.person} ELSE raced
    /\ Ends(c)
    /\ UNCHANGED <<prints, models, rows, jobs, failed, answers>>

\* delete_rule.  What it reads before only decides on the reply.
DeleteRule ==
    /\ AtOnce
    /\ \E r \in rules : rules' = rules \ {r}
    /\ UNCHANGED <<prints, models, rows, jobs, stale, raced, failed, answers>>

\* The rules whose window holds at m, in their own time.
Holding(p, m) ==
    { r \in rules : /\ r.person = p /\ r.start # r.end
                    /\ Contains(r, (m + Offset[r.zone]) % Minutes) }

\* matching_rule: of several the one that starts first.
Matching(p, m) == { r \in Holding(p, m) : \A s \in Holding(p, m) : r.start <= s.start }

-----------------------------------------------------------------------------
(* Check-ins *)

NewRow(p, room, source) == [person |-> p, room |-> room, source |-> source]

\* record: the row with the answer, under an id of its own.  A caller may name the source.
Record ==
    /\ AtOnce
    /\ \E p \in People, label \in Labels, source \in CallerSources :
          /\ rows' = [rows EXCEPT ![used'] = NewRow(p, label, source)]
          /\ answers' = [answers EXCEPT ![p] = @ \cup {label}]
    /\ UNCHANGED <<prints, models, rules, jobs, stale, raced, failed>>

\* capture: the row without an answer.
Capture ==
    /\ AtOnce
    /\ \E p \in People, source \in CallerSources :
          rows' = [rows EXCEPT ![used'] = NewRow(p, "", source)]
    /\ UNCHANGED <<prints, models, rules, jobs, stale, raced, failed, answers>>

\* label: the row is loaded, to be put back whole with the answer.
Label(c) ==
    /\ \E i \in Ids, label \in Labels :
          /\ rows[i] # NoRow
          /\ Takes(c, [op |-> "store", id |-> i, row |-> [rows[i] EXCEPT !.room = label]])
          /\ answers' = [answers EXCEPT ![rows[i].person] = @ \cup {label}]
    /\ UNCHANGED <<prints, models, rows, rules, jobs, raced, failed>>

\* store_observed: a poll that finds somebody in the window of a rule stores a row.
Observe(c) ==
    /\ \E p \in People, m \in Clock : \E r \in Matching(p, m) :
          Takes(c, [op |-> "store", id |-> used + 1, row |-> NewRow(p, r.room, "schedule_rule")])
    /\ UNCHANGED <<prints, models, rows, rules, jobs, raced, failed, answers>>

PutRow(c) ==
    /\ calls[c].op = "store"
    /\ rows' = [rows EXCEPT ![calls[c].id] = calls[c].row]
    /\ Ends(c)
    /\ UNCHANGED <<prints, models, rules, jobs, stale, raced, failed, answers>>

\* delete_checkin.
DeleteRow ==
    /\ AtOnce
    /\ \E i \in Ids : rows[i] # NoRow /\ rows' = [rows EXCEPT ![i] = NoRow]
    /\ UNCHANGED <<prints, models, rules, jobs, stale, raced, failed, answers>>

-----------------------------------------------------------------------------
(* Training *)

\* Variant: rows that the poll wrote train as well.
Trainable_Any(p) == { i \in Ids : rows[i].person = p /\ rows[i].room \in Rooms }

\* is_training_label: a room that somebody confirmed.  Not home is no room.
Trainable(p) ==
    { i \in Ids : rows[i].person = p /\ rows[i].room \in Rooms /\ rows[i].source # "schedule_rule" }

\* build_model needs MIN_TRAIN_ROWS, and leave_one_out_eval builds a model without each row.
Enough(S) == Cardinality(S) - 1 >= MinTrainRows

\* train_from_checkins.  Rows without a node and a signal are left out, so any may be.
Train(c) ==
    /\ \E p \in People : \E S \in SUBSET Trainable(p) :
          /\ Enough(S)
          /\ Takes(c, [op |-> "train", person |-> p, rooms |-> { rows[i].room : i \in S }])
    /\ UNCHANGED <<prints, models, rows, rules, jobs, raced, failed, answers>>

\* save_model: classifier# rows of the fingerprint table, which delete_fingerprints skips.
PutModel(c) ==
    /\ calls[c].op = "train"
    /\ models' = [models EXCEPT ![calls[c].person] = calls[c].rooms]
    /\ Ends(c)
    /\ UNCHANGED <<prints, rows, rules, jobs, stale, raced, failed, answers>>

-----------------------------------------------------------------------------
(* Room fingerprints *)

Fresh(key) ==
    [state |-> "run", key |-> key, left |-> MaxSamples, device |-> "none", samples |-> {}]

\* start_job: the request is answered once the sample run is queued.
StartJob(j) ==
    /\ jobs[j] = NoJob /\ used + 1 < MaxCalls
    /\ \E key \in Key : jobs' = [jobs EXCEPT ![j] = Fresh(key)]
    /\ used' = used + 2
    /\ UNCHANGED <<prints, models, rows, rules, calls, stale, raced, failed, answers>>

Sampling(j) == jobs[j].state = "run" /\ jobs[j].left > 0

\* The first sample decides on the device; one of another device is passed over.
Taken(job, sample) ==
    IF job.device \in {"none", sample.device}
    THEN [job EXCEPT !.left = @ - 1, !.device = sample.device, !.samples = @ \cup {sample}]
    ELSE [job EXCEPT !.left = @ - 1]

TakeSample(j) ==
    /\ Sampling(j)
    /\ \E s \in Sample : jobs' = [jobs EXCEPT ![j] = Taken(jobs[j], s)]
    /\ UNCHANGED <<prints, models, rows, rules, calls, used, stale, raced, failed, answers>>

\* No device of the person is connected, or not to a node.
TakeNone(j) ==
    /\ Sampling(j)
    /\ jobs' = [jobs EXCEPT ![j].left = @ - 1]
    /\ UNCHANGED <<prints, models, rows, rules, calls, used, stale, raced, failed, answers>>

\* Variant: the samples so far are kept.
AfterFailure_Keeps(j) == [jobs[j] EXCEPT !.left = 0]

AfterFailure(j) == Over

\* eero rejects the session or cannot be reached.
EeroFails(j) ==
    /\ Sampling(j)
    /\ jobs' = [jobs EXCEPT ![j] = AfterFailure(j)]
    /\ failed' = IF jobs'[j] = Over THEN failed ELSE failed \cup {j}
    /\ UNCHANGED <<prints, models, rows, rules, calls, used, stale, raced, answers>>

\* fingerprint_item, save_fingerprint: the room's samples are replaced, if there are any.
PutPrint(j) ==
    /\ jobs[j].left = 0
    /\ prints' = IF jobs[j].samples = {} THEN prints
                 ELSE [prints EXCEPT ![jobs[j].key] =
                          [device |-> jobs[j].device, samples |-> jobs[j].samples]]

SavePrint(j) ==
    /\ jobs[j].state = "run" /\ PutPrint(j)
    /\ jobs' = [jobs EXCEPT ![j] = Over]
    /\ UNCHANGED <<models, rows, rules, calls, used, stale, raced, failed, answers>>

\* The run raises or times out, before its put or after it.  Lambda starts it anew, at
\* most twice.
Redeliver(j) ==
    /\ jobs[j].state = "run"
    /\ \/ used < MaxCalls /\ used' = used + 1 /\ jobs' = [jobs EXCEPT ![j] = Fresh(@.key)]
       \/ UNCHANGED used /\ jobs' = [jobs EXCEPT ![j] = Over]
    /\ UNCHANGED prints \/ PutPrint(j)
    /\ failed' = failed \ {j}
    /\ UNCHANGED <<models, rows, rules, calls, stale, raced, answers>>

Kept == { k \in Key : prints[k] # NoPrint }

\* delete_fingerprints, of one person or of all: the table is scanned and the room's items
\* are deleted one by one, so each of them is a step.
DeletePrint ==
    /\ AtOnce
    /\ \E k \in Kept : prints' = [prints EXCEPT ![k] = NoPrint]
    /\ UNCHANGED <<models, rows, rules, jobs, stale, raced, failed, answers>>

\* A call raises or times out before its write.
Dies(c) ==
    /\ calls[c] # Idle
    /\ Ends(c)
    /\ UNCHANGED <<prints, models, rows, rules, jobs, stale, raced, failed, answers>>

-----------------------------------------------------------------------------
Requests == DeleteRule \/ Record \/ Capture \/ DeleteRow \/ DeletePrint

CallStep(c) ==
    \/ SetRule(c) \/ PutRule(c) \/ Label(c) \/ Observe(c) \/ PutRow(c)
    \/ Train(c) \/ PutModel(c) \/ Dies(c)

JobStep(j) ==
    \/ StartJob(j) \/ TakeSample(j) \/ TakeNone(j) \/ EeroFails(j)
    \/ SavePrint(j) \/ Redeliver(j)

Next == Requests \/ (\E c \in Calls : CallStep(c)) \/ (\E j \in Jobs : JobStep(j))

Spec == Init /\ [][Next]_vars

-----------------------------------------------------------------------------
(* Properties *)

\* Two rules of a person in one zone never hold at one time -- windows across midnight
\* and rules deleted or set anew in between included -- unless a rule was put between the
\* check of another and its put.  (room_schedule.set_rule)
WindowsDisjoint ==
    \A r, s \in rules :
        r.person = s.person /\ r.zone = s.zone /\ r # s /\ r.person \notin raced
            => \A m \in Clock : ~(Contains(r, m) /\ Contains(s, m))

\* "A room is named only from a labelled check-in, never guessed": a model knows no room
\* that nobody answered for the person, however polls, labels, deletions and trainings
\* interleave.  This is what the classifier says of itself ("rows the system wrote without
\* a human confirmation -- not training labels") and what its tests ask; two other texts
\* say the contrary of the rows that the schedule makes: ScheduledHoursTrain.
\* (room_classifier.TRAINING_LABEL_EXCLUDED_SOURCES, train_rows)
TrainedOnAnswers == \A p \in People : models[p] \subseteq answers[p]

\* "A failed read ... leaves the previous samples in place": what replaces a fingerprint
\* comes from a run of that person and room whose reads all succeeded, delivered again or
\* not, and is of one device.  (eero_calibration_handler.collect_room)
PrintsAreWholeRuns ==
    [][\A k \in Key : prints'[k] # prints[k] /\ prints'[k] # NoPrint =>
          /\ \E j \in Jobs \ failed : jobs[j].state = "run" /\ jobs[j].key = k
          /\ \A s \in prints'[k].samples : s.device = prints'[k].device]_vars

Usable(p, d) == [ k \in { k \in Kept : k.person = p \/ prints[k].device = d } |-> prints[k] ]

\* A print has a sample within d buckets of the reading, among those stored under the
\* node's name or its location.  Where a signal is missing, being there is near enough.
Within(print, spot, d) ==
    LET there == { s \in print.samples : s.node = spot.node \/ s.node = spot.zone }
        told == { s \in there : s.bucket # 0 }
    IN  /\ there # {}
        /\ spot.bucket = 0 \/ told = {} \/ \E s \in told : s.bucket - spot.bucket \in -d..d

\* A person is placed in the one room that has a sample there within two buckets, when no
\* other room has one as near, or, unless it is exact, even one bucket farther away.
\* (room_fingerprint.classify)
NamesTheNearest ==
    \A p \in People, d \in Devices :
        LET near == Usable(p, d)
        IN  \A spot \in Spots :
              LET named == Classified(near, spot)
                  InRoom(room, n) == \E k \in DOMAIN near : k.room = room /\ Within(near[k], spot, n)
                  Elsewhere(room, n) == \E k \in DOMAIN near : k.room # room /\ Within(near[k], spot, n)
              IN  \A room \in Rooms :
                    named = room <=>
                      \E n \in 0..2 : InRoom(room, n) /\ ~Elsewhere(room, IF n = 0 THEN 0 ELSE n + 1)

\* "... one labeled check-in per local hour so the overnight hours are training data": each
\* stored row that has a room may train.  (room_schedule, docs/eero-presence.md)
ScheduledHoursTrain ==
    \A i \in Ids : rows[i].room \in Rooms => i \in Trainable(rows[i].person)

\* "That window overlaps another rule for this person" is refused: at any moment one rule
\* at most holds for a person.
OneRuleAtATime ==
    \A p \in People \ raced, m \in Clock : Cardinality(Holding(p, m)) <= 1
=============================================================================
