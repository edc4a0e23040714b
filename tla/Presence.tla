------------------------------ MODULE Presence ------------------------------
(***************************************************************************)
(* Who is home: one item, home_state, that the eero poller and             *)
(* POST /presence read, change and put back whole.                         *)
(*                                                                         *)
(*   eero_presence_handler, eero_presence   polls, debounce of departures  *)
(*   presence_store, app._route_presence    stale marks, changes by hand   *)
(*   room_fingerprint, room_schedule        the room of each person        *)
(*                                                                         *)
(* An item that was never written reads like the default one: a person it  *)
(* does not name is home, without misses and in no known room.             *)
(***************************************************************************)
EXTENDS Naturals

CONSTANTS
    People,         \* the tracked people
    Calibrated,     \* those whom a fingerprint, a model or a rule names
    Rooms,          \* room labels
    Threshold,      \* EERO_AWAY_MISS_THRESHOLD
    Pollers,        \* runs of the poller that may overlap
    Callers         \* calls of POST /presence that may overlap

ASSUME PresenceAssumption ==
    /\ Calibrated \subseteq People
    /\ "unknown" \notin Rooms /\ "none" \notin Rooms
    /\ Threshold \in Nat \ {0}
    /\ Pollers \cap Callers = {}

VARIABLES
    home,       \* the item
    pc,         \* where each run is
    draft,      \* the item it is about to put
    seen,       \* whom the poll saw
    reading,    \* reading[l][p]: the room the poll classified p into
    due,        \* whose check-in the poll has still to store
    late,       \* the hour has turned since the poll read the clock
    rows,       \* rows[p]: check-ins stored for p in this hour, up to 2
    behind,     \* history: the item has changed since the run read it
    lost,       \* history: a put has undone another one
    streak,     \* history: polls in a row that missed p, up to Threshold
    agree       \* history: the last reading of p and how often in a row, up to 2,
                \*   since p was last away

poll    == <<seen, reading, due, late>>
history == <<behind, lost, streak, agree>>
vars    == <<home, pc, draft, poll, rows, history>>

Labels == Rooms \cup {"unknown"}
SmoothingReadings == 2
Procs == Pollers \cup Callers

Person == [home : BOOLEAN, misses : 0..Threshold, room : Labels, ruled : BOOLEAN,
           pending : Labels \cup {"none"}, count : 0..SmoothingReadings, keyed : BOOLEAN]

\* Zones, signals, times and freshness are left out: nothing here is decided by them.
Item == [is_home : BOOLEAN, people : [People -> Person]]

NewPerson == [home |-> TRUE, misses |-> 0, room |-> "unknown", ruled |-> FALSE,
              pending |-> "none", count |-> 0, keyed |-> FALSE]

NoItem == [is_home |-> TRUE, people |-> [p \in People |-> NewPerson]]

NoReadings == [p \in Calibrated |-> "none"]
NoAgree == [room |-> "none", n |-> 0]

TypeOK ==
    /\ home \in Item
    /\ pc \in [Procs -> {"idle", "listed", "write", "stale", "manual"}]
    /\ draft \in [Procs -> Item]
    /\ seen \in [Pollers -> SUBSET People]
    /\ reading \in [Pollers -> [Calibrated -> Labels \cup {"none"}]]
    /\ due \in [Pollers -> SUBSET People]
    /\ late \in [Pollers -> BOOLEAN]
    /\ rows \in [People -> 0..2]
    /\ behind \in [Procs -> BOOLEAN] /\ lost \in BOOLEAN
    /\ streak \in [People -> 0..Threshold]
    /\ agree \in [Calibrated -> [room : Labels \cup {"none"}, n : 0..2]]

Init ==
    /\ home = NoItem
    /\ pc = [x \in Procs |-> "idle"]
    /\ draft = [x \in Procs |-> NoItem]
    /\ seen = [l \in Pollers |-> {}]
    /\ reading = [l \in Pollers |-> NoReadings]
    /\ due = [l \in Pollers |-> {}]
    /\ late = [l \in Pollers |-> FALSE]
    /\ rows = [p \in People |-> 0]
    /\ behind = [x \in Procs |-> FALSE] /\ lost = FALSE
    /\ streak = [p \in People |-> 0]
    /\ agree = [p \in Calibrated |-> NoAgree]

-----------------------------------------------------------------------------
(* What a poll makes of a person *)

Capped(n, most) == IF n < most THEN n ELSE most

\* Variants for the checks: a sight leaves the misses counted, leaves the person away;
\* the misses are not stored.
Debounced_KeepsMisses(prev, isSeen) ==
    LET misses == Capped(prev.misses + 1, Threshold)
    IN  IF isSeen THEN [prev EXCEPT !.home = TRUE]
        ELSE [prev EXCEPT !.misses = misses, !.home = misses < Threshold /\ prev.home]

Debounced_StaysAway(prev, isSeen) ==
    LET misses == Capped(prev.misses + 1, Threshold)
    IN  IF isSeen THEN [prev EXCEPT !.misses = 0]
        ELSE [prev EXCEPT !.misses = misses, !.home = misses < Threshold /\ prev.home]

Debounced_ForgetsMiss(prev, isSeen) ==
    IF isSeen THEN [prev EXCEPT !.home = TRUE, !.misses = 0]
    ELSE [prev EXCEPT !.home = prev.misses + 1 < Threshold /\ prev.home]

\* Departure is debounced, arrival is immediate.  Only whether misses reach the
\* threshold matters, so they count up to it.
Debounced(prev, isSeen) ==
    LET misses == Capped(prev.misses + 1, Threshold)
    IN  IF isSeen THEN [prev EXCEPT !.home = TRUE, !.misses = 0]
        ELSE [prev EXCEPT !.misses = misses, !.home = misses < Threshold /\ prev.home]

Cleared(q) == [q EXCEPT !.room = "unknown", !.pending = "none", !.count = 0]

\* Variants: another reading does not start the count anew; the count goes on.
Smooth_SumsUp(q, proposed) ==
    LET n == q.count + 1
    IN  IF q.room = proposed \/ n >= SmoothingReadings
        THEN [q EXCEPT !.room = proposed, !.pending = proposed, !.count = SmoothingReadings]
        ELSE [q EXCEPT !.pending = proposed, !.count = n]

\* The displayed room changes when a reading comes twice in a row.
Smooth(q, proposed) ==
    LET n == IF q.pending = proposed THEN q.count + 1 ELSE 1
    IN  IF q.room = proposed \/ n >= SmoothingReadings
        THEN [q EXCEPT !.room = proposed, !.pending = proposed, !.count = SmoothingReadings]
        ELSE [q EXCEPT !.pending = proposed, !.count = n]

\* apply_rooms; carry_forward when there is no reading.
Placed(q, proposed) ==
    IF ~q.home THEN Cleared(q)
    ELSE IF q.misses > 0 \/ proposed = "none" THEN q
    ELSE Smooth(q, proposed)

\* apply_rules: the rule decides at once.  The key of the hour stays with whom a rule
\* places and the poll sees; who has none gets a check-in first.
Scheduled(q, room) ==
    LET holds == q.home /\ room # "unknown"
        p == [q EXCEPT !.ruled = holds, !.keyed = holds /\ q.misses = 0 /\ q.keyed]
    IN  IF holds THEN [p EXCEPT !.room = room, !.pending = room, !.count = SmoothingReadings]
        ELSE p

\* Variant: a person held through a miss is due as well.
Due_Held(q) == q.ruled /\ ~q.keyed

Due(q) == q.ruled /\ q.misses = 0 /\ ~q.keyed

-----------------------------------------------------------------------------
(* Putting the item *)

Holding(x) == pc[x] \in {"write", "stale", "manual"}

\* x has read the item and goes on to put what it makes of it.
Takes(x, to, item) ==
    /\ pc' = [pc EXCEPT ![x] = to]
    /\ draft' = [draft EXCEPT ![x] = item]
    /\ behind' = [behind EXCEPT ![x] = FALSE]

Ends(x) ==
    /\ pc' = [pc EXCEPT ![x] = "idle"]
    /\ draft' = [draft EXCEPT ![x] = NoItem]
    /\ seen' = [l \in Pollers |-> IF l = x THEN {} ELSE seen[l]]
    /\ reading' = [l \in Pollers |-> IF l = x THEN NoReadings ELSE reading[l]]
    /\ due' = [l \in Pollers |-> IF l = x THEN {} ELSE due[l]]
    /\ late' = [l \in Pollers |-> IF l = x THEN FALSE ELSE late[l]]

\* write_home: put_item, without a condition.
Put(x) ==
    /\ home' = draft[x]
    /\ behind' = [y \in Procs |-> y # x /\ Holding(y)]
    /\ lost' = (lost \/ behind[x])

NotPut(x) == UNCHANGED <<home, lost>> /\ behind' = [behind EXCEPT ![x] = FALSE]

StreakAfter(n, isSeen) == IF isSeen THEN 0 ELSE Capped(n + 1, Threshold)

AgreeAfter(a, n, isSeen, r) ==
    IF StreakAfter(n, isSeen) = Threshold THEN NoAgree
    ELSE IF ~isSeen \/ r = "none" THEN a
    ELSE IF a.room = r THEN [a EXCEPT !.n = 2]
    ELSE [room |-> r, n |-> 1]

\* The histories are kept up until a put is lost.
Counted(l) ==
    /\ streak' = [p \in People |->
                     IF lost' THEN 0 ELSE StreakAfter(streak[p], p \in seen[l])]
    /\ agree' = [p \in Calibrated |->
                    IF lost' THEN NoAgree
                    ELSE AgreeAfter(agree[p], streak[p], p \in seen[l], reading[l][p])]

NotCounted ==
    /\ streak' = [p \in People |-> IF lost' THEN 0 ELSE streak[p]]
    /\ agree' = [p \in Calibrated |-> IF lost' THEN NoAgree ELSE agree[p]]

-----------------------------------------------------------------------------
(* A poll *)

\* list_connected_clients: whose devices are connected.
List(l) ==
    /\ pc[l] = "idle"
    /\ pc' = [pc EXCEPT ![l] = "listed"]
    /\ \E near \in SUBSET People : seen' = [seen EXCEPT ![l] = near]
    /\ UNCHANGED <<home, draft, reading, due, late, rows, history>>

\* What the poll may classify people into: a room of the fingerprints and the models,
\* or nothing when their tables or the key cannot be read.
Readings(l) ==
    { r \in [Calibrated -> Labels] : \A p \in Calibrated \ seen[l] : r[p] = "unknown" }
    \cup {NoReadings}

\* The room of the rule whose window holds for each person, if there is one and the
\* rules can be read.
Rules == [Calibrated -> Labels]

\* Whom nothing names is in no known room; it makes no difference which room is pending.
Known(f, p) == IF p \in Calibrated THEN f[p] ELSE "unknown"

\* Variant: the house is away once somebody is.
Observed_Everybody(l, r, rules) ==
    LET people == [p \in People |->
                      Scheduled(Placed(Debounced(home.people[p], p \in seen[l]), Known(r, p)),
                                Known(rules, p))]
    IN  [is_home |-> \A p \in People : people[p].home, people |-> people]

\* What the poll makes of the item.
Observed(l, r, rules) ==
    LET people == [p \in People |->
                      Scheduled(Placed(Debounced(home.people[p], p \in seen[l]), Known(r, p)),
                                Known(rules, p))]
    IN  [is_home |-> \E p \in People : people[p].home, people |-> people]

\* The item is read, then the fingerprints, the rules and the clock.  Nothing that
\* another run writes is read after the item.
Observe(l) ==
    /\ pc[l] = "listed"
    /\ \E r \in Readings(l), rules \in Rules :
          /\ Takes(l, "write", Observed(l, r, rules))
          /\ reading' = [reading EXCEPT ![l] = r]
    /\ due' = [due EXCEPT ![l] = { p \in People : Due(draft'[l].people[p]) }]
    /\ UNCHANGED <<home, seen, late, rows, lost, streak, agree>>

\* Variant: the key is set although the row could not be stored.
CheckIn_KeyedFirst(l, p) ==
    /\ pc[l] = "write" /\ p \in due[l]
    /\ due' = [due EXCEPT ![l] = @ \ {p}]
    /\ rows' = [rows EXCEPT ![p] = Capped(@ + 1, 2)] \/ UNCHANGED rows
    /\ draft' = [draft EXCEPT ![l].people[p].keyed = TRUE]
    /\ UNCHANGED <<home, pc, seen, reading, late, history>>

\* store_observed.  A row stored after the hour turned is one of the hour before.
CheckIn(l, p) ==
    /\ pc[l] = "write" /\ p \in due[l]
    /\ due' = [due EXCEPT ![l] = @ \ {p}]
    /\ \/ /\ ~late[l]
          /\ rows' = [rows EXCEPT ![p] = Capped(@ + 1, 2)]
          /\ draft' = [draft EXCEPT ![l].people[p].keyed = TRUE] \/ UNCHANGED draft
       \/ UNCHANGED <<rows, draft>>
    /\ UNCHANGED <<home, pc, seen, reading, late, history>>

Write(l) ==
    /\ pc[l] = "write" /\ due[l] = {}
    /\ Put(l) /\ Counted(l)
    /\ Ends(l)
    /\ UNCHANGED rows

\* The session, eero or the list of tracked devices fails: the item is read, to be
\* marked stale.
PollFails(l) ==
    /\ pc[l] \in {"idle", "listed"}
    /\ Takes(l, "stale", home)
    /\ seen' = [seen EXCEPT ![l] = {}]
    /\ UNCHANGED <<home, reading, due, late, rows, lost, streak, agree>>

MarkStale(l) ==
    /\ pc[l] = "stale"
    /\ Put(l) /\ NotCounted
    /\ Ends(l)
    /\ UNCHANGED rows

-----------------------------------------------------------------------------
(* POST /presence *)

SetByHand(c, isHome) ==
    /\ pc[c] = "idle"
    /\ Takes(c, "manual", [home EXCEPT !.is_home = isHome])
    /\ UNCHANGED <<home, poll, rows, lost, streak, agree>>

PutByHand(c) ==
    /\ pc[c] = "manual"
    /\ Put(c) /\ NotCounted
    /\ Ends(c)
    /\ UNCHANGED rows

\* A run dies, raises, or its put fails without effect.
Dies(x) ==
    /\ pc[x] # "idle"
    /\ NotPut(x)
    /\ Ends(x)
    /\ UNCHANGED <<rows, streak, agree>>

-----------------------------------------------------------------------------
\* A key of the hour before is no key any more.
Unkeyed(item) == [item EXCEPT !.people = [p \in People |-> [item.people[p] EXCEPT !.keyed = FALSE]]]

HourTurns ==
    /\ home' = Unkeyed(home)
    /\ draft' = [x \in Procs |-> Unkeyed(draft[x])]
    /\ late' = [l \in Pollers |-> pc[l] = "write"]
    /\ rows' = [p \in People |-> 0]
    /\ UNCHANGED <<pc, seen, reading, due, history>>

Polls(l) ==
    \/ List(l) \/ Observe(l) \/ Write(l) \/ PollFails(l) \/ MarkStale(l)
    \/ \E p \in People : CheckIn(l, p)

Calls(c) == PutByHand(c) \/ \E isHome \in BOOLEAN : SetByHand(c, isHome)

Next ==
    \/ \E l \in Pollers : Polls(l)
    \/ \E c \in Callers : Calls(c)
    \/ \E x \in Procs : Dies(x)
    \/ HourTurns

Spec == Init /\ [][Next]_vars

\* The scheduler goes on starting polls.  Any of them may fail or die, but not all from
\* some time on.
Fairness == \A l \in Pollers : []<><<Write(l)>>_vars

FairSpec == Spec /\ Fairness

-----------------------------------------------------------------------------
(* Properties *)

\* "Someone is marked away after about 15 minutes of absence": a person is away if and
\* only if the last Threshold polls in a row did not see them -- changes by hand, failed
\* polls, runs that die and rules notwithstanding, as long as no put undoes another.
\* (eero_presence._person_state)
DebounceCounts ==
    ~lost => \A p \in People : home.people[p].home <=> streak[p] < Threshold

\* A poll that fails, and one that dies, "never changes is_home": a call of POST
\* /presence does, and a poll that leaves the house away has missed everybody often
\* enough.  (eero_presence_handler.handler, _mark_stale)
OccupancyDecided ==
    [][home'.is_home # home.is_home /\ ~lost' =>
          \/ \E c \in Callers : PutByHand(c)
          \/ /\ \E l \in Pollers : Write(l)
             /\ home'.is_home <=> \E p \in People : streak'[p] < Threshold]_vars

\* "The displayed room changes only after two polls in a row agree": a room is named by
\* two readings without another between them, or by a rule.  (room_fingerprint.smooth)
RoomAgreed ==
    [][\A p \in Calibrated :
          LET q == home'.people[p]
          IN  q.room # home.people[p].room /\ q.home /\ ~q.ruled /\ ~lost'
                 => agree'[p] = [room |-> q.room, n |-> 2]]_vars

\* The key of the hour is on the item only if the hour has its row, also where the hour
\* turns between the row and the put, and where a put undoes another.
\* (eero_presence_handler._write_schedule_checkins)
KeyMeansRow == \A p \in People : home.people[p].keyed => rows[p] > 0

\* "A Wi-Fi miss ... is not stored as a new sample": a row is of somebody the poll saw.
\* (eero_presence_handler._write_schedule_checkins)
RowsAreSeen ==
    [][\A p \in People : rows'[p] > rows[p] => \E l \in Pollers : CheckIn(l, p) /\ p \in seen[l]]_vars

Quiet == \A c \in Callers : pc[c] = "idle"

\* When no poll finds anybody any more and nobody sets presence by hand, the house is
\* away in the end.  (eero_presence.compute_presence)
GoneIsNoticed == <>[](Quiet /\ \A l \in Pollers : seen[l] = {}) => <>[](~home.is_home)

\* And somebody whom every poll finds brings it back to stay.
\* (eero_presence.compute_presence)
BackIsNoticed ==
    \A p \in People :
        <>[](Quiet /\ \A l \in Pollers : pc[l] \in {"listed", "write"} => p \in seen[l])
            => <>[](home.is_home /\ home.people[p].home)

\* "A second poll in the same hour does not write another row."
OneRowAnHour == \A p \in People : rows[p] <= 1
=============================================================================
