--------------------------- MODULE PresenceProofs ---------------------------
(***************************************************************************)
(* Presence, for every set of people, pollers and callers.                 *)
(***************************************************************************)
EXTENDS Presence, TLAPS

-----------------------------------------------------------------------------
(* What a poll makes of a person *)

Readable == Labels \cup {"none"}
Agree == [room : Readable, n : 0..2]

\* Debounced counts a miss, or takes the person for seen, and leaves the room alone.
LEMMA DebouncedPerson ==
    ASSUME NEW q \in Person, NEW isSeen \in BOOLEAN
    PROVE  LET d == Debounced(q, isSeen) IN
           /\ d \in Person
           /\ d.misses = IF isSeen THEN 0 ELSE Capped(q.misses + 1, Threshold)
           /\ d.room = q.room /\ d.pending = q.pending /\ d.count = q.count
           /\ d.ruled = q.ruled /\ d.keyed = q.keyed
<1>1. CASE isSeen
  <2>1. Debounced(q, isSeen) = [q EXCEPT !.home = TRUE, !.misses = 0]
    BY <1>1 DEF Debounced
  <2>2. 0 \in 0..Threshold
    BY PresenceAssumption
  <2>3. QED
    BY <1>1, <2>1, <2>2 DEF Person
<1>2. CASE ~isSeen
  <2> DEFINE m == Capped(q.misses + 1, Threshold)
  <2>1. m \in 0..Threshold
    BY PresenceAssumption DEF Capped, Person
  <2>2. (m < Threshold /\ q.home) \in BOOLEAN
    OBVIOUS
  <2>3. Debounced(q, isSeen) = [q EXCEPT !.misses = m, !.home = m < Threshold /\ q.home]
    BY <1>2 DEF Debounced
  <2> HIDE DEF m
  <2>4. QED
    BY <1>2, <2>1, <2>2, <2>3 DEF Person, m
<1>3. QED
  BY <1>1, <1>2

\* Somebody whose misses and occupancy agree goes on being so.
LEMMA DebouncedHome ==
    ASSUME NEW q \in Person, NEW isSeen \in BOOLEAN, q.home <=> q.misses < Threshold
    PROVE  LET d == Debounced(q, isSeen) IN d.home <=> d.misses < Threshold
<1>1. CASE isSeen
  BY <1>1, PresenceAssumption DEF Debounced, Person
<1>2. CASE ~isSeen
  <2> DEFINE m == Capped(q.misses + 1, Threshold)
  <2>1. m < Threshold => q.misses < Threshold
    BY PresenceAssumption DEF Capped, Person
  <2>2. Debounced(q, isSeen) = [q EXCEPT !.misses = m, !.home = m < Threshold /\ q.home]
    BY <1>2 DEF Debounced
  <2> HIDE DEF m
  <2>3. /\ Debounced(q, isSeen).misses = m
        /\ Debounced(q, isSeen).home <=> m < Threshold /\ q.home
    BY <2>2 DEF Person
  <2>4. QED
    BY <2>1, <2>3
<1>3. QED
  BY <1>1, <1>2

\* Smoothing keeps to the room it had unless the reading was pending.
LEMMA SmoothPerson ==
    ASSUME NEW q \in Person, NEW r \in Labels
    PROVE  LET s == Smooth(q, r) IN
           /\ s \in Person
           /\ s.pending = r
           /\ s.room = q.room \/ (s.room = r /\ q.pending = r)
           /\ s.home = q.home /\ s.misses = q.misses /\ s.ruled = q.ruled /\ s.keyed = q.keyed
<1> DEFINE n == IF q.pending = r THEN q.count + 1 ELSE 1
           there == q.room = r \/ n >= SmoothingReadings
<1>1. CASE there
  <2>1. Smooth(q, r) = [q EXCEPT !.room = r, !.pending = r, !.count = SmoothingReadings]
    BY <1>1 DEF Smooth
  <2>2. q.room = r \/ q.pending = r
    BY <1>1 DEF SmoothingReadings
  <2>3. SmoothingReadings \in 0..SmoothingReadings
    BY DEF SmoothingReadings
  <2> HIDE DEF n, there
  <2>4. QED
    BY <2>1, <2>2, <2>3 DEF Person
<1>2. CASE ~there
  <2>1. Smooth(q, r) = [q EXCEPT !.pending = r, !.count = n]
    BY <1>2 DEF Smooth
  <2>2. n \in 0..SmoothingReadings
    BY <1>2 DEF SmoothingReadings, Person
  <2> HIDE DEF n, there
  <2>3. QED
    BY <2>1, <2>2 DEF Person
<1>3. QED
  BY <1>1, <1>2

\* So does the placement; without a reading the person keeps the place, and away loses it.
LEMMA PlacedPerson ==
    ASSUME NEW q \in Person, NEW r \in Readable
    PROVE  LET s == Placed(q, r) IN
           /\ s \in Person
           /\ s.home = q.home /\ s.misses = q.misses /\ s.ruled = q.ruled /\ s.keyed = q.keyed
           /\ ~q.home => s.pending = "none"
           /\ q.home /\ (q.misses > 0 \/ r = "none") => s = q
           /\ q.home /\ q.misses = 0 /\ r # "none" =>
                 s.pending = r /\ (s.room = q.room \/ (s.room = r /\ q.pending = r))
<1> q.misses \in Nat
  BY PresenceAssumption DEF Person
<1>1. CASE ~q.home
  <2>1. Placed(q, r) = [q EXCEPT !.room = "unknown", !.pending = "none", !.count = 0]
    BY <1>1 DEF Placed, Cleared
  <2>2. "unknown" \in Labels /\ 0 \in 0..SmoothingReadings
    BY DEF Labels, SmoothingReadings
  <2>3. QED
    BY <1>1, <2>1, <2>2 DEF Person
<1>2. CASE q.home /\ (q.misses > 0 \/ r = "none")
  <2>1. Placed(q, r) = q
    BY <1>2 DEF Placed
  <2>2. ~(q.home /\ q.misses = 0 /\ r # "none")
    BY <1>2
  <2>3. QED
    BY Zenon, <1>2, <2>1, <2>2
<1>3. CASE q.home /\ ~(q.misses > 0 \/ r = "none")
  <2>1. r \in Labels
    BY <1>3 DEF Readable
  <2>2. Placed(q, r) = Smooth(q, r)
    BY <1>3 DEF Placed
  <2>3. /\ Smooth(q, r) \in Person
        /\ Smooth(q, r).pending = r
        /\ Smooth(q, r).room = q.room \/ (Smooth(q, r).room = r /\ q.pending = r)
        /\ Smooth(q, r).home = q.home /\ Smooth(q, r).misses = q.misses
        /\ Smooth(q, r).ruled = q.ruled /\ Smooth(q, r).keyed = q.keyed
    BY <2>1, SmoothPerson
  <2>4. q.home /\ ~(q.misses > 0 \/ r = "none")
    BY <1>3
  <2>5. QED
    BY Zenon, <2>2, <2>3, <2>4
<1>4. QED
  BY <1>1, <1>2, <1>3

\* A rule decides the room; without one the room is as it was placed.
LEMMA ScheduledPerson ==
    ASSUME NEW q \in Person, NEW r \in Labels
    PROVE  LET s == Scheduled(q, r) IN
           /\ s \in Person
           /\ s.home = q.home /\ s.misses = q.misses
           /\ s.keyed => q.keyed
           /\ s.ruled => s.pending = s.room
           /\ ~s.ruled => s.pending = q.pending /\ s.room = q.room
<1> DEFINE holds == q.home /\ r # "unknown"
           key == holds /\ q.misses = 0 /\ q.keyed
           p == [q EXCEPT !.ruled = holds, !.keyed = key]
<1>1. holds \in BOOLEAN /\ key \in BOOLEAN /\ (key => q.keyed)
  OBVIOUS
<1> HIDE DEF key
<1>2. p \in Person /\ (p.keyed <=> key) /\ (p.ruled <=> holds)
  BY <1>1 DEF Person
<1>3. /\ p.home = q.home /\ p.misses = q.misses
      /\ p.room = q.room /\ p.pending = q.pending
  BY DEF Person
<1>4. CASE holds
  <2>1. Scheduled(q, r) = [p EXCEPT !.room = r, !.pending = r, !.count = SmoothingReadings]
    BY <1>4 DEF Scheduled, key
  <2>2. SmoothingReadings \in 0..SmoothingReadings
    BY DEF SmoothingReadings
  <2> HIDE DEF p, holds
  <2>3. QED
    BY <1>1, <1>2, <1>3, <1>4, <2>1, <2>2 DEF Person
<1>5. CASE ~holds
  <2>1. Scheduled(q, r) = p
    BY <1>5 DEF Scheduled, key
  <2> HIDE DEF p, holds
  <2>2. QED
    BY <1>1, <1>2, <1>3, <1>5, <2>1
<1>6. QED
  BY <1>4, <1>5

-----------------------------------------------------------------------------
(* Types *)

LEMMA NewItem == NoItem \in Item /\ NoReadings \in [Calibrated -> Readable]
<1>1. NewPerson \in Person
  BY PresenceAssumption DEF NewPerson, Person, Labels, SmoothingReadings
<1>2. QED
  BY <1>1 DEF NoItem, Item, NoReadings, Readable

LEMMA UnkeyedItem ==
    ASSUME NEW item \in Item
    PROVE  /\ Unkeyed(item) \in Item
           /\ Unkeyed(item).is_home = item.is_home
           /\ \A p \in People :
                 /\ Unkeyed(item).people[p] = [item.people[p] EXCEPT !.keyed = FALSE]
                 /\ Unkeyed(item).people[p].keyed = FALSE
<1> DEFINE people == [p \in People |-> [item.people[p] EXCEPT !.keyed = FALSE]]
<1>1. ASSUME NEW p \in People
      PROVE  /\ people[p] = [item.people[p] EXCEPT !.keyed = FALSE]
             /\ people[p] \in Person /\ people[p].keyed = FALSE
  BY DEF Item, Person
<1>2. people \in [People -> Person]
  BY <1>1
<1> HIDE DEF people
<1>3. Unkeyed(item) = [item EXCEPT !.people = people]
  BY DEF Unkeyed, people
<1>4. Unkeyed(item) \in Item /\ Unkeyed(item).is_home = item.is_home /\ Unkeyed(item).people = people
  BY <1>2, <1>3 DEF Item
<1>5. QED
  BY <1>1, <1>4

\* What a poll makes of each person, and of the item.
LEMMA ObservedItem ==
    ASSUME TypeOK, NEW l \in Pollers, NEW r \in Readings(l), NEW rules \in Rules
    PROVE  /\ r \in [Calibrated -> Readable]
           /\ Observed(l, r, rules) \in Item
           /\ Observed(l, r, rules).is_home <=>
                 \E p \in People : Observed(l, r, rules).people[p].home
           /\ \A p \in People : Observed(l, r, rules).people[p] =
                 Scheduled(Placed(Debounced(home.people[p], p \in seen[l]), Known(r, p)),
                           Known(rules, p))
<1> DEFINE people == [p \in People |->
              Scheduled(Placed(Debounced(home.people[p], p \in seen[l]), Known(r, p)),
                        Known(rules, p))]
<1>1. r \in [Calibrated -> Readable]
  BY NewItem DEF Readings, Readable
<1>2. ASSUME NEW p \in People PROVE people[p] \in Person
  <2>1. home.people[p] \in Person /\ (p \in seen[l]) \in BOOLEAN
    BY DEF TypeOK, Item
  <2>2. Known(r, p) \in Readable /\ Known(rules, p) \in Labels
    BY <1>1 DEF Known, Rules, Readable, Labels
  <2>3. Debounced(home.people[p], p \in seen[l]) \in Person
    BY <2>1, DebouncedPerson
  <2>4. Placed(Debounced(home.people[p], p \in seen[l]), Known(r, p)) \in Person
    BY <2>2, <2>3, PlacedPerson
  <2>5. QED
    BY <2>2, <2>4, ScheduledPerson
<1>3. people \in [People -> Person]
  BY <1>2
<1>4. Observed(l, r, rules) = [is_home |-> \E p \in People : people[p].home, people |-> people]
  BY DEF Observed
<1>5. \A p \in People : people[p] =
         Scheduled(Placed(Debounced(home.people[p], p \in seen[l]), Known(r, p)), Known(rules, p))
  OBVIOUS
<1> HIDE DEF people
<1>6. (\E p \in People : people[p].home) \in BOOLEAN
  OBVIOUS
<1>7. /\ Observed(l, r, rules) \in Item
      /\ Observed(l, r, rules).people = people
      /\ Observed(l, r, rules).is_home <=> \E p \in People : people[p].home
  BY <1>3, <1>4, <1>6 DEF Item
<1>8. QED
  BY <1>1, <1>5, <1>7

\* A check-in changes the draft in the key of one person at most.
LEMMA KeyedDraft ==
    ASSUME TypeOK, NEW l \in Pollers, NEW p \in People, CheckIn(l, p)
    PROVE  /\ draft' \in [Procs -> Item]
           /\ \A x \in Procs \ {l} : draft'[x] = draft[x]
           /\ \A x \in Procs :
                 /\ draft'[x].is_home = draft[x].is_home
                 /\ \A s \in People :
                       \/ draft'[x].people[s] = draft[x].people[s]
                       \/ /\ x = l /\ s = p
                          /\ draft'[x].people[s] = [draft[x].people[s] EXCEPT !.keyed = TRUE]
                          /\ rows'[p] > 0
<1>0. l \in Procs
  BY DEF Procs
<1>1. CASE UNCHANGED draft
  BY <1>1 DEF TypeOK
<1>2. CASE draft' # draft
  <2> DEFINE q == [draft[l].people[p] EXCEPT !.keyed = TRUE]
             people == [draft[l].people EXCEPT ![p] = q]
             item == [draft[l] EXCEPT !.people = people]
  <2>1. draft[l] \in Item /\ draft[l].people \in [People -> Person]
    BY <1>0 DEF TypeOK, Item
  <2>2. q \in Person
    BY <2>1 DEF Person
  <2>3. draft' = [draft EXCEPT ![l] = item]
    BY <1>2 DEF CheckIn
  <2>4. rows' = [rows EXCEPT ![p] = Capped(rows[p] + 1, 2)]
    BY <1>2 DEF CheckIn
  <2>5. rows'[p] > 0
    BY <2>4 DEF Capped, TypeOK
  <2> HIDE DEF q
  <2>6. people \in [People -> Person] /\ people[p] = q /\ \A s \in People \ {p} : people[s] = draft[l].people[s]
    BY <2>1, <2>2
  <2> HIDE DEF people
  <2>7. item \in Item /\ item.people = people /\ item.is_home = draft[l].is_home
    BY <2>1, <2>6 DEF Item
  <2> HIDE DEF item
  <2>8. draft' \in [Procs -> Item] /\ draft'[l] = item /\ \A x \in Procs \ {l} : draft'[x] = draft[x]
    BY <1>0, <2>3, <2>7 DEF TypeOK
  <2>9. QED
    BY <2>5, <2>6, <2>7, <2>8 DEF q
<1>3. QED
  BY <1>1, <1>2

LEMMA EndsTyped ==
    ASSUME TypeOK, NEW x \in Procs, Ends(x)
    PROVE  /\ pc' \in [Procs -> {"idle", "listed", "write", "stale", "manual"}]
           /\ draft' \in [Procs -> Item]
           /\ seen' \in [Pollers -> SUBSET People]
           /\ reading' \in [Pollers -> [Calibrated -> Readable]]
           /\ due' \in [Pollers -> SUBSET People]
           /\ late' \in [Pollers -> BOOLEAN]
  BY NewItem DEF Ends, TypeOK, Readable

LEMMA AgreeTyped ==
    ASSUME NEW a \in Agree, NEW n \in 0..Threshold, NEW isSeen \in BOOLEAN, NEW r \in Readable
    PROVE  AgreeAfter(a, n, isSeen, r) \in Agree
<1>1. NoAgree \in Agree
  BY DEF NoAgree, Agree, Readable
<1>2. [a EXCEPT !.n = 2] \in Agree /\ [room |-> r, n |-> 1] \in Agree
  BY DEF Agree
<1>3. QED
  BY <1>1, <1>2 DEF AgreeAfter

LEMMA CountedTyped ==
    ASSUME TypeOK, NEW l \in Pollers, Counted(l)
    PROVE  streak' \in [People -> 0..Threshold] /\ agree' \in [Calibrated -> Agree]
<1>1. ASSUME NEW p \in People PROVE StreakAfter(streak[p], p \in seen[l]) \in 0..Threshold
  BY PresenceAssumption DEF StreakAfter, Capped, TypeOK
<1>2. ASSUME NEW p \in Calibrated
      PROVE  AgreeAfter(agree[p], streak[p], p \in seen[l], reading[l][p]) \in Agree
  <2>1. /\ agree[p] \in Agree /\ streak[p] \in 0..Threshold
        /\ (p \in seen[l]) \in BOOLEAN /\ reading[l][p] \in Readable
    BY PresenceAssumption DEF TypeOK, Readable, Agree
  <2>2. QED
    BY <2>1, AgreeTyped
<1>3. 0 \in 0..Threshold /\ NoAgree \in Agree
  BY PresenceAssumption DEF NoAgree, Agree, Readable
<1>4. QED
  BY <1>1, <1>2, <1>3 DEF Counted

LEMMA NotCountedTyped ==
    ASSUME TypeOK, NotCounted
    PROVE  streak' \in [People -> 0..Threshold] /\ agree' \in [Calibrated -> Agree]
<1>1. NoAgree \in Agree /\ 0 \in 0..Threshold
  BY PresenceAssumption DEF NoAgree, Readable, Agree
<1>2. QED
  BY <1>1 DEF NotCounted, TypeOK, Readable, Agree

LEMMA PutTyped ==
    ASSUME TypeOK, NEW x \in Procs, Put(x)
    PROVE  home' \in Item /\ behind' \in [Procs -> BOOLEAN] /\ lost' \in BOOLEAN
<1>1. home' \in Item
  BY DEF Put, TypeOK
<1>2. behind' \in [Procs -> BOOLEAN]
  <2>1. \A y \in Procs : (y # x /\ Holding(y)) \in BOOLEAN
    OBVIOUS
  <2>2. QED
    BY <2>1 DEF Put
<1>3. lost' \in BOOLEAN
  BY DEF Put
<1>4. QED
  BY <1>1, <1>2, <1>3

LEMMA TypeInit == Init => TypeOK
<1> SUFFICES ASSUME Init PROVE TypeOK
  OBVIOUS
<1>1. home \in Item /\ draft \in [Procs -> Item]
  BY NewItem DEF Init
<1>2. reading \in [Pollers -> [Calibrated -> Readable]]
  BY NewItem DEF Init
<1>3. /\ seen \in [Pollers -> SUBSET People] /\ due \in [Pollers -> SUBSET People]
      /\ pc \in [Procs -> {"idle", "listed", "write", "stale", "manual"}]
  BY DEF Init
<1>4. late \in [Pollers -> BOOLEAN] /\ behind \in [Procs -> BOOLEAN] /\ lost \in BOOLEAN
  BY DEF Init
<1>5. rows \in [People -> 0..2] /\ streak \in [People -> 0..Threshold]
  BY PresenceAssumption DEF Init
<1>6. agree \in [Calibrated -> Agree]
  BY DEF Init, NoAgree, Readable, Agree
<1>7. QED
  BY <1>1, <1>2, <1>3, <1>4, <1>5, <1>6 DEF TypeOK, Readable, Agree

LEMMA TypeStep == TypeOK /\ [Next]_vars => TypeOK'
<1> SUFFICES ASSUME TypeOK, [Next]_vars PROVE TypeOK'
  OBVIOUS
<1> USE DEF Readable, Agree
<1>0. Pollers \subseteq Procs /\ Callers \subseteq Procs
  BY DEF Procs
<1>1. ASSUME NEW l \in Pollers, List(l) PROVE TypeOK'
  <2>1. pc' \in [Procs -> {"idle", "listed", "write", "stale", "manual"}]
    BY <1>1 DEF List, TypeOK
  <2>2. seen' \in [Pollers -> SUBSET People]
    BY <1>1 DEF List, TypeOK
  <2>3. QED
    BY <1>1, <2>1, <2>2 DEF List, TypeOK, history
<1>2. ASSUME NEW l \in Pollers, Observe(l) PROVE TypeOK'
  <2>1. PICK r \in Readings(l), rules \in Rules :
           Takes(l, "write", Observed(l, r, rules)) /\ reading' = [reading EXCEPT ![l] = r]
    BY <1>2 DEF Observe
  <2>2. r \in [Calibrated -> Readable] /\ Observed(l, r, rules) \in Item
    BY ObservedItem
  <2>3. /\ pc' \in [Procs -> {"idle", "listed", "write", "stale", "manual"}]
        /\ draft' \in [Procs -> Item] /\ behind' \in [Procs -> BOOLEAN]
    BY <1>0, <2>1, <2>2 DEF Takes, TypeOK
  <2>4. reading' \in [Pollers -> [Calibrated -> Readable]]
    BY <2>1, <2>2 DEF TypeOK
  <2>5. due' \in [Pollers -> SUBSET People]
    BY <1>2 DEF Observe, TypeOK
  <2>6. QED
    BY <1>2, <2>3, <2>4, <2>5 DEF Observe, TypeOK
<1>3. ASSUME NEW l \in Pollers, NEW p \in People, CheckIn(l, p) PROVE TypeOK'
  <2>1. draft' \in [Procs -> Item]
    BY <1>3, KeyedDraft
  <2>2. due' \in [Pollers -> SUBSET People]
    BY <1>3 DEF CheckIn, TypeOK
  <2>3. rows' \in [People -> 0..2]
    BY <1>3 DEF CheckIn, Capped, TypeOK
  <2>4. QED
    BY <1>3, <2>1, <2>2, <2>3 DEF CheckIn, TypeOK, history
<1>4. ASSUME NEW l \in Pollers, Write(l) PROVE TypeOK'
  BY <1>0, <1>4, EndsTyped, PutTyped, CountedTyped DEF Write, TypeOK
<1>5. ASSUME NEW l \in Pollers, PollFails(l) PROVE TypeOK'
  <2>1. /\ pc' \in [Procs -> {"idle", "listed", "write", "stale", "manual"}]
        /\ draft' \in [Procs -> Item] /\ behind' \in [Procs -> BOOLEAN]
    BY <1>0, <1>5 DEF PollFails, Takes, TypeOK
  <2>2. seen' \in [Pollers -> SUBSET People]
    BY <1>5 DEF PollFails, TypeOK
  <2>3. QED
    BY <1>5, <2>1, <2>2 DEF PollFails, TypeOK
<1>6. ASSUME NEW l \in Pollers, MarkStale(l) PROVE TypeOK'
  BY <1>0, <1>6, EndsTyped, PutTyped, NotCountedTyped DEF MarkStale, TypeOK
<1>7. ASSUME NEW c \in Callers, NEW isHome \in BOOLEAN, SetByHand(c, isHome) PROVE TypeOK'
  <2>1. [home EXCEPT !.is_home = isHome] \in Item
    BY DEF TypeOK, Item
  <2>2. /\ pc' \in [Procs -> {"idle", "listed", "write", "stale", "manual"}]
        /\ draft' \in [Procs -> Item] /\ behind' \in [Procs -> BOOLEAN]
    BY <1>0, <1>7, <2>1 DEF SetByHand, Takes, TypeOK
  <2>3. QED
    BY <1>7, <2>2 DEF SetByHand, TypeOK, poll
<1>8. ASSUME NEW c \in Callers, PutByHand(c) PROVE TypeOK'
  BY <1>0, <1>8, EndsTyped, PutTyped, NotCountedTyped DEF PutByHand, TypeOK
<1>9. ASSUME NEW x \in Procs, Dies(x) PROVE TypeOK'
  <2>1. behind' \in [Procs -> BOOLEAN]
    BY <1>9 DEF Dies, NotPut, TypeOK
  <2>2. QED
    BY <1>9, <2>1, EndsTyped DEF Dies, NotPut, TypeOK
<1>10. ASSUME HourTurns PROVE TypeOK'
  <2>1. home' \in Item /\ draft' \in [Procs -> Item]
    BY <1>10, UnkeyedItem DEF HourTurns, TypeOK
  <2>2. late' \in [Pollers -> BOOLEAN] /\ rows' \in [People -> 0..2]
    BY <1>10 DEF HourTurns
  <2>3. QED
    BY <1>10, <2>1, <2>2 DEF HourTurns, TypeOK, history
<1>11. ASSUME UNCHANGED vars PROVE TypeOK'
  BY <1>11 DEF TypeOK, vars, poll, history
<1>12. QED
  BY <1>1, <1>2, <1>3, <1>4, <1>5, <1>6, <1>7, <1>8, <1>9, <1>10, <1>11
  DEF Next, Polls, Calls

\* Every variable stays within its type: the miss and pending counts within their bounds.
THEOREM TypeCorrect == Spec => []TypeOK
<1>1. QED
  BY TypeInit, TypeStep, PTL DEF Spec

-----------------------------------------------------------------------------
(* The key of the hour *)

KeyInv ==
    /\ KeyMeansRow
    /\ \A x \in Procs, p \in People : draft[x].people[p].keyed => rows[p] > 0

LEMMA ObservedKeys ==
    ASSUME TypeOK, NEW l \in Pollers, NEW r \in Readings(l), NEW rules \in Rules, NEW p \in People,
           Observed(l, r, rules).people[p].keyed
    PROVE  home.people[p].keyed
<1> DEFINE q == home.people[p]
           d == Debounced(q, p \in seen[l])
           s == Placed(d, Known(r, p))
<1>1. q \in Person /\ (p \in seen[l]) \in BOOLEAN
  BY DEF TypeOK, Item
<1>2. Known(r, p) \in Readable /\ Known(rules, p) \in Labels
  BY ObservedItem DEF Known, Rules, Readable, Labels
<1>3. d \in Person /\ d.keyed = q.keyed
  BY <1>1, DebouncedPerson
<1>4. s \in Person /\ s.keyed = d.keyed
  BY <1>2, <1>3, PlacedPerson
<1>5. Scheduled(s, Known(rules, p)).keyed => s.keyed
  BY <1>2, <1>4, ScheduledPerson
<1>6. QED
  BY <1>3, <1>4, <1>5, ObservedItem

LEMMA NewKeys == \A p \in People : ~NoItem.people[p].keyed
  BY DEF NoItem, NewPerson

\* A put brings the key of its draft.
LEMMA PutKeys ==
    ASSUME TypeOK, KeyInv, NEW x \in Procs, Put(x), Ends(x), UNCHANGED rows
    PROVE  KeyInv'
<1>1. \A p \in People : home'.people[p].keyed => rows'[p] > 0
  BY DEF Put, KeyInv
<1>2. \A y \in Procs, p \in People : draft'[y].people[p].keyed => rows'[p] > 0
  BY NewKeys DEF Ends, KeyInv, TypeOK
<1>3. QED
  BY <1>1, <1>2 DEF KeyInv, KeyMeansRow

LEMMA KeyStep == TypeOK /\ KeyInv /\ [Next]_vars => KeyInv'
<1> SUFFICES ASSUME TypeOK, KeyInv, [Next]_vars PROVE KeyInv'
  OBVIOUS
<1>0. Pollers \subseteq Procs /\ Callers \subseteq Procs
  BY DEF Procs
<1>1. ASSUME NEW l \in Pollers, List(l) PROVE KeyInv'
  BY <1>1 DEF List, KeyInv, KeyMeansRow
<1>2. ASSUME NEW l \in Pollers, Observe(l) PROVE KeyInv'
  <2>1. PICK r \in Readings(l), rules \in Rules : Takes(l, "write", Observed(l, r, rules))
    BY <1>2 DEF Observe
  <2>2. UNCHANGED <<home, rows>>
    BY <1>2 DEF Observe
  <2>3. ASSUME NEW x \in Procs, NEW p \in People, draft'[x].people[p].keyed PROVE rows'[p] > 0
    <3>1. CASE x = l
      <4>1. draft'[x] = Observed(l, r, rules)
        BY <1>0, <2>1, <3>1 DEF Takes, TypeOK
      <4>2. home.people[p].keyed
        BY <2>3, <4>1, ObservedKeys
      <4>3. QED
        BY <2>2, <4>2 DEF KeyInv, KeyMeansRow
    <3>2. CASE x # l
      BY <2>1, <2>2, <2>3, <3>2 DEF Takes, TypeOK, KeyInv
    <3>3. QED
      BY <3>1, <3>2
  <2>4. QED
    BY <2>2, <2>3 DEF KeyInv, KeyMeansRow
<1>3. ASSUME NEW l \in Pollers, NEW p \in People, CheckIn(l, p) PROVE KeyInv'
  <2>1. home' = home /\ (rows' = rows \/ rows' = [rows EXCEPT ![p] = Capped(rows[p] + 1, 2)])
    BY <1>3 DEF CheckIn
  <2>2. \A s \in People : rows[s] > 0 => rows'[s] > 0
    BY <2>1 DEF Capped, TypeOK
  <2>3. \A x \in Procs :
           /\ draft'[x].is_home = draft[x].is_home
           /\ \A s \in People :
                 \/ draft'[x].people[s] = draft[x].people[s]
                 \/ /\ x = l /\ s = p
                    /\ draft'[x].people[s] = [draft[x].people[s] EXCEPT !.keyed = TRUE]
                    /\ rows'[p] > 0
    BY <1>3, KeyedDraft
  <2>4. ASSUME NEW x \in Procs, NEW s \in People, draft'[x].people[s].keyed PROVE rows'[s] > 0
    <3>1. CASE draft'[x].people[s] = draft[x].people[s]
      BY <2>2, <2>4, <3>1 DEF KeyInv
    <3>2. CASE s = p /\ rows'[p] > 0
      BY <3>2
    <3>3. \/ draft'[x].people[s] = draft[x].people[s]
          \/ s = p /\ rows'[p] > 0
      BY <2>3
    <3>4. QED
      BY <3>1, <3>2, <3>3
  <2>5. QED
    BY <2>1, <2>2, <2>4 DEF KeyInv, KeyMeansRow
<1>4. ASSUME NEW l \in Pollers, Write(l) PROVE KeyInv'
  BY <1>0, <1>4, PutKeys DEF Write
<1>5. ASSUME NEW l \in Pollers, PollFails(l) PROVE KeyInv'
  <2>1. UNCHANGED <<home, rows>> /\ draft' = [draft EXCEPT ![l] = home]
    BY <1>5 DEF PollFails, Takes
  <2>2. \A x \in Procs : draft'[x] = home \/ draft'[x] = draft[x]
    BY <2>1 DEF TypeOK
  <2>3. QED
    BY <2>1, <2>2 DEF KeyInv, KeyMeansRow
<1>6. ASSUME NEW l \in Pollers, MarkStale(l) PROVE KeyInv'
  BY <1>0, <1>6, PutKeys DEF MarkStale
<1>7. ASSUME NEW c \in Callers, NEW isHome \in BOOLEAN, SetByHand(c, isHome) PROVE KeyInv'
  <2> DEFINE item == [home EXCEPT !.is_home = isHome]
  <2>1. UNCHANGED <<home, rows>> /\ draft' = [draft EXCEPT ![c] = item]
    BY <1>7 DEF SetByHand, Takes
  <2>2. item.people = home.people
    BY DEF TypeOK, Item
  <2> HIDE DEF item
  <2>3. \A x \in Procs : draft'[x].people = home.people \/ draft'[x].people = draft[x].people
    BY <2>1, <2>2 DEF TypeOK
  <2>4. QED
    BY <2>1, <2>3 DEF KeyInv, KeyMeansRow
<1>8. ASSUME NEW c \in Callers, PutByHand(c) PROVE KeyInv'
  BY <1>0, <1>8, PutKeys DEF PutByHand
<1>9. ASSUME NEW x \in Procs, Dies(x) PROVE KeyInv'
  <2>1. UNCHANGED <<home, rows>> /\ draft' = [draft EXCEPT ![x] = NoItem]
    BY <1>9 DEF Dies, NotPut, Ends
  <2>2. \A y \in Procs : draft'[y] = NoItem \/ draft'[y] = draft[y]
    BY <2>1 DEF TypeOK
  <2>3. QED
    BY <2>1, <2>2, NewKeys DEF KeyInv, KeyMeansRow
<1>10. ASSUME HourTurns PROVE KeyInv'
  <2>1. home' = Unkeyed(home) /\ \A x \in Procs : draft'[x] = Unkeyed(draft[x])
    BY <1>10 DEF HourTurns
  <2>2. home \in Item /\ \A x \in Procs : draft[x] \in Item
    BY DEF TypeOK
  <2>3. \A p \in People : home'.people[p].keyed = FALSE
    BY <2>1, <2>2, UnkeyedItem
  <2>4. ASSUME NEW x \in Procs, NEW p \in People PROVE draft'[x].people[p].keyed = FALSE
    <3>1. draft'[x] = Unkeyed(draft[x]) /\ draft[x] \in Item
      BY <2>1, <2>2
    <3>2. Unkeyed(draft[x]).people[p].keyed = FALSE
      BY <3>1, UnkeyedItem
    <3>3. QED
      BY <3>1, <3>2
  <2>5. QED
    BY <2>3, <2>4 DEF KeyInv, KeyMeansRow
<1>11. ASSUME UNCHANGED vars PROVE KeyInv'
  BY <1>11 DEF KeyInv, KeyMeansRow, vars
<1>12. QED
  BY <1>1, <1>2, <1>3, <1>4, <1>5, <1>6, <1>7, <1>8, <1>9, <1>10, <1>11
  DEF Next, Polls, Calls

\* The key of the hour stands for a row of this hour: no training row is skipped because
\* of a key that no row goes with, however puts, deaths and the hour interleave.
THEOREM KeyHolds == Spec => []KeyMeansRow
<1>1. Init => KeyInv
  BY NewKeys DEF Init, KeyInv, KeyMeansRow
<1>2. KeyInv => KeyMeansRow
  BY DEF KeyInv
<1>3. QED
  BY <1>1, <1>2, TypeInit, TypeStep, KeyStep, PTL DEF Spec

-----------------------------------------------------------------------------
(* The counts *)

\* n polls in a row have missed the person q.
Settled(q, n) == q.misses = n /\ (q.home <=> n < Threshold)

\* What waits to be displayed was read last.
Pends(q, a) == q.pending \in {"none", q.room, a.room}

\* A new room that no rule decided was read twice in a row.
Moves(old, new, a) ==
    new.room # old.room /\ new.home /\ ~new.ruled => a = [room |-> new.room, n |-> 2]

LEMMA PersonCounts ==
    ASSUME NEW q \in Person, NEW isSeen \in BOOLEAN, NEW r \in Readable, NEW rule \in Labels,
           NEW n \in 0..Threshold, Settled(q, n)
    PROVE  Settled(Scheduled(Placed(Debounced(q, isSeen), r), rule), StreakAfter(n, isSeen))
<1> DEFINE d == Debounced(q, isSeen)
           s == Placed(d, r)
           t == Scheduled(s, rule)
<1>1. d \in Person /\ d.misses = StreakAfter(n, isSeen)
  BY DebouncedPerson DEF Settled, StreakAfter
<1>2. d.home <=> d.misses < Threshold
  BY DebouncedHome DEF Settled
<1>3. s \in Person /\ s.misses = d.misses /\ s.home = d.home
  BY <1>1, PlacedPerson
<1>4. t.misses = s.misses /\ t.home = s.home
  BY <1>3, ScheduledPerson
<1> HIDE DEF d, s, t
<1>5. Settled(t, StreakAfter(n, isSeen))
  BY <1>1, <1>2, <1>3, <1>4 DEF Settled
<1>6. QED
  BY <1>5 DEF t, s, d

LEMMA PersonAgrees ==
    ASSUME NEW q \in Person, NEW isSeen \in BOOLEAN, NEW r \in Readable, NEW rule \in Labels,
           NEW n \in 0..Threshold, NEW a \in Agree, Settled(q, n), Pends(q, a)
    PROVE  LET t == Scheduled(Placed(Debounced(q, isSeen), r), rule)
               b == AgreeAfter(a, n, isSeen, r)
           IN  Pends(t, b) /\ Moves(q, t, b)
<1> DEFINE d == Debounced(q, isSeen)
           s == Placed(d, r)
           t == Scheduled(s, rule)
           b == AgreeAfter(a, n, isSeen, r)
           m == StreakAfter(n, isSeen)
<1>1. d \in Person /\ d.misses = m /\ d.room = q.room /\ d.pending = q.pending
  BY DebouncedPerson DEF Settled, StreakAfter
<1>2. d.home <=> m < Threshold
  BY <1>1, DebouncedHome DEF Settled
<1>3. s \in Person /\ s.home = d.home /\ (~d.home => s.pending = "none")
  BY <1>1, PlacedPerson
<1>4. /\ t.home = s.home
      /\ t.ruled => t.pending = t.room
      /\ ~t.ruled => t.pending = s.pending /\ t.room = s.room
  BY <1>3, ScheduledPerson
<1>5. m \in 0..Threshold /\ (isSeen => m = 0) /\ (~isSeen => m > 0)
  BY PresenceAssumption DEF StreakAfter, Capped
<1>6. Pends(s, b) /\ (s.home /\ s.room # q.room => b = [room |-> s.room, n |-> 2])
  <2>1. CASE ~d.home
    BY <1>3, <2>1 DEF Pends
  <2>2. CASE d.home /\ (~isSeen \/ r = "none")
    <3>1. s = d
      <4>1. d.misses > 0 \/ r = "none"
        BY <1>1, <1>5, <2>2
      <4>2. QED
        BY <1>1, <2>2, <4>1, PlacedPerson
    <3>2. b = a
      BY <1>2, <1>5, <2>2 DEF AgreeAfter
    <3> HIDE DEF b, s, d
    <3>3. QED
      BY <1>1, <3>1, <3>2 DEF Pends
  <2>3. CASE d.home /\ isSeen /\ r # "none"
    <3>1. s.pending = r /\ (s.room = d.room \/ (s.room = r /\ d.pending = r))
      <4>1. d.home /\ d.misses = 0 /\ r # "none"
        BY <1>1, <1>5, <2>3
      <4> HIDE DEF d
      <4>2. QED
        BY Zenon, <1>1, <4>1, PlacedPerson
    <3>2. b = IF a.room = r THEN [a EXCEPT !.n = 2] ELSE [room |-> r, n |-> 1]
      <4>1. m # Threshold
        BY PresenceAssumption, <1>5, <2>3
      <4>2. isSeen /\ r # "none"
        BY <2>3
      <4>3. QED
        BY Zenon, <4>1, <4>2 DEF AgreeAfter
    <3>3. b.room = r /\ (a.room = r => b = [room |-> r, n |-> 2])
      BY <3>2 DEF Agree
    <3> HIDE DEF b, s, d
    <3>4. s.room = d.room \/ (s.room = r /\ a.room = r)
      BY <1>1, <2>3, <3>1 DEF Pends
    <3>5. QED
      BY <1>1, <3>1, <3>3, <3>4 DEF Pends
  <2>4. QED
    BY <2>1, <2>2, <2>3
<1> HIDE DEF d, s, t, b, m
<1>7. Pends(t, b)
  BY <1>4, <1>6 DEF Pends
<1>8. Moves(q, t, b)
  <2> SUFFICES ASSUME t.room # q.room, t.home, ~t.ruled PROVE b = [room |-> t.room, n |-> 2]
    BY DEF Moves
  <2>1. t.room = s.room /\ s.home
    BY <1>4
  <2>2. QED
    BY <1>6, <2>1
<1>9. QED
  BY <1>7, <1>8 DEF t, s, d, b

\* What the item, a draft of it and the draft of a poll say, unless a put was lost.
HomeInv ==
    ~lost => /\ \A p \in People : Settled(home.people[p], streak[p])
             /\ \A p \in Calibrated : Pends(home.people[p], agree[p])

HeldAt(x) ==
    ~lost /\ ~behind[x] /\ pc[x] \in {"stale", "manual"} =>
        /\ draft[x].people = home.people
        /\ pc[x] = "stale" => draft[x].is_home = home.is_home

SeenBy(l, p) == p \in seen[l]

Fits(l) ==
    /\ \A p \in People :
          Settled(draft[l].people[p], StreakAfter(streak[p], SeenBy(l, p)))
    /\ \A p \in Calibrated :
          LET a == AgreeAfter(agree[p], streak[p], SeenBy(l, p), reading[l][p])
          IN  Pends(draft[l].people[p], a) /\ Moves(home.people[p], draft[l].people[p], a)

FitsAt(l) == ~lost /\ ~behind[l] /\ pc[l] = "write" => Fits(l)

\* A poll's own draft, lost puts or not.
DraftAt(l) ==
    pc[l] = "write" =>
        /\ draft[l].is_home <=> \E p \in People : draft[l].people[p].home
        /\ due[l] \subseteq seen[l]

CountInv ==
    /\ HomeInv
    /\ \A x \in Procs : HeldAt(x)
    /\ \A l \in Pollers : FitsAt(l)
    /\ \A l \in Pollers : DraftAt(l)

LEMMA KeyedOnly ==
    ASSUME NEW q \in Person, NEW b \in BOOLEAN, NEW n, NEW a
    PROVE  LET k == [q EXCEPT !.keyed = b] IN
           /\ k.home = q.home /\ k.room = q.room /\ k.ruled = q.ruled
           /\ Settled(q, n) => Settled(k, n)
           /\ Pends(q, a) => Pends(k, a)
<1> DEFINE k == [q EXCEPT !.keyed = b]
<1>1. /\ k.home = q.home /\ k.room = q.room /\ k.ruled = q.ruled
      /\ k.misses = q.misses /\ k.pending = q.pending
  BY DEF Person
<1> HIDE DEF k
<1>2. Settled(q, n) => Settled(k, n)
  BY <1>1 DEF Settled
<1>3. Pends(q, a) => Pends(k, a)
  BY <1>1 DEF Pends
<1>4. QED
  BY <1>1, <1>2, <1>3 DEF k

\* A run that an action leaves alone keeps what its draft says.
LEMMA Undisturbed ==
    ASSUME CountInv, NEW x \in Procs, UNCHANGED <<home, lost, streak, agree>>,
           draft'[x] = draft[x], pc'[x] = pc[x], behind'[x] = behind[x]
    PROVE  /\ HeldAt(x)'
           /\ x \in Pollers /\ seen'[x] = seen[x] /\ reading'[x] = reading[x] => FitsAt(x)'
<1>1. HeldAt(x)'
  BY DEF CountInv, HeldAt
<1>2. ASSUME x \in Pollers, seen'[x] = seen[x], reading'[x] = reading[x] PROVE FitsAt(x)'
  <2>1. FitsAt(x)
    BY <1>2 DEF CountInv
  <2>2. QED
    BY <1>2, <2>1 DEF FitsAt, Fits, SeenBy
<1>3. QED
  BY <1>1, <1>2

LEMMA DraftUndisturbed ==
    ASSUME CountInv, NEW l \in Pollers, pc'[l] = "write" =>
              pc[l] = "write" /\ draft'[l] = draft[l] /\ seen'[l] = seen[l] /\ due'[l] = due[l]
    PROVE  DraftAt(l)'
  BY DEF CountInv, DraftAt

\* After a put nobody else is up to date.
LEMMA PutQuiet ==
    ASSUME TypeOK, CountInv, NEW x \in Procs, Put(x), Ends(x)
    PROVE  /\ \A y \in Procs : HeldAt(y)'
           /\ \A l \in Pollers : FitsAt(l)' /\ DraftAt(l)'
<1>1. \A y \in Procs : pc'[y] \in {"write", "stale", "manual"} => behind'[y]
  <2> SUFFICES ASSUME NEW y \in Procs, pc'[y] \in {"write", "stale", "manual"} PROVE behind'[y]
    OBVIOUS
  <2>1. y # x /\ pc'[y] = pc[y]
    BY DEF Ends, TypeOK
  <2>2. Holding(y)
    BY <2>1 DEF Holding
  <2>3. behind'[y] = (y # x /\ Holding(y))
    BY DEF Put
  <2>4. QED
    BY <2>1, <2>2, <2>3
<1>2. \A y \in Procs : HeldAt(y)'
  BY <1>1 DEF HeldAt
<1>3. \A l \in Pollers : FitsAt(l)'
  BY <1>1 DEF FitsAt, Procs
<1>4. ASSUME NEW l \in Pollers PROVE DraftAt(l)'
  <2>1. l \in Procs
    BY DEF Procs
  <2>2. pc'[l] = "write" => pc[l] = "write" /\ l # x
    BY <2>1 DEF Ends, TypeOK
  <2>3. l # x => draft'[l] = draft[l] /\ seen'[l] = seen[l] /\ due'[l] = due[l]
    BY <2>1 DEF Ends, TypeOK
  <2>4. QED
    BY <2>2, <2>3, DraftUndisturbed
<1>5. QED
  BY <1>2, <1>3, <1>4

LEMMA ObserveCounts ==
    ASSUME TypeOK, CountInv, NEW l \in Pollers, Observe(l)
    PROVE  CountInv'
<1>0. l \in Procs /\ Pollers \subseteq Procs
  BY DEF Procs
<1>1. PICK r \in Readings(l), rules \in Rules :
         Takes(l, "write", Observed(l, r, rules)) /\ reading' = [reading EXCEPT ![l] = r]
  BY DEF Observe
<1>2. UNCHANGED <<home, lost, streak, agree, seen>>
  BY DEF Observe
<1>3. /\ draft'[l] = Observed(l, r, rules) /\ reading'[l] = r /\ pc'[l] = "write"
      /\ \A x \in Procs \ {l} : draft'[x] = draft[x] /\ pc'[x] = pc[x] /\ behind'[x] = behind[x]
  BY <1>0, <1>1 DEF Takes, TypeOK
<1>4. \A m \in Pollers \ {l} : reading'[m] = reading[m] /\ due'[m] = due[m]
  BY <1>1 DEF Observe, TypeOK
<1>5. HomeInv'
  BY <1>2 DEF CountInv, HomeInv
<1>6. ASSUME NEW x \in Procs PROVE HeldAt(x)'
  BY <1>2, <1>3, Undisturbed DEF HeldAt
<1>7. ASSUME ~lost PROVE Fits(l)'
  <2>1. ASSUME NEW p \in People
        PROVE  /\ home.people[p] \in Person /\ (p \in seen[l]) \in BOOLEAN /\ streak[p] \in 0..Threshold
               /\ Known(r, p) \in Readable /\ Known(rules, p) \in Labels
               /\ Settled(home.people[p], streak[p])
    <3>1. home.people[p] \in Person /\ streak[p] \in 0..Threshold
      BY DEF TypeOK, Item
    <3>2. Known(r, p) \in Readable /\ Known(rules, p) \in Labels
      BY ObservedItem DEF Known, Rules, Readable, Labels
    <3>3. QED
      BY <1>7, <3>1, <3>2 DEF CountInv, HomeInv
  <2>2. ASSUME NEW p \in People
        PROVE  Settled(draft'[l].people[p], StreakAfter(streak'[p], SeenBy(l, p)'))
    <3>1. draft'[l].people[p] =
             Scheduled(Placed(Debounced(home.people[p], p \in seen[l]), Known(r, p)), Known(rules, p))
      BY <1>3, ObservedItem
    <3> DEFINE b == p \in seen[l]
    <3>2. b \in BOOLEAN
      OBVIOUS
    <3> HIDE DEF b
    <3>3. Settled(Scheduled(Placed(Debounced(home.people[p], b), Known(r, p)), Known(rules, p)),
                  StreakAfter(streak[p], b))
      BY <2>1, <3>2, PersonCounts
    <3>4. Settled(draft'[l].people[p], StreakAfter(streak[p], p \in seen[l]))
      BY <3>1, <3>3 DEF b
    <3>5. QED
      BY <1>2, <3>4 DEF SeenBy
  <2>3. ASSUME NEW p \in Calibrated
        PROVE  LET a == AgreeAfter(agree'[p], streak'[p], SeenBy(l, p)', reading'[l][p])
               IN  Pends(draft'[l].people[p], a) /\ Moves(home'.people[p], draft'[l].people[p], a)
    <3>0. p \in People
      BY PresenceAssumption
    <3>1. draft'[l].people[p] =
             Scheduled(Placed(Debounced(home.people[p], p \in seen[l]), r[p]), Known(rules, p))
      BY <1>3, <3>0, ObservedItem DEF Known
    <3>2. r[p] \in Readable /\ agree[p] \in Agree /\ Pends(home.people[p], agree[p])
      BY <1>7, ObservedItem DEF CountInv, HomeInv, TypeOK, Agree, Readable
    <3> DEFINE b == p \in seen[l]
    <3>3. b \in BOOLEAN
      OBVIOUS
    <3> HIDE DEF b
    <3>4. LET t == Scheduled(Placed(Debounced(home.people[p], b), r[p]), Known(rules, p))
              a == AgreeAfter(agree[p], streak[p], b, r[p])
          IN  Pends(t, a) /\ Moves(home.people[p], t, a)
      BY <2>1, <3>0, <3>2, <3>3, PersonAgrees
    <3>5. LET a == AgreeAfter(agree[p], streak[p], p \in seen[l], r[p])
          IN  Pends(draft'[l].people[p], a) /\ Moves(home.people[p], draft'[l].people[p], a)
      BY <3>1, <3>4 DEF b
    <3>6. QED
      BY <1>2, <1>3, <3>5 DEF SeenBy
  <2>4. QED
    BY <2>2, <2>3 DEF Fits
<1>8. ASSUME NEW m \in Pollers PROVE FitsAt(m)'
  <2>1. CASE m = l
    BY <1>2, <1>7, <2>1 DEF FitsAt
  <2>2. CASE m # l
    BY <1>0, <1>2, <1>3, <1>4, <2>2, Undisturbed
  <2>3. QED
    BY <2>1, <2>2
<1>9. ASSUME NEW m \in Pollers PROVE DraftAt(m)'
  <2>1. CASE m = l
    <3>1. due'[l] = { p \in People : Due(draft'[l].people[p]) }
      BY DEF Observe, TypeOK
    <3>2. ASSUME NEW p \in People, Due(draft'[l].people[p]) PROVE p \in seen[l]
      <4> DEFINE d == Debounced(home.people[p], p \in seen[l])
                 s == Placed(d, Known(r, p))
      <4>1. home.people[p] \in Person /\ (p \in seen[l]) \in BOOLEAN
        BY DEF TypeOK, Item
      <4>2. Known(r, p) \in Readable /\ Known(rules, p) \in Labels
        BY ObservedItem DEF Known, Rules, Readable, Labels
      <4>3. d \in Person
            /\ d.misses = IF p \in seen[l] THEN 0 ELSE Capped(home.people[p].misses + 1, Threshold)
        BY <4>1, DebouncedPerson
      <4>4. s \in Person /\ s.misses = d.misses
        BY <4>2, <4>3, PlacedPerson
      <4>5. Scheduled(s, Known(rules, p)).misses = s.misses
        BY <4>2, <4>4, ScheduledPerson
      <4>6. draft'[l].people[p] = Scheduled(s, Known(rules, p))
        BY <1>3, ObservedItem
      <4> HIDE DEF d, s
      <4>7. d.misses = 0
        BY <3>2, <4>4, <4>5, <4>6 DEF Due
      <4>8. Capped(home.people[p].misses + 1, Threshold) # 0
        BY <4>1, PresenceAssumption DEF Person, Capped
      <4>9. QED
        BY <4>3, <4>7, <4>8
    <3>3. due'[l] \subseteq seen'[l]
      BY <1>2, <3>1, <3>2
    <3>4. draft'[l].is_home <=> \E p \in People : draft'[l].people[p].home
      BY <1>3, ObservedItem
    <3>5. QED
      BY <2>1, <3>3, <3>4 DEF DraftAt
  <2>2. CASE m # l
    BY <1>0, <1>2, <1>3, <1>4, <2>2, DraftUndisturbed
  <2>3. QED
    BY <2>1, <2>2
<1>10. QED
  BY <1>5, <1>6, <1>8, <1>9 DEF CountInv

LEMMA CheckInCounts ==
    ASSUME TypeOK, CountInv, NEW l \in Pollers, NEW p \in People, CheckIn(l, p)
    PROVE  CountInv'
<1>0. l \in Procs /\ Pollers \subseteq Procs
  BY DEF Procs
<1>1. UNCHANGED <<home, pc, seen, reading, behind, lost, streak, agree>> /\ pc[l] = "write"
  BY DEF CheckIn, history
<1>2. \A x \in Procs \ {l} : draft'[x] = draft[x]
  BY KeyedDraft
<1>3. ASSUME NEW s \in People
      PROVE  \/ draft'[l].people[s] = draft[l].people[s]
             \/ draft'[l].people[s] = [draft[l].people[s] EXCEPT !.keyed = TRUE]
  BY <1>0, KeyedDraft
<1>4. draft'[l].is_home = draft[l].is_home
  BY <1>0, KeyedDraft
<1>5. \A s \in People : draft[l].people[s] \in Person
  BY <1>0 DEF TypeOK, Item
<1>6. ASSUME NEW s \in People
      PROVE  /\ draft'[l].people[s].home = draft[l].people[s].home
             /\ draft'[l].people[s].room = draft[l].people[s].room
             /\ draft'[l].people[s].ruled = draft[l].people[s].ruled
  BY <1>3, <1>5, KeyedOnly
<1>7. ASSUME NEW s \in People, NEW n, Settled(draft[l].people[s], n)
      PROVE  Settled(draft'[l].people[s], n)
  BY <1>3, <1>5, <1>7, KeyedOnly
<1>8. ASSUME NEW s \in People, NEW a, Pends(draft[l].people[s], a)
      PROVE  Pends(draft'[l].people[s], a)
  BY <1>3, <1>5, <1>8, KeyedOnly
<1>9. ASSUME Fits(l) PROVE Fits(l)'
  <2>1. ASSUME NEW s \in People
        PROVE  Settled(draft'[l].people[s], StreakAfter(streak'[s], SeenBy(l, s)'))
    BY <1>1, <1>7, <1>9 DEF Fits, SeenBy
  <2>2. ASSUME NEW s \in Calibrated
        PROVE  LET a == AgreeAfter(agree'[s], streak'[s], SeenBy(l, s)', reading'[l][s])
               IN  Pends(draft'[l].people[s], a) /\ Moves(home'.people[s], draft'[l].people[s], a)
    <3> DEFINE a == AgreeAfter(agree[s], streak[s], SeenBy(l, s), reading[l][s])
    <3>1. s \in People
      BY PresenceAssumption
    <3>2. Pends(draft[l].people[s], a) /\ Moves(home.people[s], draft[l].people[s], a)
      BY <1>9 DEF Fits
    <3> HIDE DEF a
    <3>3. Pends(draft'[l].people[s], a) /\ Moves(home.people[s], draft'[l].people[s], a)
      BY <1>6, <1>8, <3>1, <3>2 DEF Moves
    <3>4. QED
      BY <1>1, <3>3 DEF a, SeenBy
  <2>3. QED
    BY <2>1, <2>2 DEF Fits
<1>10. HomeInv'
  BY <1>1 DEF CountInv, HomeInv
<1>11. ASSUME NEW x \in Procs PROVE HeldAt(x)'
  BY <1>1, <1>2, Undisturbed DEF HeldAt
<1>12. ASSUME NEW m \in Pollers PROVE FitsAt(m)'
  <2>1. CASE m = l
    BY <1>1, <1>9, <2>1 DEF CountInv, FitsAt
  <2>2. CASE m # l
    BY <1>0, <1>1, <1>2, <2>2, Undisturbed
  <2>3. QED
    BY <2>1, <2>2
<1>13. ASSUME NEW m \in Pollers PROVE DraftAt(m)'
  <2>1. CASE m = l
    <3>1. due'[l] \subseteq seen'[l]
      BY <1>1 DEF CheckIn, TypeOK, CountInv, DraftAt
    <3>2. draft[l].is_home <=> \E s \in People : draft[l].people[s].home
      BY <1>1 DEF CountInv, DraftAt
    <3>3. draft'[l].is_home <=> \E s \in People : draft'[l].people[s].home
      BY <1>4, <1>6, <3>2
    <3>4. QED
      BY <2>1, <3>1, <3>3 DEF DraftAt
  <2>2. CASE m # l
    <3>1. draft'[m] = draft[m] /\ seen'[m] = seen[m] /\ due'[m] = due[m] /\ pc'[m] = pc[m]
      BY <1>0, <1>1, <1>2, <2>2 DEF CheckIn, TypeOK
    <3>2. QED
      BY <3>1, DraftUndisturbed
  <2>3. QED
    BY <2>1, <2>2
<1>14. QED
  BY <1>10, <1>11, <1>12, <1>13 DEF CountInv

\* A put that undoes no other brings the item to what the histories say.
LEMMA WriteCounts ==
    ASSUME TypeOK, CountInv, NEW l \in Pollers, Write(l)
    PROVE  CountInv'
<1>0. l \in Procs
  BY DEF Procs
<1>1. Put(l) /\ Counted(l) /\ Ends(l) /\ pc[l] = "write"
  BY DEF Write
<1>2. ASSUME ~lost' PROVE HomeInv'
  <2>1. ~lost /\ ~behind[l] /\ home' = draft[l]
    BY <1>1, <1>2 DEF Put
  <2>2. Fits(l)
    BY <1>1, <2>1 DEF CountInv, FitsAt
  <2>3. \A p \in People : streak'[p] = StreakAfter(streak[p], SeenBy(l, p))
    BY <1>1, <1>2 DEF Counted, SeenBy
  <2>4. \A p \in Calibrated :
           agree'[p] = AgreeAfter(agree[p], streak[p], SeenBy(l, p), reading[l][p])
    BY <1>1, <1>2 DEF Counted, SeenBy
  <2>5. QED
    BY <2>1, <2>2, <2>3, <2>4 DEF HomeInv, Fits
<1>3. HomeInv'
  BY <1>2 DEF HomeInv
<1>4. QED
  BY <1>0, <1>1, <1>3, PutQuiet DEF CountInv

LEMMA OtherPutCounts ==
    ASSUME TypeOK, CountInv, NEW x \in Procs, pc[x] \in {"stale", "manual"},
           Put(x), NotCounted, Ends(x)
    PROVE  CountInv'
<1>1. ASSUME ~lost' PROVE HomeInv'
  <2>1. ~lost /\ ~behind[x] /\ home' = draft[x]
    BY <1>1 DEF Put
  <2>2. home'.people = home.people
    BY <2>1 DEF CountInv, HeldAt
  <2>3. /\ \A p \in People : streak'[p] = streak[p]
        /\ \A p \in Calibrated : agree'[p] = agree[p]
    BY <1>1 DEF NotCounted
  <2>4. QED
    BY <2>1, <2>2, <2>3 DEF CountInv, HomeInv
<1>2. HomeInv'
  BY <1>1 DEF HomeInv
<1>3. QED
  BY <1>2, PutQuiet DEF CountInv

\* Reading the item to mark it stale or to change it by hand.
LEMMA TakesCounts ==
    ASSUME TypeOK, CountInv, NEW x \in Procs, NEW to \in {"stale", "manual"}, NEW item \in Item,
           Takes(x, to, item), item.people = home.people, to = "stale" => item.is_home = home.is_home,
           UNCHANGED <<home, lost, streak, agree, reading, due>>,
           \A l \in Pollers : l # x => seen'[l] = seen[l]
    PROVE  CountInv'
<1>0. Pollers \subseteq Procs
  BY DEF Procs
<1>1. /\ draft'[x] = item /\ pc'[x] = to
      /\ \A y \in Procs \ {x} : draft'[y] = draft[y] /\ pc'[y] = pc[y] /\ behind'[y] = behind[y]
  BY DEF Takes, TypeOK
<1>2. HomeInv'
  BY DEF CountInv, HomeInv
<1>3. ASSUME NEW y \in Procs PROVE HeldAt(y)'
  <2>1. CASE y = x
    BY <1>1, <2>1 DEF HeldAt
  <2>2. CASE y # x
    BY <1>1, <2>2, Undisturbed
  <2>3. QED
    BY <2>1, <2>2
<1>4. ASSUME NEW l \in Pollers PROVE FitsAt(l)' /\ DraftAt(l)'
  <2>1. CASE l = x
    BY <1>1, <2>1 DEF FitsAt, DraftAt
  <2>2. CASE l # x
    BY <1>0, <1>1, <2>2, Undisturbed, DraftUndisturbed
  <2>3. QED
    BY <2>1, <2>2
<1>5. QED
  BY <1>2, <1>3, <1>4 DEF CountInv

LEMMA DiesCounts ==
    ASSUME TypeOK, CountInv, NEW x \in Procs, Dies(x)
    PROVE  CountInv'
<1>0. Pollers \subseteq Procs
  BY DEF Procs
<1>1. /\ UNCHANGED <<home, lost, streak, agree>> /\ pc'[x] = "idle"
      /\ \A y \in Procs \ {x} : draft'[y] = draft[y] /\ pc'[y] = pc[y] /\ behind'[y] = behind[y]
      /\ \A l \in Pollers \ {x} : seen'[l] = seen[l] /\ reading'[l] = reading[l] /\ due'[l] = due[l]
  BY DEF Dies, NotPut, Ends, TypeOK
<1>2. HomeInv'
  BY <1>1 DEF CountInv, HomeInv
<1>3. ASSUME NEW y \in Procs PROVE HeldAt(y)'
  BY <1>1, Undisturbed DEF HeldAt
<1>4. ASSUME NEW l \in Pollers PROVE FitsAt(l)' /\ DraftAt(l)'
  <2>1. CASE l = x
    BY <1>1, <2>1 DEF FitsAt, DraftAt
  <2>2. CASE l # x
    BY <1>0, <1>1, <2>2, Undisturbed, DraftUndisturbed
  <2>3. QED
    BY <2>1, <2>2
<1>5. QED
  BY <1>2, <1>3, <1>4 DEF CountInv

LEMMA ListCounts ==
    ASSUME TypeOK, CountInv, NEW l \in Pollers, List(l)
    PROVE  CountInv'
<1>0. Pollers \subseteq Procs
  BY DEF Procs
<1>1. /\ UNCHANGED <<home, draft, reading, due, behind, lost, streak, agree>> /\ pc'[l] = "listed"
      /\ \A y \in Procs \ {l} : pc'[y] = pc[y]
      /\ \A m \in Pollers \ {l} : seen'[m] = seen[m]
  BY <1>0 DEF List, TypeOK, history
<1>2. HomeInv'
  BY <1>1 DEF CountInv, HomeInv
<1>3. ASSUME NEW y \in Procs PROVE HeldAt(y)'
  BY <1>1, Undisturbed DEF HeldAt
<1>4. ASSUME NEW m \in Pollers PROVE FitsAt(m)' /\ DraftAt(m)'
  <2>1. CASE m = l
    BY <1>1, <2>1 DEF FitsAt, DraftAt
  <2>2. CASE m # l
    BY <1>0, <1>1, <2>2, Undisturbed, DraftUndisturbed
  <2>3. QED
    BY <2>1, <2>2
<1>5. QED
  BY <1>2, <1>3, <1>4 DEF CountInv

\* The hour takes the keys and nothing else.
LEMMA HourCounts ==
    ASSUME TypeOK, CountInv, HourTurns
    PROVE  CountInv'
<1>0. Pollers \subseteq Procs
  BY DEF Procs
<1>1. /\ UNCHANGED <<pc, seen, reading, due, behind, lost, streak, agree>>
      /\ home' = Unkeyed(home) /\ \A x \in Procs : draft'[x] = Unkeyed(draft[x])
  BY DEF HourTurns, history
<1>2. home \in Item /\ \A x \in Procs : draft[x] \in Item
  BY DEF TypeOK
<1>3. ASSUME NEW item \in Item, NEW p \in People
      PROVE  LET q == item.people[p]
                 k == Unkeyed(item).people[p]
             IN  /\ k.home = q.home /\ k.room = q.room /\ k.ruled = q.ruled
                 /\ \A n : Settled(q, n) => Settled(k, n)
                 /\ \A a : Pends(q, a) => Pends(k, a)
  <2>1. item.people[p] \in Person
    BY DEF Item
  <2>2. Unkeyed(item).people[p] = [item.people[p] EXCEPT !.keyed = FALSE]
    BY UnkeyedItem
  <2>3. QED
    BY <2>1, <2>2, KeyedOnly
<1>4. HomeInv'
  <2> SUFFICES ASSUME ~lost
               PROVE  /\ \A p \in People : Settled(home'.people[p], streak[p])
                      /\ \A p \in Calibrated : Pends(home'.people[p], agree[p])
    BY <1>1 DEF HomeInv
  <2>1. \A p \in People : Settled(home'.people[p], streak[p])
    BY <1>1, <1>2, <1>3 DEF CountInv, HomeInv
  <2>2. \A p \in Calibrated : Pends(home'.people[p], agree[p])
    BY <1>1, <1>2, <1>3, PresenceAssumption DEF CountInv, HomeInv
  <2>3. QED
    BY <2>1, <2>2
<1>5. ASSUME NEW x \in Procs PROVE HeldAt(x)'
  <2>1. /\ Unkeyed(draft[x]).is_home = draft[x].is_home
        /\ Unkeyed(home).is_home = home.is_home
    BY <1>2, UnkeyedItem
  <2>2. draft[x].people = home.people => Unkeyed(draft[x]).people = Unkeyed(home).people
    BY <1>2 DEF Unkeyed, Item
  <2>3. HeldAt(x)
    BY DEF CountInv
  <2>4. QED
    BY <1>1, <2>1, <2>2, <2>3 DEF HeldAt
<1>6. ASSUME NEW l \in Pollers PROVE FitsAt(l)'
  <2> SUFFICES ASSUME Fits(l) PROVE Fits(l)'
    BY <1>1 DEF CountInv, FitsAt
  <2>1. draft[l] \in Item /\ draft'[l] = Unkeyed(draft[l])
    BY <1>0, <1>1, <1>2
  <2>2. ASSUME NEW p \in People
        PROVE  Settled(draft'[l].people[p], StreakAfter(streak'[p], SeenBy(l, p)'))
    <3>1. Settled(draft[l].people[p], StreakAfter(streak[p], SeenBy(l, p)))
      BY DEF Fits
    <3>2. Settled(draft'[l].people[p], StreakAfter(streak[p], SeenBy(l, p)))
      BY <1>3, <2>1, <3>1
    <3>3. QED
      BY <1>1, <3>2 DEF SeenBy
  <2>3. ASSUME NEW p \in Calibrated
        PROVE  LET a == AgreeAfter(agree'[p], streak'[p], SeenBy(l, p)', reading'[l][p])
               IN  Pends(draft'[l].people[p], a) /\ Moves(home'.people[p], draft'[l].people[p], a)
    <3> DEFINE a == AgreeAfter(agree[p], streak[p], SeenBy(l, p), reading[l][p])
    <3>1. p \in People
      BY PresenceAssumption
    <3>2. Pends(draft[l].people[p], a) /\ Moves(home.people[p], draft[l].people[p], a)
      BY DEF Fits
    <3> HIDE DEF a
    <3>3. /\ draft'[l].people[p].home = draft[l].people[p].home
          /\ draft'[l].people[p].room = draft[l].people[p].room
          /\ draft'[l].people[p].ruled = draft[l].people[p].ruled
          /\ home'.people[p].room = home.people[p].room
      BY <1>1, <1>2, <1>3, <2>1, <3>1
    <3>4. Moves(home'.people[p], draft'[l].people[p], a)
      BY <3>2, <3>3 DEF Moves
    <3>5. Pends(draft'[l].people[p], a)
      BY <1>3, <2>1, <3>1, <3>2
    <3>6. QED
      BY <1>1, <3>4, <3>5 DEF a, SeenBy
  <2>4. QED
    BY <2>2, <2>3 DEF Fits
<1>7. ASSUME NEW l \in Pollers PROVE DraftAt(l)'
  <2>1. draft[l] \in Item /\ draft'[l] = Unkeyed(draft[l])
    BY <1>0, <1>1, <1>2
  <2>2. draft'[l].is_home = draft[l].is_home
    BY <2>1, UnkeyedItem
  <2>3. \A p \in People : draft'[l].people[p].home = draft[l].people[p].home
    BY <1>3, <2>1
  <2>4. QED
    BY <1>1, <2>2, <2>3 DEF CountInv, DraftAt
<1>8. QED
  BY <1>4, <1>5, <1>6, <1>7 DEF CountInv

LEMMA CountInit == Init => CountInv
<1> SUFFICES ASSUME Init PROVE CountInv
  OBVIOUS
<1>1. Procs = Pollers \cup Callers
  BY DEF Procs
<1>2. HomeInv
  BY PresenceAssumption DEF Init, HomeInv, NoItem, NewPerson, Settled, Pends
<1>3. \A x \in Procs : pc[x] = "idle"
  BY DEF Init
<1>4. QED
  BY <1>1, <1>2, <1>3 DEF CountInv, HeldAt, FitsAt, DraftAt

LEMMA CountStep == TypeOK /\ CountInv /\ [Next]_vars => CountInv'
<1> SUFFICES ASSUME TypeOK, CountInv, [Next]_vars PROVE CountInv'
  OBVIOUS
<1>0. Pollers \subseteq Procs /\ Callers \subseteq Procs
  BY DEF Procs
<1>1. ASSUME NEW l \in Pollers, MarkStale(l) PROVE CountInv'
  BY <1>0, <1>1, OtherPutCounts DEF MarkStale
<1>2. ASSUME NEW c \in Callers, PutByHand(c) PROVE CountInv'
  BY <1>0, <1>2, OtherPutCounts DEF PutByHand
<1>3. ASSUME NEW l \in Pollers, PollFails(l) PROVE CountInv'
  <2>1. home \in Item /\ Takes(l, "stale", home) /\ UNCHANGED <<home, lost, streak, agree, reading, due>>
    BY <1>3 DEF PollFails, TypeOK
  <2>2. \A m \in Pollers : m # l => seen'[m] = seen[m]
    BY <1>3 DEF PollFails, TypeOK
  <2>3. QED
    BY <1>0, <2>1, <2>2, TakesCounts
<1>4. ASSUME NEW c \in Callers, NEW isHome \in BOOLEAN, SetByHand(c, isHome) PROVE CountInv'
  <2> DEFINE item == [home EXCEPT !.is_home = isHome]
  <2>1. item \in Item /\ item.people = home.people
    BY DEF TypeOK, Item
  <2>2. Takes(c, "manual", item) /\ UNCHANGED <<home, lost, streak, agree, reading, due, seen>>
    BY <1>4 DEF SetByHand, poll
  <2> HIDE DEF item
  <2>3. QED
    BY <1>0, <2>1, <2>2, TakesCounts
<1>5. CASE UNCHANGED vars
  BY <1>5 DEF vars, poll, history, CountInv, HomeInv, HeldAt, FitsAt, DraftAt, Fits, SeenBy
<1>6. QED
  BY <1>1, <1>2, <1>3, <1>4, <1>5, ListCounts, ObserveCounts, CheckInCounts, WriteCounts,
     DiesCounts, HourCounts DEF Next, Polls, Calls

-----------------------------------------------------------------------------
(* What holds of the house, the rooms and the rows *)

LEMMA Counts == Spec => [](TypeOK /\ CountInv)
  BY TypeInit, TypeStep, CountInit, CountStep, PTL DEF Spec

\* A person is away if and only if Threshold polls in a row have missed them, however
\* polls, stale marks, changes by hand and deaths interleave, as long as no put undoes
\* another.
THEOREM DebounceHolds == Spec => []DebounceCounts
<1>1. CountInv => DebounceCounts
  BY DEF CountInv, HomeInv, Settled, DebounceCounts
<1>2. QED
  BY <1>1, Counts, PTL

\* What turns the house over is a change by hand or a completed poll, and the poll turns
\* it as the counts say.
THEOREM OccupancyHolds == Spec => OccupancyDecided
<1> DEFINE A == home'.is_home # home.is_home /\ ~lost' =>
                   \/ \E c \in Callers : PutByHand(c)
                   \/ /\ \E l \in Pollers : Write(l)
                      /\ home'.is_home <=> \E p \in People : streak'[p] < Threshold
<1>1. TypeOK /\ CountInv /\ [Next]_vars => A
  <2> SUFFICES ASSUME TypeOK, CountInv, [Next]_vars, home'.is_home # home.is_home, ~lost',
                      ~ \E c \in Callers : PutByHand(c)
               PROVE  /\ \E l \in Pollers : Write(l)
                      /\ home'.is_home <=> \E p \in People : streak'[p] < Threshold
    OBVIOUS
  <2>1. home' # home
    OBVIOUS
  <2>2. ASSUME HourTurns PROVE FALSE
    <3>1. home'.is_home = home.is_home
      BY <2>2, UnkeyedItem DEF HourTurns, TypeOK
    <3>2. QED
      BY <3>1
  <2>3. ASSUME NEW l \in Pollers, MarkStale(l) PROVE FALSE
    <3>1. ~lost /\ ~behind[l] /\ home' = draft[l] /\ pc[l] = "stale" /\ l \in Procs
      BY <2>3 DEF MarkStale, Put, Procs
    <3>2. draft[l].is_home = home.is_home
      BY <3>1 DEF CountInv, HeldAt
    <3>3. QED
      BY <3>1, <3>2
  <2>4. ASSUME NEW l \in Pollers, Write(l)
        PROVE  home'.is_home <=> \E p \in People : streak'[p] < Threshold
    <3>1. home' = draft[l] /\ pc[l] = "write"
      BY <2>4 DEF Write, Put
    <3>2. home'.is_home <=> \E p \in People : home'.people[p].home
      BY <3>1 DEF CountInv, DraftAt
    <3>3. CountInv'
      BY <2>4, WriteCounts
    <3>4. \A p \in People : home'.people[p].home <=> streak'[p] < Threshold
      BY <3>3 DEF CountInv, HomeInv, Settled
    <3>5. QED
      BY <3>2, <3>4
  <2>5. \E l \in Pollers : Write(l)
    BY <2>1, <2>2, <2>3 DEF Next, Polls, Calls, List, Observe, CheckIn, PollFails, SetByHand,
       Dies, NotPut, vars
  <2>6. QED
    BY <2>4, <2>5
<1>2. QED
  BY <1>1, Counts, PTL DEF Spec, OccupancyDecided

\* No displayed room changes, without a rule, before two readings in a row agree.
THEOREM RoomsHold == Spec => RoomAgreed
<1> DEFINE A == \A p \in Calibrated :
                   LET q == home'.people[p]
                   IN  q.room # home.people[p].room /\ q.home /\ ~q.ruled /\ ~lost'
                          => agree'[p] = [room |-> q.room, n |-> 2]
<1>1. TypeOK /\ CountInv /\ [Next]_vars => A
  <2> SUFFICES ASSUME TypeOK, CountInv, [Next]_vars, NEW p \in Calibrated,
                      home'.people[p].room # home.people[p].room,
                      home'.people[p].home, ~home'.people[p].ruled, ~lost'
               PROVE  agree'[p] = [room |-> home'.people[p].room, n |-> 2]
    OBVIOUS
  <2>0. p \in People
    BY PresenceAssumption
  <2>1. ASSUME HourTurns PROVE FALSE
    <3>1. home \in Item /\ home.people[p] \in Person /\ home' = Unkeyed(home)
      BY <2>0, <2>1 DEF HourTurns, TypeOK, Item
    <3>2. home'.people[p] = [home.people[p] EXCEPT !.keyed = FALSE]
      BY <2>0, <3>1, UnkeyedItem
    <3>3. home'.people[p].room = home.people[p].room
      BY <3>1, <3>2, KeyedOnly
    <3>4. QED
      BY <3>3
  <2>2. ASSUME NEW x \in Procs, pc[x] \in {"stale", "manual"}, Put(x) PROVE FALSE
    <3>1. ~lost /\ ~behind[x] /\ home' = draft[x]
      BY <2>2 DEF Put
    <3>2. home'.people = home.people
      BY <2>2, <3>1 DEF CountInv, HeldAt
    <3>3. QED
      BY <3>2
  <2>3. ASSUME NEW l \in Pollers, Write(l)
        PROVE  agree'[p] = [room |-> home'.people[p].room, n |-> 2]
    <3>1. ~lost /\ ~behind[l] /\ home' = draft[l] /\ pc[l] = "write"
      BY <2>3 DEF Write, Put
    <3>2. Fits(l)
      BY <3>1 DEF CountInv, FitsAt
    <3>3. agree'[p] = AgreeAfter(agree[p], streak[p], SeenBy(l, p), reading[l][p])
      BY <2>3 DEF Write, Counted, SeenBy
    <3>4. Moves(home.people[p], home'.people[p], agree'[p])
      BY <3>1, <3>2, <3>3 DEF Fits
    <3>5. QED
      BY <3>4 DEF Moves
  <2>4. home' # home
    OBVIOUS
  <2>5. \E l \in Pollers : Write(l)
    BY <2>1, <2>2, <2>4 DEF Next, Polls, Calls, List, Observe, CheckIn, PollFails, MarkStale,
       SetByHand, PutByHand, Dies, NotPut, vars, Procs
  <2>6. QED
    BY <2>3, <2>5
<1>2. QED
  BY <1>1, Counts, PTL DEF Spec, RoomAgreed

\* A training row is of somebody whom the poll that stores it has seen.
THEOREM RowsHold == Spec => RowsAreSeen
<1> DEFINE A == \A p \in People : rows'[p] > rows[p] => \E l \in Pollers : CheckIn(l, p) /\ p \in seen[l]
<1>1. TypeOK /\ CountInv /\ [Next]_vars => A
  <2> SUFFICES ASSUME TypeOK, CountInv, [Next]_vars, NEW p \in People, rows'[p] > rows[p]
               PROVE  \E l \in Pollers : CheckIn(l, p) /\ p \in seen[l]
    OBVIOUS
  <2>1. rows[p] \in 0..2
    BY DEF TypeOK
  <2>2. rows' # rows
    BY <2>1
  <2>3. ASSUME HourTurns PROVE FALSE
    BY <2>1, <2>3 DEF HourTurns
  <2>4. ASSUME NEW l \in Pollers, NEW s \in People, CheckIn(l, s)
        PROVE  s = p /\ p \in seen[l]
    <3>1. s = p
      BY <2>1, <2>4 DEF CheckIn, TypeOK
    <3>2. due[l] \subseteq seen[l]
      BY <2>4 DEF CheckIn, CountInv, DraftAt
    <3>3. QED
      BY <2>4, <3>1, <3>2 DEF CheckIn
  <2>5. \E l \in Pollers, s \in People : CheckIn(l, s)
    BY <2>2, <2>3 DEF Next, Polls, Calls, List, Observe, Write, PollFails, MarkStale,
       SetByHand, PutByHand, Dies, vars
  <2>6. QED
    BY <2>4, <2>5
<1>2. QED
  BY <1>1, Counts, PTL DEF Spec, RowsAreSeen
=============================================================================
