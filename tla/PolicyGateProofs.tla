-------------------------- MODULE PolicyGateProofs --------------------------
(***************************************************************************)
(* PolicyGate for every set of writers, containers, rules and plans, and   *)
(* every choice of the lifetimes: what overlapping calls leave of a rule,  *)
(* what is in force when none overlapped, what a failed load may not       *)
(* forget, and how soon a rule starts and stops to hold.                   *)
(***************************************************************************)
EXTENDS PolicyGate, TLAPS, WellFoundedInduction, SequenceTheorems

\* What a call in progress has found out is still so: versions do not go away, and
\* an author goes on only with a rule and room for one more version.
WriterInv(w) ==
    /\ wpc[w] # "idle" /\ job[w].kind = "author" => job[w].rule \in Rules
    /\ job[w].found \in Versions(Id(w)) \cup {0}
    /\ wpc[w] \in {"supersede", "put"} => job[w].kind = "author" /\ job[w].found < MaxVersion
    /\ wpc[w] \in {"supersede", "deactivate"} => job[w].found \in Versions(Id(w))

\* Every verdict there can be.
Answers == { Verdict(P, s, x) : P \in SUBSET Policies, s \in Steps, x \in [is_home : BOOLEAN] }

\* A container whose last load succeeded agrees with the table on every rule that
\* has not changed since.  Seconds left and seconds since a failed load add up to
\* RetryTTL at most as long as a failed load is the last.
Settled(c) ==
    left[c] > 0 /\ left[c] + calm[c] > RetryTTL =>
        \A p \in Policies : age[p] > TTL - left[c] => (p \in InForce <=> p \in cache[c])

GateInv(c) ==
    /\ known[c] \subseteq cache[c] \cap InForce
    /\ Settled(c)

Typed == /\ TypeOK
         /\ verdicts \in [Containers -> Seq(Answers)]
         /\ \A c \in Containers : cpc[c] = "idle" => verdicts[c] = << >>

StoreInv == /\ \A w \in Writers : WriterInv(w)
            /\ VersionsContiguous

GateInvs == \A c \in Containers : GateInv(c)

IInv == StoreInv /\ GateInvs

-----------------------------------------------------------------------------
(* The table *)

LEMMA ItemsTyped ==
    ASSUME StoreTypeOK, NEW id \in RuleIds
    PROVE  Versions(id) \subseteq 1..MaxVersion /\ items[id] \in [Versions(id) -> Item]
  <1>1. items[id] \in UNION { [V -> Item] : V \in SUBSET (1..MaxVersion) }
    BY DEF StoreTypeOK
  <1>2. PICK V \in SUBSET (1..MaxVersion) : items[id] \in [V -> Item]
    BY <1>1
  <1> QED
    BY <1>2 DEF Versions

LEMMA ItemsOf ==
    ASSUME NEW V \in SUBSET (1..MaxVersion), NEW f \in [V -> Item]
    PROVE  f \in UNION { [U -> Item] : U \in SUBSET (1..MaxVersion) }
  OBVIOUS

LEMMA InForceTyped == StoreTypeOK => InForce \subseteq Policies
  <1> SUFFICES ASSUME StoreTypeOK, NEW p \in InForce
               PROVE  p \in Policies
    OBVIOUS
  <1>1. PICK id \in RuleIds : p \in { [id |-> id, version |-> v, rule |-> items[id][v].rule]
                                      : v \in ActiveVersions(id) }
    BY DEF InForce
  <1>2. PICK v \in ActiveVersions(id) :
            p = [id |-> id, version |-> v, rule |-> items[id][v].rule]
    BY <1>1
  <1>3. v \in 1..MaxVersion /\ items[id][v] \in Item
    BY ItemsTyped, <1>2 DEF ActiveVersions
  <1> QED
    BY <1>2, <1>3 DEF Policies, Item

\* A changed status: the versions and their rules stay.
LEMMA StatusIsTyped ==
    ASSUME StoreTypeOK, NEW w \in Writers, NEW status \in Statuses, SetStatus(w, status),
           job[w].found \in Versions(Id(w))
    PROVE  /\ items' \in [RuleIds -> UNION { [V -> Item] : V \in SUBSET (1..MaxVersion) }]
           /\ \A id \in RuleIds : Versions(id)' = Versions(id)
  <1> DEFINE id == Id(w)  v == job[w].found
             f == [items[id] EXCEPT ![v].status = status]
  <1>1. id \in RuleIds
    BY DEF StoreTypeOK, Id
  <1>2. items[id] \in [Versions(id) -> Item] /\ Versions(id) \subseteq 1..MaxVersion
    BY <1>1, ItemsTyped
  <1>3. [items[id][v] EXCEPT !.status = status] \in Item
    BY <1>2 DEF Item
  <1>4. f \in [Versions(id) -> Item]
    BY <1>2, <1>3
  <1>5. items' = [items EXCEPT ![id] = f]
    BY DEF SetStatus
  <1>6. f \in UNION { [V -> Item] : V \in SUBSET (1..MaxVersion) }
    BY <1>2, <1>4, ItemsOf
  <1>7. items' \in [RuleIds -> UNION { [V -> Item] : V \in SUBSET (1..MaxVersion) }]
    BY <1>5, <1>6 DEF StoreTypeOK
  <1>8. \A i \in RuleIds : DOMAIN items'[i] = DOMAIN items[i]
    BY <1>1, <1>2, <1>4, <1>5 DEF StoreTypeOK, Versions
  <1> QED
    BY <1>7, <1>8 DEF Versions

\* A put: one version more, next to one that was there.
LEMMA WrittenIsTyped ==
    ASSUME StoreTypeOK, NEW w \in Writers, job[w].rule \in Rules, job[w].found < MaxVersion,
           items' = [items EXCEPT ![Id(w)] = Written(w)]
    PROVE  /\ items' \in [RuleIds -> UNION { [V -> Item] : V \in SUBSET (1..MaxVersion) }]
           /\ \A id \in RuleIds :
                 Versions(id)' = IF id = Id(w) THEN Versions(id) \cup {job[w].found + 1}
                                 ELSE Versions(id)
  <1> DEFINE id == Id(w)  n == job[w].found + 1
  <1>1. id \in RuleIds /\ n \in 1..MaxVersion
    BY StoreAssumption DEF StoreTypeOK, Id
  <1>2. items[id] \in [Versions(id) -> Item] /\ Versions(id) \subseteq 1..MaxVersion
    BY <1>1, ItemsTyped
  <1>3. [status |-> "active", rule |-> job[w].rule] \in Item
    BY DEF Item, Statuses
  <1>4. Written(w) \in [Versions(id) \cup {n} -> Item]
    BY <1>2, <1>3 DEF Written
  <1>5. Written(w) \in UNION { [V -> Item] : V \in SUBSET (1..MaxVersion) }
    BY <1>1, <1>2, <1>4, ItemsOf
  <1>6. items' \in [RuleIds -> UNION { [V -> Item] : V \in SUBSET (1..MaxVersion) }]
    BY <1>5 DEF StoreTypeOK
  <1>7. items'[id] = Written(w) /\ \A i \in RuleIds : i # id => items'[i] = items[i]
    BY <1>1 DEF StoreTypeOK
  <1> QED
    BY <1>4, <1>6, <1>7 DEF Versions

-----------------------------------------------------------------------------
(* One step of a writer *)

LEMMA FoundIsTyped ==
    ASSUME StoreTypeOK, NEW w \in Writers, NEW n \in 0..MaxVersion,
           job' = [job EXCEPT ![w].found = n]
    PROVE  job' \in [Writers -> [kind : {"author", "delete"}, id : RuleIds,
                                 rule : Rules \cup {NoRule}, found : 0..MaxVersion]]
  <1> DEFINE R == [kind : {"author", "delete"}, id : RuleIds,
                   rule : Rules \cup {NoRule}, found : 0..MaxVersion]
  <1>1. job \in [Writers -> R]
    BY DEF StoreTypeOK
  <1>2. [job[w] EXCEPT !.found = n] \in R
    <2>1. job[w] \in R
      BY <1>1
    <2> QED
      BY <2>1
  <1>3. job' = [job EXCEPT ![w] = [job[w] EXCEPT !.found = n]]
    OBVIOUS
  <1> QED
    BY <1>1, <1>2, <1>3

LEMMA StoreTypeStep ==
    ASSUME StoreTypeOK, NEW w \in Writers, WriterInv(w), StoreStep(w)
    PROVE  StoreTypeOK'
  <1> USE StoreAssumption
  <1>1. ASSUME NEW id \in RuleIds, NEW rule \in Rules \cup {NoRule}, NEW kind \in {"author", "delete"},
               StartCall(w, kind, id, rule)
        PROVE  StoreTypeOK'
    BY <1>1 DEF StoreTypeOK, StartCall, Goto, Call, Versions
  <1>2. CASE LatestForAuthor(w)
    <2>1. PICK n \in 0..(MaxVersion - 1) :
             /\ Found(w, n)
             /\ job' = [job EXCEPT ![w].found = n]
             /\ Goto(w, IF n # 0 /\ items[Id(w)][n].status = "active" THEN "supersede" ELSE "put")
      BY <1>2 DEF LatestForAuthor
    <2>2. clean' \in [RuleIds -> BOOLEAN] /\ UNCHANGED <<items, deleted, alone>>
      BY <1>2, <2>1 DEF LatestForAuthor, Found, Fails, StoreTypeOK
    <2>3. job' \in [Writers -> [kind : {"author", "delete"}, id : RuleIds,
                                rule : Rules \cup {NoRule}, found : 0..MaxVersion]]
      <3>1. n \in 0..MaxVersion /\ job' = [job EXCEPT ![w].found = n]
        BY <2>1
      <3> QED
        BY <3>1, FoundIsTyped
    <2> QED
      BY <2>1, <2>2, <2>3 DEF StoreTypeOK, Goto
  <1>3. ASSUME NEW kind \in {"missing", "created", "failed", "deleted"}, Answer(w, kind)
        PROVE  /\ wpc' \in [Writers -> {"idle", "latest", "supersede", "put", "deactivate"}]
               /\ job' \in [Writers -> [kind : {"author", "delete"}, id : RuleIds,
                                        rule : Rules \cup {NoRule}, found : 0..MaxVersion]]
               /\ deleted' \in [RuleIds -> BOOLEAN]
    BY <1>3 DEF StoreTypeOK, Answer, Return, Goto, Call, Id
  <1>4. CASE LatestForDelete(w)
    <2>1. PICK n \in 0..MaxVersion :
             /\ Found(w, n)
             /\ IF n = 0 \/ items[Id(w)][n].status = "inactive"
                THEN Answer(w, "missing")
                ELSE /\ Goto(w, "deactivate")
                     /\ job' = [job EXCEPT ![w].found = n]
                     /\ UNCHANGED deleted
      BY <1>4 DEF LatestForDelete
    <2>2. clean' \in [RuleIds -> BOOLEAN] /\ UNCHANGED <<items, alone>>
      BY <1>4, <2>1 DEF LatestForDelete, Found, Fails, StoreTypeOK
    <2>3. CASE Answer(w, "missing")
      BY <2>2, <2>3, <1>3 DEF StoreTypeOK
    <2>4. CASE Goto(w, "deactivate") /\ job' = [job EXCEPT ![w].found = n] /\ UNCHANGED deleted
      <3>1. wpc' \in [Writers -> {"idle", "latest", "supersede", "put", "deactivate"}]
        BY <2>4 DEF StoreTypeOK, Goto
      <3>2. job' \in [Writers -> [kind : {"author", "delete"}, id : RuleIds,
                                  rule : Rules \cup {NoRule}, found : 0..MaxVersion]]
        BY <2>4, FoundIsTyped
      <3> QED
        BY <2>2, <2>4, <3>1, <3>2 DEF StoreTypeOK
    <2> QED
      BY <2>1, <2>3, <2>4
  <1>5. CASE Supersede(w)
    <2>1. items' \in [RuleIds -> UNION { [V -> Item] : V \in SUBSET (1..MaxVersion) }]
      <3>1. UNCHANGED items \/ SetStatus(w, "superseded")
        BY <1>5 DEF Supersede
      <3>2. job[w].found \in Versions(Id(w)) /\ "superseded" \in Statuses
        BY <1>5 DEF Supersede, WriterInv, Statuses
      <3> QED
        BY <3>1, <3>2, StatusIsTyped DEF StoreTypeOK
    <2> QED
      BY <2>1, <1>5 DEF Supersede, StoreTypeOK, Goto, Fails
  <1>6. CASE Put(w)
    <2>1. items' \in [RuleIds -> UNION { [V -> Item] : V \in SUBSET (1..MaxVersion) }]
      <3>1. UNCHANGED items \/ items' = [items EXCEPT ![Id(w)] = Written(w)]
        BY <1>6 DEF Put
      <3>2. job[w].rule \in Rules /\ job[w].found < MaxVersion
        BY <1>6 DEF Put, WriterInv
      <3> QED
        BY <3>1, <3>2, WrittenIsTyped DEF StoreTypeOK
    <2>2. /\ clean' \in [RuleIds -> BOOLEAN] /\ UNCHANGED alone
          /\ Answer(w, "created") \/ Answer(w, "failed")
      BY <1>6 DEF Put, Fails, StoreTypeOK
    <2> QED
      BY <2>1, <2>2, <1>3 DEF StoreTypeOK
  <1>7. CASE Deactivate(w)
    <2>1. items' \in [RuleIds -> UNION { [V -> Item] : V \in SUBSET (1..MaxVersion) }]
      <3>1. UNCHANGED items \/ SetStatus(w, "inactive")
        BY <1>7 DEF Deactivate
      <3>2. job[w].found \in Versions(Id(w)) /\ "inactive" \in Statuses
        BY <1>7 DEF Deactivate, WriterInv, Statuses
      <3> QED
        BY <3>1, <3>2, StatusIsTyped DEF StoreTypeOK
    <2>2. /\ clean' \in [RuleIds -> BOOLEAN] /\ UNCHANGED alone
          /\ Answer(w, "deleted") \/ Answer(w, "missing")
      BY <1>7 DEF Deactivate, Fails, StoreTypeOK
    <2> QED
      BY <2>1, <2>2, <1>3 DEF StoreTypeOK
  <1>8. CASE Killed(w)
    BY <1>8 DEF StoreTypeOK, Killed, Return, Goto, Call, Id
  <1> QED
    BY <1>1, <1>2, <1>4, <1>5, <1>6, <1>7, <1>8 DEF StoreStep, Author, Delete

\* Every set of natural numbers has a least one, every bounded one a greatest.
LEMMA LeastExists ==
    ASSUME NEW S \in SUBSET Nat, S # {}
    PROVE  \E m \in S : \A n \in S : m <= n
  <1> DEFINE R == {ss \in Nat \X Nat : ss[1] < ss[2]}
  <1>1. IsWellFoundedOn(R, Nat)
    BY NatLessThanWellFounded DEF OpToRel
  <1>2. PICK m \in S : \A n \in S : <<n, m>> \notin R
    <2> HIDE DEF R
    <2> QED
      BY <1>1, WFMin
  <1>3. \A n \in S : ~(n < m)
    BY <1>2
  <1> QED
    BY <1>3

LEMMA GreatestExists ==
    ASSUME NEW n \in Nat, NEW S \in SUBSET (1..n), S # {}
    PROVE  \E m \in S : \A k \in S : k <= m
  <1> DEFINE D == { n - k : k \in S }
  <1>1. D \in SUBSET Nat /\ D # {}
    <2>1. \A k \in S : n - k \in Nat
      OBVIOUS
    <2> QED
      BY <2>1
  <1>2. PICK d \in D : \A e \in D : d <= e
    <2> HIDE DEF D
    <2> QED
      BY <1>1, LeastExists
  <1>3. PICK m \in S : d = n - m
    OBVIOUS
  <1>4. \A k \in S : d <= n - k
    BY <1>2
  <1> QED
    BY <1>3, <1>4

LEMMA NewestExists ==
    ASSUME StoreTypeOK, NEW id \in RuleIds, Versions(id) # {}
    PROVE  Newest(id) \in Versions(id) /\ \A u \in Versions(id) : u <= Newest(id)
  <1>1. Versions(id) \subseteq 1..MaxVersion /\ MaxVersion \in Nat
    BY ItemsTyped, StoreAssumption
  <1>2. \E v \in Versions(id) : \A u \in Versions(id) : u <= v
    BY <1>1, GreatestExists
  <1> QED
    BY <1>2 DEF Newest

LEMMA FoundIsThere ==
    ASSUME StoreTypeOK, NEW w \in Writers, NEW n, Found(w, n)
    PROVE  n \in Versions(Id(w)) \cup {0}
  <1>1. Id(w) \in RuleIds
    BY DEF StoreTypeOK, Id
  <1>2. Newest(Id(w)) \in Versions(Id(w)) \cup {0}
    <2>1. CASE Versions(Id(w)) = {}
      BY <2>1 DEF Newest
    <2>2. CASE Versions(Id(w)) # {}
      BY <2>2, <1>1, NewestExists
    <2> QED
      BY <2>1, <2>2
  <1> QED
    BY <1>2 DEF Found

\* A step of a writer leaves the versions alone or puts one behind the one found.
LEMMA VersionsStep ==
    ASSUME StoreTypeOK, NEW w \in Writers, WriterInv(w), StoreStep(w), NEW id \in RuleIds
    PROVE  \/ Versions(id)' = Versions(id)
           \/ id = Id(w) /\ Versions(id)' = Versions(id) \cup {job[w].found + 1}
  <1>1. CASE UNCHANGED items
    BY <1>1 DEF Versions
  <1>2. CASE Supersede(w) \/ Deactivate(w)
    <2>1. \/ UNCHANGED items
          \/ \E status \in Statuses : SetStatus(w, status)
      BY <1>2 DEF Supersede, Deactivate, Statuses
    <2>2. job[w].found \in Versions(Id(w))
      BY <1>2 DEF Supersede, Deactivate, WriterInv
    <2> QED
      BY <1>1, <2>1, <2>2, StatusIsTyped
  <1>3. CASE Put(w)
    <2>1. UNCHANGED items \/ items' = [items EXCEPT ![Id(w)] = Written(w)]
      BY <1>3 DEF Put
    <2>2. job[w].rule \in Rules /\ job[w].found < MaxVersion
      BY <1>3 DEF Put, WriterInv
    <2> QED
      BY <1>1, <2>1, <2>2, WrittenIsTyped
  <1> QED
    BY <1>1, <1>2, <1>3 DEF StoreStep, Author, Delete, StartCall, LatestForAuthor,
       LatestForDelete, Killed

\* A step of one writer leaves the calls of the others where they are.
LEMMA OthersStay ==
    ASSUME StoreTypeOK, NEW w \in Writers, StoreStep(w), NEW u \in Writers, u # w
    PROVE  wpc'[u] = wpc[u] /\ job'[u] = job[u]
  <1>1. wpc'[u] = wpc[u]
    BY DEF StoreTypeOK, StoreStep, Author, Delete, StartCall, LatestForAuthor,
       LatestForDelete, Supersede, Put, Deactivate, Killed, Answer, Return, Goto
  <1>2. job'[u] = job[u]
    BY DEF StoreTypeOK, StoreStep, Author, Delete, StartCall, LatestForAuthor,
       LatestForDelete, Supersede, Put, Deactivate, Killed, Answer, Return
  <1> QED
    BY <1>1, <1>2

LEMMA WriterStep ==
    ASSUME StoreTypeOK, NEW w \in Writers, \A u \in Writers : WriterInv(u), StoreStep(w),
           NEW u \in Writers
    PROVE  WriterInv(u)'
  <1> USE StoreAssumption
  <1>1. \A id \in RuleIds : Versions(id) \subseteq Versions(id)'
    BY VersionsStep
  <1>2. Id(u) \in RuleIds
    BY DEF StoreTypeOK, Id
  <1>3. CASE u # w
    <2>1. wpc'[u] = wpc[u] /\ job'[u] = job[u]
      BY <1>3, OthersStay
    <2>2. WriterInv(u) /\ Versions(Id(u)) \subseteq DOMAIN items'[Id(u)]
      BY <1>1, <1>2 DEF Versions
    <2> QED
      BY <2>1, <2>2 DEF WriterInv, Id, Versions
  <1>4. CASE u = w
    <2> SUFFICES WriterInv(w)'
      BY <1>4
    <2>1. ASSUME NEW id \in RuleIds, NEW rule, NEW kind \in {"author", "delete"},
                 kind = "author" => rule \in Rules, StartCall(w, kind, id, rule)
          PROVE  WriterInv(w)'
      <3>1. wpc'[w] = "latest" /\ job'[w] = Call(kind, id, rule)
        BY <2>1 DEF StartCall, Goto, StoreTypeOK
      <3> QED
        BY <2>1, <3>1 DEF WriterInv, Call
    <2>2. ASSUME Return(w)
          PROVE  WriterInv(w)'
      <3>1. wpc'[w] = "idle" /\ job'[w].found = 0
        BY <2>2 DEF Return, Goto, Call, StoreTypeOK
      <3> QED
        BY <3>1 DEF WriterInv
    <2>3. CASE LatestForAuthor(w)
      <3>1. PICK n \in 0..(MaxVersion - 1) :
               /\ Found(w, n)
               /\ job' = [job EXCEPT ![w].found = n]
               /\ Goto(w, IF n # 0 /\ items[Id(w)][n].status = "active" THEN "supersede" ELSE "put")
        BY <2>3 DEF LatestForAuthor
      <3>2. /\ job'[w].found = n /\ job'[w].kind = "author" /\ job'[w].rule = job[w].rule
            /\ job'[w].id = job[w].id
        BY <2>3, <3>1 DEF StoreTypeOK, LatestForAuthor
      <3>3. /\ wpc'[w] \in {"supersede", "put"}
            /\ wpc'[w] = "supersede" => n # 0
        BY <3>1 DEF Goto, StoreTypeOK
      <3>4. n \in Versions(Id(w)) \cup {0}
        BY <3>1, FoundIsThere
      <3>5. job[w].rule \in Rules /\ UNCHANGED items
        BY <2>3 DEF LatestForAuthor, WriterInv
      <3>6. n < MaxVersion
        BY <3>1
      <3> QED
        BY <3>2, <3>3, <3>4, <3>5, <3>6 DEF WriterInv, Id, Versions
    <2>4. CASE LatestForDelete(w)
      <3>1. PICK n \in 0..MaxVersion :
               /\ Found(w, n)
               /\ IF n = 0 \/ items[Id(w)][n].status = "inactive"
                  THEN Answer(w, "missing")
                  ELSE /\ Goto(w, "deactivate")
                       /\ job' = [job EXCEPT ![w].found = n]
                       /\ UNCHANGED deleted
        BY <2>4 DEF LatestForDelete
      <3>2. n \in Versions(Id(w)) \cup {0} /\ UNCHANGED items
        BY <2>4, <3>1, FoundIsThere DEF LatestForDelete
      <3>3. CASE n # 0 /\ Goto(w, "deactivate") /\ job' = [job EXCEPT ![w].found = n]
        <4>1. /\ job'[w].found = n /\ job'[w].kind = "delete" /\ job'[w].id = job[w].id
              /\ wpc'[w] = "deactivate"
          BY <2>4, <3>3 DEF StoreTypeOK, LatestForDelete, Goto
        <4> QED
          BY <4>1, <3>2, <3>3 DEF WriterInv, Id, Versions
      <3> QED
        BY <3>1, <3>3, <2>2 DEF Answer
    <2>5. CASE Supersede(w)
      <3>1. wpc'[w] = "put" /\ job' = job
        BY <2>5 DEF Supersede, Goto, StoreTypeOK
      <3>2. Versions(Id(w)) \subseteq DOMAIN items'[Id(w)]
        BY <1>1, <1>2, <1>4 DEF Versions
      <3>3. wpc[w] = "supersede" /\ WriterInv(w)
        BY <2>5 DEF Supersede
      <3> QED
        BY <3>1, <3>2, <3>3 DEF WriterInv, Id, Versions
    <2> QED
      BY <2>1, <2>2, <2>3, <2>4, <2>5 DEF StoreStep, Author, Delete, Put, Deactivate, Killed, Answer
  <1> QED
    BY <1>3, <1>4

\* A put behind version n = 0 or behind one that is there leaves no hole.
LEMMA ContiguousStep ==
    ASSUME StoreTypeOK, NEW w \in Writers, WriterInv(w), VersionsContiguous, StoreStep(w)
    PROVE  VersionsContiguous'
  <1> SUFFICES ASSUME NEW id \in RuleIds, NEW v \in Versions(id)'
               PROVE  1..v \subseteq Versions(id)'
    BY DEF VersionsContiguous
  <1>1. job[w].found \in 0..MaxVersion /\ MaxVersion \in Nat
    BY StoreAssumption DEF StoreTypeOK
  <1>2. CASE v \in Versions(id)
    BY <1>2, VersionsStep DEF VersionsContiguous
  <1>3. CASE v \notin Versions(id)
    <2>1. /\ id = Id(w) /\ v = job[w].found + 1
          /\ Versions(id)' = Versions(id) \cup {v}
      BY <1>3, VersionsStep
    <2>2. 1..job[w].found \subseteq Versions(id)
      BY <1>1, <2>1 DEF WriterInv, VersionsContiguous
    <2>3. 1..v \subseteq 1..job[w].found \cup {v}
      BY <1>1, <2>1
    <2> QED
      BY <2>1, <2>2, <2>3
  <1> QED
    BY <1>2, <1>3

-----------------------------------------------------------------------------
(* Types of the gate *)

LEMMA StoreStepKeeps ==
    ASSUME StoreTypeOK, StoreInv, NEW w \in Writers, StoreStep(w)
    PROVE  StoreTypeOK' /\ StoreInv'
  BY StoreTypeStep, WriterStep, ContiguousStep DEF StoreInv

LEMMA StoreFrame ==
    ASSUME StoreTypeOK, StoreInv, UNCHANGED storeVars
    PROVE  StoreTypeOK' /\ StoreInv' /\ InForce' = InForce
  <1> USE DEF storeVars
  <1>1. StoreTypeOK'
    BY DEF StoreTypeOK
  <1>2. \A id : Versions(id)' = Versions(id)
    BY DEF Versions
  <1>3. \A w \in Writers : WriterInv(w)'
    BY DEF StoreInv, WriterInv, Id, Versions
  <1>4. VersionsContiguous'
    BY <1>2 DEF StoreInv, VersionsContiguous
  <1>5. InForce' = InForce
    BY DEF InForce, ActiveVersions, Versions
  <1> QED
    BY <1>1, <1>3, <1>4, <1>5 DEF StoreInv

LEMMA StepTyped ==
    ASSUME Typed, NEW c \in Containers, Judging(c)
    PROVE  Step(c) \in Steps /\ Len(verdicts[c]) \in Nat
  <1>1. verdicts[c] \in Seq(Answers) /\ plan[c] \in Commands \cup {<< >>}
    BY DEF Typed, TypeOK
  <1>2. Len(verdicts[c]) \in Nat /\ Len(verdicts[c]) < Len(plan[c])
    BY <1>1 DEF Judging
  <1>3. plan[c] \in Commands /\ plan[c] \in Seq(Steps)
    BY <1>1, <1>2, GateAssumption
  <1>4. Len(verdicts[c]) + 1 \in DOMAIN plan[c]
    BY <1>2, <1>3
  <1> QED
    BY <1>2, <1>3, <1>4 DEF Step

\* A judged step: one verdict more, the one the rules give.
LEMMA JudgeTyped ==
    ASSUME Typed, NEW c \in Containers, NEW P \in SUBSET Policies, JudgeWith(c, P)
    PROVE  /\ verdicts' \in [Containers -> Seq(Answers)]
           /\ \A d \in Containers : Len(verdicts'[d]) <= Len(plan'[d])
           /\ \A d \in Containers : d # c => verdicts'[d] = verdicts[d]
           /\ \A d \in Containers : cpc'[d] = "idle" => verdicts'[d] = << >>
           /\ Given(c) = Verdict(P, Step(c), ctx[c])
  <1> DEFINE v == Verdict(P, Step(c), ctx[c])
  <1>1. Judging(c) /\ plan' = plan
    BY DEF JudgeWith
  <1>2. Step(c) \in Steps /\ Len(verdicts[c]) \in Nat
    BY <1>1, StepTyped
  <1>3. v \in Answers
    <2>1. ctx[c] \in [is_home : BOOLEAN]
      BY DEF Typed, TypeOK
    <2>2. \E Q \in SUBSET Policies, s \in Steps, x \in [is_home : BOOLEAN] : v = Verdict(Q, s, x)
      BY <1>2, <2>1
    <2> QED
      BY <2>2 DEF Answers
  <1>4. verdicts[c] \in Seq(Answers) /\ verdicts \in [Containers -> Seq(Answers)]
    BY DEF Typed
  <1>5. verdicts' = [verdicts EXCEPT ![c] = Append(verdicts[c], v)]
    BY <1>4 DEF JudgeWith, Step
  <1> HIDE DEF v
  <1>6. Append(verdicts[c], v) \in Seq(Answers)
    BY <1>3, <1>4
  <1>7. /\ Len(Append(verdicts[c], v)) = Len(verdicts[c]) + 1
        /\ Append(verdicts[c], v)[Len(verdicts[c]) + 1] = v
    BY <1>3, <1>4
  <1>8. verdicts' \in [Containers -> Seq(Answers)]
    BY <1>4, <1>5, <1>6
  <1>9. verdicts'[c] = Append(verdicts[c], v) /\ \A d \in Containers : d # c => verdicts'[d] = verdicts[d]
    BY <1>4, <1>5
  <1>10. Len(verdicts'[c]) <= Len(plan[c])
    <2>1. plan[c] \in Seq(Steps)
      BY GateAssumption DEF Typed, TypeOK
    <2>2. Len(plan[c]) \in Nat
      BY <2>1
    <2> QED
      BY <1>1, <1>2, <1>7, <1>9, <2>2 DEF Judging
  <1>11. \A d \in Containers : Len(verdicts'[d]) <= Len(plan'[d])
    BY <1>1, <1>9, <1>10 DEF Typed, TypeOK
  <1>12. \A d \in Containers : cpc'[d] = "idle" => verdicts'[d] = << >>
    BY <1>9 DEF JudgeWith, Judging, Typed
  <1> QED
    BY <1>7, <1>8, <1>9, <1>11, <1>12 DEF Given, v

LEMMA LeaveTyped ==
    ASSUME Typed, NEW c \in Containers, Leave(c)
    PROVE  /\ cpc' \in [Containers -> {"idle", "context", "judge"}]
           /\ plan' \in [Containers -> Commands \cup {<< >>}]
           /\ ctx' \in [Containers -> [is_home : BOOLEAN]]
           /\ verdicts' \in [Containers -> Seq(Answers)]
           /\ \A d \in Containers : Len(verdicts'[d]) <= Len(plan'[d])
           /\ \A d \in Containers : cpc'[d] = "idle" => verdicts'[d] = << >>
           /\ elapsed' \in [Containers -> 0..LambdaTimeout]
  <1>1. 0 \in 0..LambdaTimeout
    BY GateAssumption
  <1>2. << >> \in Seq(Answers)
    OBVIOUS
  <1>3. [is_home |-> TRUE] \in [is_home : BOOLEAN]
    OBVIOUS
  <1>4. /\ cpc' \in [Containers -> {"idle", "context", "judge"}]
        /\ plan' \in [Containers -> Commands \cup {<< >>}]
        /\ elapsed' \in [Containers -> 0..LambdaTimeout]
    BY <1>1 DEF Leave, Typed, TypeOK
  <1>5. ctx' \in [Containers -> [is_home : BOOLEAN]]
    BY <1>3 DEF Leave, Typed, TypeOK
  <1>6. verdicts' \in [Containers -> Seq(Answers)]
    BY <1>2 DEF Leave, Typed
  <1>7. \A d \in Containers : Len(verdicts'[d]) <= Len(plan'[d])
    <2> TAKE d \in Containers
    <2>1. CASE d = c
      <3>1. verdicts'[d] = << >> /\ plan'[d] = << >>
        BY <2>1 DEF Leave, Typed, TypeOK
      <3> QED
        BY <3>1
    <2>2. CASE d # c
      BY <2>2 DEF Leave, Typed, TypeOK
    <2> QED
      BY <2>1, <2>2
  <1>8. \A d \in Containers : cpc'[d] = "idle" => verdicts'[d] = << >>
    BY DEF Leave, Typed, TypeOK
  <1> QED
    BY <1>4, <1>5, <1>6, <1>7, <1>8

LEMMA ColdTyped ==
    ASSUME Typed, NEW c \in Containers, Cold(c)
    PROVE  cache' \in [Containers -> SUBSET Policies] /\ left' \in [Containers -> 0..TTL]
  BY GateAssumption DEF Typed, TypeOK, Cold

LEMMA TypeStep ==
    ASSUME Typed, StoreInv, [Next]_vars
    PROVE  Typed'
  <1> USE GateAssumption DEF Typed, TypeOK, history, gateVars
  <1>1. ASSUME NEW w \in Writers, Write(w)
        PROVE  Typed'
    <2>1. StoreTypeOK'
      BY <1>1, StoreStepKeeps DEF Write
    <2>2. age' \in [Policies -> 0..TTL] /\ known' \in [Containers -> SUBSET Policies]
      BY <1>1 DEF Write
    <2> QED
      BY <1>1, <2>1, <2>2 DEF Write
  <1>2. ASSUME UNCHANGED storeVars
        PROVE  StoreTypeOK'
    BY <1>2, StoreFrame
  <1>3. ASSUME NEW c \in Containers, NEW p \in Commands, Start(c, p)
        PROVE  Typed'
    <2>1. verdicts[c] = << >> /\ p \in Seq(Steps)
      BY <1>3 DEF Start
    <2>2. \A d \in Containers : Len(verdicts'[d]) <= Len(plan'[d])
      BY <1>3, <2>1 DEF Start
    <2> QED
      BY <1>2, <1>3, <2>2 DEF Start
  <1>4. ASSUME NEW c \in Containers, ReadContext(c)
        PROVE  Typed'
    <2>1. ctx' \in [Containers -> [is_home : BOOLEAN]]
      BY <1>4 DEF ReadContext
    <2> QED
      BY <1>2, <1>4, <2>1 DEF ReadContext
  <1>5. ASSUME NEW c \in Containers, JudgeFromCache(c)
        PROVE  Typed'
    <2>1. JudgeWith(c, cache[c]) /\ cache[c] \in SUBSET Policies
      BY <1>5 DEF JudgeFromCache
    <2> QED
      <3>1. /\ verdicts' \in [Containers -> Seq(Answers)]
            /\ \A d \in Containers : Len(verdicts'[d]) <= Len(plan'[d])
            /\ \A d \in Containers : cpc'[d] = "idle" => verdicts'[d] = << >>
        BY <2>1, JudgeTyped
      <3>2. UNCHANGED <<storeVars, cpc, plan, ctx, elapsed, age, cache, left, calm, known>>
        BY <1>5 DEF JudgeFromCache, JudgeWith
      <3> QED
        BY <1>2, <3>1, <3>2
  <1>6. ASSUME NEW c \in Containers, NEW P \in SUBSET Policies, NEW n \in 0..TTL, Load(c, P, n),
               calm' \in [Containers -> 0..RetryTTL], known' \in [Containers -> SUBSET Policies]
        PROVE  Typed'
    <2>1. JudgeWith(c, P)
      BY <1>6 DEF Load
    <2> QED
      BY <1>2, <1>6, <2>1, JudgeTyped DEF Load, JudgeWith
  <1>7. ASSUME NEW c \in Containers, JudgeLoaded(c)
        PROVE  Typed'
    <2>1. InForce \in SUBSET Policies
      BY InForceTyped
    <2>2. calm' \in [Containers -> 0..RetryTTL] /\ known' \in [Containers -> SUBSET Policies]
      BY <1>7, <2>1 DEF JudgeLoaded
    <2> QED
      BY <1>6, <1>7, <2>1, <2>2, TTL \in 0..TTL DEF JudgeLoaded
  <1>8. ASSUME NEW c \in Containers, JudgeLoadFailed(c)
        PROVE  Typed'
    <2>1. calm' \in [Containers -> 0..RetryTTL] /\ known' \in [Containers -> SUBSET Policies]
      BY <1>8 DEF JudgeLoadFailed
    <2> QED
      BY <1>6, <1>8, <2>1, cache[c] \in SUBSET Policies, RetryTTL \in 0..TTL
         DEF JudgeLoadFailed, LoadFails
  <1>9. ASSUME NEW c \in Containers, Execute(c)
        PROVE  Typed'
    BY <1>2, <1>9, LeaveTyped DEF Execute
  <1>10. ASSUME NEW c \in Containers, Recycle(c)
        PROVE  Typed'
    <2>1. Leave(c) /\ Cold(c)
      BY <1>10 DEF Recycle
    <2>2. known' \in [Containers -> SUBSET Policies]
      BY <1>10 DEF Recycle
    <2> QED
      BY <1>2, <1>10, <2>1, <2>2, LeaveTyped, ColdTyped DEF Recycle
  <1>11. CASE Tick
    <2>1. /\ left' \in [Containers -> 0..TTL]
          /\ age' \in [Policies -> 0..TTL]
          /\ calm' \in [Containers -> 0..RetryTTL]
      BY <1>11 DEF Tick, Later
    <2>2. elapsed' \in [Containers -> 0..LambdaTimeout]
      BY <1>11 DEF Tick
    <2> QED
      BY <1>2, <1>11, <2>1, <2>2 DEF Tick
  <1>12. CASE UNCHANGED vars
    BY <1>2, <1>12 DEF vars
  <1> QED
    BY <1>1, <1>3, <1>4, <1>5, <1>7, <1>8, <1>9, <1>10, <1>11, <1>12 DEF Next, Progress

-----------------------------------------------------------------------------
(* The caches *)

\* A step of a writer: a rule that comes or goes is too young for every cache.
LEMMA WriteSettles ==
    ASSUME Typed, GateInvs, NEW w \in Writers, Write(w), NEW c \in Containers
    PROVE  GateInv(c)'
  <1>1. /\ cache'[c] = cache[c] /\ left'[c] = left[c] /\ calm'[c] = calm[c]
        /\ known'[c] = known[c] \cap InForce'
        /\ \A p \in Policies :
              age'[p] = IF (p \in InForce) # (p \in InForce') THEN 0 ELSE age[p]
    BY DEF Write, gateVars
  <1>2. known'[c] \subseteq cache'[c] \cap InForce'
    BY <1>1 DEF GateInvs, GateInv
  <1>3. left[c] \in 0..TTL /\ TTL \in Nat
    BY GateAssumption DEF Typed, TypeOK
  <1>4. ASSUME left[c] > 0, left[c] + calm[c] > RetryTTL, NEW p \in Policies,
               age'[p] > TTL - left[c]
        PROVE  p \in InForce' <=> p \in cache[c]
    <2>1. age'[p] # 0
      BY <1>3, <1>4
    <2>2. (p \in InForce <=> p \in InForce') /\ age'[p] = age[p]
      BY <1>1, <2>1
    <2>3. p \in InForce <=> p \in cache[c]
      BY <1>4, <2>2 DEF GateInvs, GateInv, Settled
    <2> QED
      BY <2>2, <2>3
  <1> QED
    BY <1>1, <1>2, <1>4 DEF GateInv, Settled

\* A step of another container.
LEMMA GateFrame ==
    ASSUME GateInvs, NEW c \in Containers, UNCHANGED <<storeVars, age>>,
           cache'[c] = cache[c], left'[c] = left[c], calm'[c] = calm[c], known'[c] = known[c]
    PROVE  GateInv(c)'
  <1>1. InForce' = InForce
    BY DEF InForce, ActiveVersions, Versions, storeVars
  <1> QED
    BY <1>1 DEF GateInvs, GateInv, Settled

LEMMA JudgeSettles ==
    ASSUME Typed, StoreInv, GateInvs, NEW d \in Containers,
           JudgeFromCache(d) \/ JudgeLoaded(d) \/ JudgeLoadFailed(d), NEW c \in Containers
    PROVE  GateInv(c)'
  <1>1. UNCHANGED <<storeVars, age>> /\ InForce' = InForce
    <2>1. UNCHANGED <<storeVars, age>>
      BY DEF JudgeFromCache, JudgeLoaded, JudgeLoadFailed, LoadFails, Load, JudgeWith
    <2> QED
      BY <2>1, StoreFrame DEF Typed, TypeOK
  <1>2. CASE c # d \/ JudgeFromCache(d)
    <2>1. cache'[c] = cache[c] /\ left'[c] = left[c] /\ calm'[c] = calm[c] /\ known'[c] = known[c]
      BY <1>2 DEF JudgeFromCache, JudgeLoaded, JudgeLoadFailed, LoadFails, Load, Typed, TypeOK
    <2> QED
      BY <1>1, <2>1, GateFrame
  <1>3. CASE c = d /\ JudgeLoaded(d)
    <2>1. cache'[c] = InForce /\ known'[c] = InForce
      BY <1>3 DEF JudgeLoaded, Load, Typed, TypeOK
    <2> QED
      BY <1>1, <2>1 DEF GateInv, Settled
  <1>4. CASE c = d /\ JudgeLoadFailed(d)
    <2>1. cache'[c] = cache[c] /\ known'[c] = known[c] /\ left'[c] = RetryTTL /\ calm'[c] = 0
      BY <1>4 DEF JudgeLoadFailed, LoadFails, Load, Typed, TypeOK
    <2>2. ~(left'[c] + calm'[c] > RetryTTL)
      BY <2>1, GateAssumption
    <2> QED
      BY <1>1, <2>1, <2>2 DEF GateInvs, GateInv, Settled
  <1> QED
    BY <1>2, <1>3, <1>4

LEMMA RecycleSettles ==
    ASSUME Typed, StoreInv, GateInvs, NEW d \in Containers, Recycle(d), NEW c \in Containers
    PROVE  GateInv(c)'
  <1>1. CASE c # d
    <2>1. cache'[c] = cache[c] /\ left'[c] = left[c] /\ calm'[c] = calm[c] /\ known'[c] = known[c]
      BY <1>1 DEF Recycle, Cold, Typed, TypeOK
    <2> QED
      BY <2>1, GateFrame DEF Recycle
  <1>2. CASE c = d
    <2>1. left'[c] = 0 /\ known'[c] = {}
      BY <1>2 DEF Recycle, Cold, Typed, TypeOK
    <2> QED
      BY <2>1 DEF GateInv, Settled
  <1> QED
    BY <1>1, <1>2

\* A second goes by: what is left shrinks as fast as rules age.
LEMMA TickSettles ==
    ASSUME Typed, StoreInv, GateInvs, Tick, NEW c \in Containers
    PROVE  GateInv(c)'
  <1>1. InForce' = InForce /\ known' = known /\ cache' = cache
    BY StoreFrame DEF Tick, Typed, TypeOK
  <1>2. /\ left'[c] = IF left[c] = 0 THEN 0 ELSE left[c] - 1
        /\ calm'[c] = IF calm[c] < RetryTTL THEN calm[c] + 1 ELSE RetryTTL
        /\ \A p \in Policies : age'[p] = IF age[p] < TTL THEN age[p] + 1 ELSE TTL
    BY DEF Tick, Later
  <1>3. /\ left[c] \in 0..TTL /\ calm[c] \in 0..RetryTTL /\ TTL \in Nat /\ RetryTTL \in Nat
        /\ \A p \in Policies : age[p] \in 0..TTL
    BY GateAssumption DEF Typed, TypeOK
  <1>4. ASSUME left'[c] > 0, left'[c] + calm'[c] > RetryTTL, NEW p \in Policies,
               age'[p] > TTL - left'[c]
        PROVE  p \in InForce <=> p \in cache[c]
    <2>1. left[c] > 0 /\ left[c] + calm[c] > RetryTTL
      BY <1>2, <1>3, <1>4
    <2>2. age[p] > TTL - left[c]
      BY <1>2, <1>3, <1>4
    <2> QED
      BY <2>1, <2>2 DEF GateInvs, GateInv, Settled
  <1> QED
    BY <1>1, <1>4 DEF GateInvs, GateInv, Settled

LEMMA GateStep ==
    ASSUME Typed, StoreInv, GateInvs, [Next]_vars
    PROVE  GateInvs'
  <1> SUFFICES ASSUME NEW c \in Containers
               PROVE  GateInv(c)'
    BY DEF GateInvs
  <1>1. ASSUME UNCHANGED <<storeVars, cache, left, history>>
        PROVE  GateInv(c)'
    BY <1>1, GateFrame DEF history
  <1>2. ASSUME NEW d \in Containers,
               (\E p \in Commands : Start(d, p)) \/ ReadContext(d) \/ Execute(d)
        PROVE  GateInv(c)'
    BY <1>1, <1>2 DEF Start, ReadContext, Execute
  <1>3. CASE UNCHANGED vars
    BY <1>1, <1>3 DEF vars, gateVars
  <1> QED
    BY <1>2, <1>3, WriteSettles, JudgeSettles, RecycleSettles, TickSettles DEF Next, Progress

-----------------------------------------------------------------------------
(* What the verdict of a list of rules says *)

\* A block that speaks of a step that is not safe is enough.
LEMMA BlockDecides ==
    ASSUME NEW P \in SUBSET Policies, NEW p \in P, NEW s, NEW x, Unsafe(s),
           p.rule.type = "block", Canonical[p.rule.device] = Canonical[s.dev],
           Matches(p.rule, x)
    PROVE  Verdict(P, s, x).verdict = "block"
  <1> DEFINE rules == [q \in P |-> q.rule]
             blocks == Matching(rules, s.dev, x, "block")
  <1>1. p \in blocks
    BY DEF Matching
  <1>2. s.act \notin SAFE_ACTIONS
    BY DEF Unsafe, SAFE_ACTIONS
  <1> QED
    BY <1>1, <1>2 DEF Verdict, ComputeVerdict

\* A block comes from a rule of the list that speaks of the step, and names it.
LEMMA BlockIsNamed ==
    ASSUME NEW P \in SUBSET Policies, NEW s, NEW x, Verdict(P, s, x).verdict = "block"
    PROVE  \E p \in P : /\ p.rule.type = "block"
                        /\ Canonical[p.rule.device] = Canonical[s.dev]
                        /\ Matches(p.rule, x)
                        /\ p.rule.key = Verdict(P, s, x).key
  <1> DEFINE rules == [q \in P |-> q.rule]
             blocks == Matching(rules, s.dev, x, "block")
             modifiers == Matching(rules, s.dev, x, "modify")
  <1>1. Verdict(P, s, x) =
          IF s.act \in SAFE_ACTIONS THEN Allow
          ELSE IF blocks # {} THEN [verdict |-> "block", key |-> rules[Winner(rules, blocks)].key]
          ELSE IF modifiers # {} THEN Decision("modify", rules[Winner(rules, modifiers)])
          ELSE Allow
    BY DEF Verdict, ComputeVerdict
  <1>2. Allow.verdict # "block" /\ \A r : Decision("modify", r).verdict # "block"
    BY DEF Allow, Decision
  <1>3. /\ blocks # {}
        /\ Verdict(P, s, x) = [verdict |-> "block", key |-> rules[Winner(rules, blocks)].key]
    <2> HIDE DEF rules, blocks, modifiers
    <2> QED
      BY <1>1, <1>2
  <1>4. /\ blocks \subseteq P
        /\ \A p \in blocks : /\ rules[p].key \in Nat /\ rules[p] = p.rule
                             /\ p.rule.type = "block" /\ Matches(p.rule, x)
                             /\ Canonical[p.rule.device] = Canonical[s.dev]
    BY GateAssumption DEF Matching, Policies
  <1>5. \E i \in blocks : \A j \in blocks : rules[i].key <= rules[j].key
    <2> DEFINE keys == { rules[p].key : p \in blocks }
    <2> HIDE DEF blocks, rules
    <2>1. keys \in SUBSET Nat /\ keys # {}
      BY <1>3, <1>4
    <2>2. PICK k \in keys : \A n \in keys : k <= n
      <3> HIDE DEF keys
      <3> QED
        BY <2>1, LeastExists
    <2> QED
      BY <2>2
  <1>6. Winner(rules, blocks) \in blocks
    <2> HIDE DEF rules, blocks
    <2> QED
      BY <1>5 DEF Winner
  <1>7. Winner(rules, blocks).rule.key = Verdict(P, s, x).key
    <2> HIDE DEF rules, blocks
    <2> QED
      BY <1>3, <1>4, <1>6
  <1> QED
    BY <1>4, <1>6, <1>7

-----------------------------------------------------------------------------
(* The theorems *)

LEMMA InvInit == Init => Typed /\ IInv
  <1> SUFFICES ASSUME Init
               PROVE  Typed /\ IInv
    OBVIOUS
  <1> USE DEF Init, StoreInit
  <1>1. \A id \in RuleIds : Versions(id) = {}
    BY DEF Versions
  <1>2. StoreTypeOK
    <2>1. items \in [RuleIds -> UNION { [V -> Item] : V \in SUBSET (1..MaxVersion) }]
      <3>1. [v \in {} |-> {}] \in UNION { [V -> Item] : V \in SUBSET (1..MaxVersion) }
        <4>1. [v \in {} |-> {}] \in [{} -> Item]
          OBVIOUS
        <4> QED
          BY <4>1, ItemsOf
      <3> QED
        BY <3>1
    <2>2. 0 \in 0..MaxVersion
      BY StoreAssumption
    <2>3. PICK id \in RuleIds :
             job = [w \in Writers |-> Call("delete", id, NoRule)]
      OBVIOUS
    <2>4. /\ wpc \in [Writers -> {"idle", "latest", "supersede", "put", "deactivate"}]
          /\ job \in [Writers -> [kind : {"author", "delete"}, id : RuleIds,
                                  rule : Rules \cup {NoRule}, found : 0..MaxVersion]]
      BY <2>2, <2>3 DEF Call
    <2> QED
      BY <2>1, <2>4 DEF StoreTypeOK
  <1>3. InForce = {}
    BY <1>1 DEF InForce, ActiveVersions
  <1>4. Typed
    <2>1. /\ 0 \in 0..TTL /\ TTL \in 0..TTL /\ RetryTTL \in 0..RetryTTL /\ 0 \in 0..LambdaTimeout
          /\ << >> \in Seq(Answers) /\ Len(<< >>) <= Len(<< >>)
          /\ [is_home |-> TRUE] \in [is_home : BOOLEAN]
      BY GateAssumption
    <2> QED
      BY <1>2, <2>1 DEF Typed, TypeOK
  <1>5. StoreInv
    BY <1>1 DEF StoreInv, WriterInv, Call, VersionsContiguous
  <1>6. GateInvs
    BY DEF GateInvs, GateInv, Settled
  <1> QED
    BY <1>4, <1>5, <1>6 DEF IInv

LEMMA InvStep == Typed /\ IInv /\ [Next]_vars => Typed' /\ IInv'
  <1> SUFFICES ASSUME Typed, IInv, [Next]_vars
               PROVE  Typed' /\ IInv'
    OBVIOUS
  <1>1. Typed' /\ GateInvs'
    BY TypeStep, GateStep DEF IInv
  <1>2. StoreTypeOK /\ StoreInv
    BY DEF Typed, TypeOK, IInv
  <1>3. ASSUME UNCHANGED storeVars
        PROVE  StoreInv'
    BY <1>2, <1>3, StoreFrame
  <1>4. ASSUME NEW w \in Writers, Write(w)
        PROVE  StoreInv'
    BY <1>2, <1>4, StoreStepKeeps DEF Write
  <1>5. UNCHANGED storeVars \/ \E w \in Writers : Write(w)
    BY DEF Next, vars, Start, Progress, ReadContext, JudgeFromCache, JudgeLoaded,
       JudgeLoadFailed, LoadFails, Load, JudgeWith, Execute, Recycle, Tick
  <1>6. StoreInv'
    BY <1>2, <1>3, <1>4, <1>5
  <1> QED
    BY <1>1, <1>6 DEF IInv

LEMMA Inductive == Spec => [](Typed /\ IInv)
  BY InvInit, InvStep, PTL DEF Spec

\* Every state of the table, the caches and the commands has its type.
\* (policy_store, policy_loader, middleware)
THEOREM TypeCorrect == Spec => []TypeOK
  <1>1. Typed => TypeOK
    BY DEF Typed
  <1> QED
    BY <1>1, Inductive, PTL

\* The versions of a rule have no hole, with any number of writers, faults and kills.
\* (policy_store.save_policy)
THEOREM NoHole == Spec => []VersionsContiguous
  <1>1. IInv => VersionsContiguous
    BY DEF IInv, StoreInv
  <1> QED
    BY <1>1, Inductive, PTL

\* A step that is judged: by the cache, by a load, or by the cache after a load failed.
LEMMA JudgedBy ==
    ASSUME Typed, IInv, [Next]_vars, NEW c \in Containers, Judged(c)
    PROVE  /\ UNCHANGED <<ctx, plan, age>> /\ InForce' = InForce
           /\ \E P \in SUBSET Policies :
                 /\ Given(c) = Verdict(P, Step(c), ctx[c])
                 /\ \/ P = cache[c] /\ left[c] > 0 /\ calm'[c] = calm[c]
                    \/ P = InForce
                    \/ P = cache[c] /\ calm'[c] = 0
  <1>1. verdicts[c] \in Seq(Answers) /\ verdicts'[c] # verdicts[c] /\ verdicts'[c] # << >>
    <2>1. verdicts[c] \in Seq(Answers)
      BY DEF Typed
    <2> QED
      BY <2>1 DEF Judged
  <1>2. ASSUME NEW d \in Containers, Leave(d)
        PROVE  FALSE
    BY <1>1, <1>2 DEF Leave, Typed
  <1>3. verdicts' # verdicts
    BY <1>1
  <1>4. PICK d \in Containers : JudgeFromCache(d) \/ JudgeLoaded(d) \/ JudgeLoadFailed(d)
    BY <1>2, <1>3 DEF Next, Progress, vars, gateVars, Write, Start, ReadContext, Execute,
       Recycle, Tick
  <1>5. cache[d] \in SUBSET Policies /\ InForce \in SUBSET Policies
    BY InForceTyped DEF Typed, TypeOK
  <1>6. PICK P \in SUBSET Policies :
           /\ JudgeWith(d, P)
           /\ \/ P = cache[d] /\ left[d] > 0 /\ calm'[d] = calm[d]
              \/ P = InForce
              \/ P = cache[d] /\ calm'[d] = 0
    <2>1. CASE JudgeFromCache(d)
      BY <2>1, <1>5 DEF JudgeFromCache
    <2>2. CASE JudgeLoaded(d)
      BY <2>2, <1>5 DEF JudgeLoaded, Load
    <2>3. CASE JudgeLoadFailed(d)
      <3>1. calm'[d] = 0
        BY <2>3 DEF JudgeLoadFailed, Typed, TypeOK
      <3> QED
        BY <2>3, <3>1, <1>5 DEF JudgeLoadFailed, LoadFails, Load
    <2> QED
      BY <1>4, <2>1, <2>2, <2>3
  <1>7. d = c /\ Given(c) = Verdict(P, Step(c), ctx[c])
    BY <1>1, <1>6, JudgeTyped
  <1>8. UNCHANGED <<storeVars, ctx, plan, age>>
    BY <1>6 DEF JudgeWith
  <1>9. InForce' = InForce
    BY <1>8, StoreFrame DEF IInv, Typed, TypeOK
  <1> QED
    BY <1>6, <1>7, <1>8, <1>9

\* Unless loads failed just now, the cache holds what has not changed for the TTL.
LEMMA CacheIsSettled ==
    ASSUME Typed, IInv, NEW c \in Containers, left[c] > 0, calm[c] = RetryTTL,
           NEW p \in Policies, age[p] = TTL
    PROVE  p \in InForce <=> p \in cache[c]
  <1>1. left[c] \in 0..TTL /\ TTL \in Nat /\ RetryTTL \in Nat
    BY GateAssumption DEF Typed, TypeOK
  <1>2. left[c] + calm[c] > RetryTTL /\ age[p] > TTL - left[c]
    BY <1>1
  <1> QED
    BY <1>2 DEF IInv, GateInvs, GateInv, Settled

\* A block that has been in force for the TTL lets no step pass, in any container
\* whose loads have not just failed.  (policy_loader, "takes effect within 60 seconds")
THEOREM StandingBlocks == Spec => StandingBlocksHold
  <1>1. ASSUME Typed, IInv, [Next]_vars, NEW c \in Containers, NEW p \in InForce,
               Judged(c), calm'[c] = RetryTTL, Unsafe(Step(c)), age[p] = TTL, Blocking(c, p)
        PROVE  Given(c).verdict = "block"
    <2>1. PICK P \in SUBSET Policies :
             /\ Given(c) = Verdict(P, Step(c), ctx[c])
             /\ \/ P = cache[c] /\ left[c] > 0 /\ calm'[c] = calm[c]
                \/ P = InForce
                \/ P = cache[c] /\ calm'[c] = 0
      BY <1>1, JudgedBy
    <2>2. p \in Policies
      BY <1>1, InForceTyped DEF Typed, TypeOK
    <2>3. p \in P
      <3>1. CASE P = cache[c] /\ left[c] > 0 /\ calm'[c] = calm[c]
        BY <1>1, <2>2, <3>1, CacheIsSettled
      <3>2. calm'[c] # 0
        BY <1>1, GateAssumption
      <3> QED
        BY <1>1, <2>1, <3>1, <3>2
    <2> QED
      BY <1>1, <2>1, <2>3, BlockDecides DEF Blocking
  <1>2. Typed /\ IInv /\ [Next]_vars => [StandingBlocksStep]_vars
    BY <1>1 DEF StandingBlocksStep
  <1> QED
    BY <1>2, Inductive, PTL DEF Spec, StandingBlocksHold

\* A rule that went out of force stops blocking within the TTL, and a block names a
\* rule that says so.  (policy_loader, evaluator.rule_winner_key)
THEOREM GoneBlocks == Spec => GoneBlocksLetGo
  <1>1. ASSUME Typed, IInv, [Next]_vars, NEW c \in Containers, Judged(c), calm'[c] = RetryTTL,
               Given(c).verdict = "block"
        PROVE  \E p \in Policies : /\ p \in InForce \/ age[p] < TTL
                                   /\ Blocking(c, p) /\ p.rule.key = Given(c).key
    <2>1. PICK P \in SUBSET Policies :
             /\ Given(c) = Verdict(P, Step(c), ctx[c])
             /\ \/ P = cache[c] /\ left[c] > 0 /\ calm'[c] = calm[c]
                \/ P = InForce
                \/ P = cache[c] /\ calm'[c] = 0
      BY <1>1, JudgedBy
    <2>2. PICK p \in P : Blocking(c, p) /\ p.rule.key = Given(c).key
      BY <1>1, <2>1, BlockIsNamed DEF Blocking
    <2>3. p \in InForce \/ age[p] < TTL
      <3>1. CASE P = cache[c] /\ left[c] > 0 /\ calm'[c] = calm[c]
        <4>1. age[p] \in 0..TTL /\ TTL \in Nat
          BY GateAssumption, <1>1 DEF Typed, TypeOK
        <4> QED
          BY <1>1, <3>1, <4>1, CacheIsSettled
      <3>2. calm'[c] # 0
        BY <1>1, GateAssumption
      <3> QED
        BY <2>1, <3>1, <3>2
    <2> QED
      BY <2>2, <2>3
  <1>2. Typed /\ IInv /\ [Next]_vars => [GoneBlocksStep]_vars
    BY <1>1 DEF GoneBlocksStep
  <1> QED
    BY <1>2, Inductive, PTL DEF Spec, GoneBlocksLetGo

\* What a container has loaded holds there as long as it is in force, whatever
\* loads fail.  (policy_loader._reload)
THEOREM LoadedBlocks == Spec => LoadedBlocksHold
  <1>1. ASSUME Typed, IInv, [Next]_vars, NEW c \in Containers, NEW p \in Policies,
               Judged(c), p \in known[c], Unsafe(Step(c)), Blocking(c, p)
        PROVE  Given(c).verdict = "block"
    <2>1. PICK P \in SUBSET Policies :
             Given(c) = Verdict(P, Step(c), ctx[c]) /\ (P = cache[c] \/ P = InForce)
      BY <1>1, JudgedBy
    <2>2. p \in P
      BY <1>1, <2>1 DEF IInv, GateInvs, GateInv
    <2> QED
      BY <1>1, <2>1, <2>2, BlockDecides DEF Blocking
  <1>2. Typed /\ IInv /\ [Next]_vars => [LoadedBlocksStep]_vars
    BY <1>1 DEF LoadedBlocksStep
  <1> QED
    BY <1>2, Inductive, PTL DEF Spec, LoadedBlocksHold

-----------------------------------------------------------------------------
(* What calls leave of a rule *)

\* The steps of a call after its first.
InCall(w) == \/ LatestForAuthor(w) \/ LatestForDelete(w)
             \/ Supersede(w) \/ Put(w) \/ Deactivate(w) \/ Killed(w)

\* They are about the rule of the call and no other.
LEMMA OneRule ==
    ASSUME StoreTypeOK, NEW w \in Writers, InCall(w)
    PROVE  /\ wpc[w] # "idle" /\ job'[w].id = job[w].id /\ UNCHANGED alone
           /\ \A id \in RuleIds \ {Id(w)} :
                 /\ items'[id] = items[id] /\ clean'[id] = clean[id]
                 /\ deleted'[id] = deleted[id]
  <1>1. wpc[w] # "idle" /\ UNCHANGED alone
    BY DEF InCall, LatestForAuthor, LatestForDelete, Supersede, Put, Deactivate, Killed
  <1>2. job'[w].id = job[w].id
    BY DEF StoreTypeOK, InCall, LatestForAuthor, LatestForDelete, Supersede, Put, Deactivate,
       Killed, Answer, Return, Call, Id
  <1>3. ASSUME NEW id \in RuleIds \ {Id(w)}
        PROVE  items'[id] = items[id]
    BY <1>3 DEF StoreTypeOK, InCall, LatestForAuthor, LatestForDelete, Supersede, Put,
       Deactivate, Killed, SetStatus
  <1>4. ASSUME NEW id \in RuleIds \ {Id(w)}
        PROVE  clean'[id] = clean[id]
    BY <1>4 DEF StoreTypeOK, InCall, LatestForAuthor, LatestForDelete, Supersede, Put,
       Deactivate, Killed, Found, Fails
  <1>5. ASSUME NEW id \in RuleIds \ {Id(w)}
        PROVE  deleted'[id] = deleted[id]
    BY <1>5 DEF StoreTypeOK, InCall, LatestForAuthor, LatestForDelete, Supersede, Put,
       Deactivate, Killed, Answer
  <1> QED
    BY <1>1, <1>2, <1>3, <1>4, <1>5

LEMMA TopIs ==
    ASSUME NEW V \in SUBSET Nat, NEW n \in V, \A u \in V : u <= n
    PROVE  (IF V = {} THEN 0 ELSE CHOOSE v \in V : \A u \in V : u <= v) = n
  <1>1. \A v \in V : (\A u \in V : u <= v) => v = n
    OBVIOUS
  <1> QED
    BY <1>1

LEMMA StatusTakesOut ==
    ASSUME StoreTypeOK, NEW w \in Writers, NEW status \in Statuses \ {"active"},
           SetStatus(w, status), job[w].found \in Versions(Id(w)), NEW id \in RuleIds
    PROVE  /\ ActiveVersions(id)' = IF id = Id(w) THEN ActiveVersions(id) \ {job[w].found}
                                    ELSE ActiveVersions(id)
           /\ Newest(id)' = Newest(id)
  <1>1. Versions(id)' = Versions(id)
    BY StatusIsTyped
  <1>2. Id(w) \in RuleIds /\ items[id] \in [Versions(id) -> Item]
    BY ItemsTyped DEF StoreTypeOK, Id
  <1>3. \A v \in Versions(id) :
           items'[id][v].status = IF id = Id(w) /\ v = job[w].found THEN status
                                  ELSE items[id][v].status
    BY <1>2 DEF SetStatus, StoreTypeOK, Item
  <1>4. Newest(id)' = Newest(id)
    BY <1>1 DEF Newest
  <1>5. ActiveVersions(id)' = { v \in Versions(id) : items'[id][v].status = "active" }
    BY <1>1 DEF ActiveVersions
  <1> QED
    BY <1>3, <1>4, <1>5 DEF ActiveVersions

LEMMA PutBringsIn ==
    ASSUME StoreTypeOK, NEW w \in Writers, job[w].rule \in Rules, job[w].found < MaxVersion,
           items' = [items EXCEPT ![Id(w)] = Written(w)], job[w].found = Newest(Id(w)),
           NEW id \in RuleIds
    PROVE  IF id = Id(w)
           THEN ActiveVersions(id)' \subseteq ActiveVersions(id) \cup {Newest(id)'}
           ELSE ActiveVersions(id)' = ActiveVersions(id) /\ Newest(id)' = Newest(id)
  <1>1. /\ Versions(id) \subseteq 1..MaxVersion /\ MaxVersion \in Nat
        /\ Versions(id)' = IF id = Id(w) THEN Versions(id) \cup {job[w].found + 1}
                           ELSE Versions(id)
    BY ItemsTyped, WrittenIsTyped, StoreAssumption
  <1>2. CASE id # Id(w)
    <2>1. items'[id] = items[id] /\ Versions(id)' = Versions(id)
      BY <1>1, <1>2 DEF StoreTypeOK
    <2> QED
      BY <1>2, <2>1 DEF ActiveVersions, Newest
  <1>3. CASE id = Id(w)
    <2> DEFINE n == job[w].found + 1
    <2>1. items'[id] = Written(w)
      BY <1>3 DEF StoreTypeOK
    <2>2. \A u \in Versions(id) : u <= job[w].found
      <3>1. CASE Versions(id) = {}
        BY <3>1
      <3>2. CASE Versions(id) # {}
        BY <1>3, <3>2, NewestExists
      <3> QED
        BY <3>1, <3>2
    <2>3. job[w].found \in Nat
      BY DEF StoreTypeOK
    <2>4. Newest(id)' = n
      <3>1. Versions(id)' \in SUBSET Nat /\ n \in Versions(id)' /\ \A u \in Versions(id)' : u <= n
        BY <1>1, <1>3, <2>2, <2>3
      <3> QED
        BY <3>1, TopIs DEF Newest
    <2>5. \A v \in Versions(id) \ {n} : items'[id][v] = items[id][v]
      BY <1>3, <2>1 DEF Written
    <2> QED
      BY <1>1, <1>3, <2>4, <2>5 DEF ActiveVersions
  <1> QED
    BY <1>2, <1>3

LEMMA NextFollows ==
    ASSUME StoreTypeOK, \A u \in Writers : WriterInv(u), NEW w \in Writers, StoreStep(w)
    PROVE  NextFollowsStep
  <1> USE StoreAssumption
  <1> SUFFICES ASSUME NEW id \in RuleIds, NEW v \in Orphans(id)' \ Orphans(id)
               PROVE  \E u \in Writers : GivesUp(u) /\ Id(u) = id /\ job[u].found = v
    BY DEF NextFollowsStep
  <1>1. /\ v \in Versions(id)' /\ items'[id][v].status = "superseded"
        /\ v + 1 \notin Versions(id)'
        /\ \A u \in Writers : wpc'[u] = "put" /\ job'[u].id = id => job'[u].found # v
    BY DEF Orphans, Id
  <1>2. Versions(id) \subseteq Versions(id)'
    BY VersionsStep
  <1>3. Id(w) \in RuleIds
    BY DEF StoreTypeOK, Id
  <1>4. CASE v \in Versions(id) /\ items[id][v].status = "superseded"
    <2>1. PICK u \in Writers : wpc[u] = "put" /\ Id(u) = id /\ job[u].found = v
      BY <1>1, <1>2, <1>4 DEF Orphans
    <2>2. u = w
      BY <1>1, <2>1, OthersStay DEF Id
    <2>3. Put(w) \/ Killed(w)
      BY <2>1, <2>2 DEF StoreStep, Author, Delete, StartCall, LatestForAuthor, LatestForDelete,
         Supersede, Deactivate
    <2>4. wpc'[w] = "idle"
      BY <2>3 DEF Put, Killed, Answer, Return, Goto, StoreTypeOK
    <2>5. ASSUME items' = [items EXCEPT ![Id(w)] = Written(w)]
          PROVE  FALSE
      BY <1>1, <1>3, <2>1, <2>2, <2>5 DEF StoreTypeOK, Versions, Written
    <2>6. UNCHANGED items
      BY <2>3, <2>5 DEF Put, Killed
    <2> QED
      BY <2>1, <2>2, <2>4, <2>6 DEF GivesUp
  <1>5. CASE ~(v \in Versions(id) /\ items[id][v].status = "superseded")
    <2>1. items' # items
      BY <1>1, <1>5 DEF Versions
    <2>2. \/ Supersede(w) /\ SetStatus(w, "superseded")
          \/ Put(w) /\ items' = [items EXCEPT ![Id(w)] = Written(w)]
          \/ Deactivate(w) /\ SetStatus(w, "inactive")
      BY <2>1 DEF StoreStep, Author, Delete, StartCall, LatestForAuthor, LatestForDelete,
         Supersede, Put, Deactivate, Killed
    <2>3. CASE Supersede(w) /\ SetStatus(w, "superseded")
      <3>1. wpc'[w] = "put" /\ job' = job /\ job[w].found \in Versions(Id(w))
        BY <2>3 DEF Supersede, Goto, StoreTypeOK, WriterInv
      <3>2. ~(id = Id(w) /\ job[w].found = v)
        BY <1>1, <3>1 DEF Id
      <3>3. /\ Versions(id)' = Versions(id)
            /\ items'[id][v] = items[id][v]
        BY <1>3, <2>3, <3>1, <3>2, ItemsTyped DEF SetStatus, StoreTypeOK, Versions, Item
      <3> QED
        BY <1>1, <1>5, <3>3
    <2>4. CASE Put(w) /\ items' = [items EXCEPT ![Id(w)] = Written(w)]
      <3>1. id = Id(w) => items'[id] = Written(w)
        BY <2>4 DEF StoreTypeOK
      <3>2. id # Id(w) => items'[id] = items[id]
        BY <2>4 DEF StoreTypeOK
      <3> QED
        BY <1>1, <1>5, <3>1, <3>2 DEF Written, Versions
    <2>5. CASE Deactivate(w) /\ SetStatus(w, "inactive")
      <3>1. job[w].found \in Versions(Id(w))
        BY <2>5 DEF Deactivate, WriterInv
      <3>2. /\ Versions(id)' = Versions(id)
            /\ ~(id = Id(w) /\ job[w].found = v) => items'[id][v] = items[id][v]
            /\ id = Id(w) /\ job[w].found = v => items'[id][v].status = "inactive"
        BY <1>3, <2>5, <3>1, ItemsTyped DEF SetStatus, StoreTypeOK, Versions, Item
      <3> QED
        BY <1>1, <1>5, <3>2
    <2> QED
      BY <2>2, <2>3, <2>4, <2>5
  <1> QED
    BY <1>4, <1>5

\* However many authors and deletes of a rule overlap, and whatever else fails, a
\* superseded version loses its next one only to the author that gives up its put.
\* (policy_store.save_policy)
THEOREM NextVersions == Spec => SupersededByNext
  <1>1. Typed /\ IInv /\ [Next]_vars => [NextFollowsStep]_storeVars
    <2> SUFFICES ASSUME Typed, IInv, [Next]_vars
                 PROVE  [NextFollowsStep]_storeVars
      OBVIOUS
    <2>1. StoreTypeOK /\ \A u \in Writers : WriterInv(u)
      BY DEF Typed, TypeOK, IInv, StoreInv
    <2>2. UNCHANGED storeVars \/ \E w \in Writers : StoreStep(w)
      BY DEF Next, vars, Write, Start, Progress, ReadContext, JudgeFromCache, JudgeLoaded,
         JudgeLoadFailed, LoadFails, Load, JudgeWith, Execute, Recycle, Tick
    <2> QED
      BY <2>1, <2>2, NextFollows
  <1> QED
    BY <1>1, Inductive, PTL DEF Spec, SupersededByNext

\* Of a rule whose calls never overlapped and never failed: the call in progress knows
\* the newest version, and has taken the version in force out of force before it puts
\* the next.
SoleInv(id) ==
    alone[id] =>
        /\ \A u, x \in Writers : Busy(u, id) /\ Busy(x, id) => u = x
        /\ clean[id] =>
             /\ ActiveVersions(id) \subseteq {Newest(id)}
             /\ deleted[id] => ActiveVersions(id) = {}
             /\ \A u \in Writers : Busy(u, id) =>
                   /\ ~deleted[id]
                   /\ wpc[u] \in {"supersede", "put", "deactivate"} => job[u].found = Newest(id)
                   /\ wpc[u] = "put" => ActiveVersions(id) = {}

LEMMA SameTable ==
    ASSUME NEW id \in RuleIds, items'[id] = items[id]
    PROVE  /\ ActiveVersions(id)' = ActiveVersions(id) /\ Newest(id)' = Newest(id)
           /\ Versions(id)' = Versions(id)
  BY DEF ActiveVersions, Newest, Versions

\* What the call of w does to the rule it is about, as long as nothing failed.
LEMMA SoleCall ==
    ASSUME StoreTypeOK, NEW w \in Writers, WriterInv(w), InCall(w), NEW id \in RuleIds,
           id = Id(w), clean'[id], clean[id], ~deleted[id],
           ActiveVersions(id) \subseteq {Newest(id)},
           wpc[w] \in {"supersede", "put", "deactivate"} => job[w].found = Newest(id),
           wpc[w] = "put" => ActiveVersions(id) = {}
    PROVE  /\ ActiveVersions(id)' \subseteq {Newest(id)'}
           /\ deleted'[id] => ActiveVersions(id)' = {}
           /\ wpc'[w] # "idle" =>
                 /\ ~deleted'[id]
                 /\ wpc'[w] \in {"supersede", "put", "deactivate"} => job'[w].found = Newest(id)'
                 /\ wpc'[w] = "put" => ActiveVersions(id)' = {}
  <1> USE StoreAssumption
  <1>1. ASSUME NEW kind \in {"created", "failed", "deleted", "missing"}, Answer(w, kind)
        PROVE  wpc'[w] = "idle" /\ deleted'[id] = (kind = "deleted")
    BY <1>1 DEF Answer, Return, Goto, StoreTypeOK
  <1>2. CASE LatestForAuthor(w)
    <2>1. PICK n \in 0..(MaxVersion - 1) :
             /\ Found(w, n)
             /\ job' = [job EXCEPT ![w].found = n]
             /\ Goto(w, IF n # 0 /\ items[Id(w)][n].status = "active" THEN "supersede" ELSE "put")
      BY <1>2 DEF LatestForAuthor
    <2>2. /\ job'[w].found = n /\ UNCHANGED <<items, deleted>>
          /\ wpc'[w] = IF n # 0 /\ items[id][n].status = "active" THEN "supersede" ELSE "put"
      BY <1>2, <2>1 DEF LatestForAuthor, Goto, StoreTypeOK
    <2>3. n = Newest(id)
      BY <2>1 DEF Found, Fails, StoreTypeOK
    <2>4. wpc'[w] = "put" => ActiveVersions(id) = {}
      <3>1. n \in ActiveVersions(id) => n # 0 /\ items[id][n].status = "active"
        BY ItemsTyped DEF ActiveVersions
      <3> QED
        BY <2>2, <2>3, <3>1
    <2> QED
      BY <2>2, <2>3, <2>4, SameTable
  <1>3. CASE LatestForDelete(w)
    <2>1. PICK n \in 0..MaxVersion :
             /\ Found(w, n)
             /\ IF n = 0 \/ items[Id(w)][n].status = "inactive"
                THEN Answer(w, "missing")
                ELSE /\ Goto(w, "deactivate")
                     /\ job' = [job EXCEPT ![w].found = n]
                     /\ UNCHANGED deleted
      BY <1>3 DEF LatestForDelete
    <2>2. UNCHANGED items /\ n = Newest(id)
      BY <1>3, <2>1 DEF LatestForDelete, Found, Fails, StoreTypeOK
    <2>3. CASE Answer(w, "missing")
      BY <1>1, <2>2, <2>3, SameTable
    <2>4. CASE Goto(w, "deactivate") /\ job' = [job EXCEPT ![w].found = n] /\ UNCHANGED deleted
      <3>1. wpc'[w] = "deactivate" /\ job'[w].found = n
        BY <2>4 DEF Goto, StoreTypeOK
      <3> QED
        BY <2>2, <2>4, <3>1, SameTable
    <2> QED
      BY <2>1, <2>3, <2>4
  <1>4. ASSUME NEW status \in Statuses \ {"active"}, SetStatus(w, status),
               wpc[w] \in {"supersede", "deactivate"}
        PROVE  ActiveVersions(id)' = {} /\ Newest(id)' = Newest(id)
    <2>1. job[w].found \in Versions(Id(w)) /\ job[w].found = Newest(id)
      BY <1>4 DEF WriterInv
    <2> QED
      BY <1>4, <2>1, StatusTakesOut
  <1>5. CASE Supersede(w)
    <2>1. wpc[w] = "supersede" /\ wpc'[w] = "put" /\ UNCHANGED <<job, deleted>>
      BY <1>5 DEF Supersede, Goto, StoreTypeOK
    <2>2. SetStatus(w, "superseded")
      BY <1>5 DEF Supersede, Fails, StoreTypeOK
    <2> QED
      BY <1>4, <2>1, <2>2 DEF Statuses
  <1>6. CASE Put(w)
    <2>1. wpc'[w] = "idle" /\ ~deleted'[id]
      BY <1>1, <1>6 DEF Put
    <2>2. items' = [items EXCEPT ![Id(w)] = Written(w)]
      BY <1>6 DEF Put, Fails, StoreTypeOK
    <2>3. job[w].rule \in Rules /\ job[w].found < MaxVersion
      BY <1>6 DEF Put, WriterInv
    <2>4. ActiveVersions(id)' \subseteq ActiveVersions(id) \cup {Newest(id)'}
      BY <1>6, <2>2, <2>3, PutBringsIn DEF Put
    <2> QED
      BY <1>6, <2>1, <2>4 DEF Put
  <1>7. CASE Deactivate(w)
    <2>1. wpc[w] = "deactivate" /\ wpc'[w] = "idle"
      BY <1>1, <1>7 DEF Deactivate
    <2>2. SetStatus(w, "inactive")
      BY <1>7 DEF Deactivate, Fails, StoreTypeOK
    <2> QED
      BY <1>4, <2>1, <2>2 DEF Statuses
  <1>8. CASE Killed(w)
    <2>1. wpc'[w] = "idle" /\ UNCHANGED <<items, deleted>>
      BY <1>8 DEF Killed, Return, Goto, StoreTypeOK
    <2> QED
      BY <2>1, SameTable
  <1> QED
    BY <1>2, <1>3, <1>5, <1>6, <1>7, <1>8 DEF InCall

LEMMA SoleStep ==
    ASSUME StoreTypeOK, NEW w \in Writers, WriterInv(w), NEW id \in RuleIds, SoleInv(id),
           StoreStep(w)
    PROVE  SoleInv(id)'
  <1>1. \A u \in Writers \ {w} : Busy(u, id)' = Busy(u, id) /\ wpc'[u] = wpc[u] /\ job'[u] = job[u]
    BY OthersStay DEF Busy, Id
  <1>2. ASSUME NEW i \in RuleIds, NEW rule, NEW kind, StartCall(w, kind, i, rule)
        PROVE  SoleInv(id)'
    <2>1. /\ wpc[w] = "idle" /\ wpc'[w] = "latest" /\ job'[w].id = i /\ UNCHANGED <<items, clean>>
          /\ alone'[i] = (alone[i] /\ \A u \in Writers : ~Busy(u, i)) /\ ~deleted'[i]
          /\ id # i => alone'[id] = alone[id] /\ deleted'[id] = deleted[id]
      BY <1>2 DEF StartCall, Goto, Call, StoreTypeOK
    <2>2. ~Busy(w, id) /\ Busy(w, id)' = (id = i)
      BY <2>1 DEF Busy, Id
    <2>3. ActiveVersions(id)' = ActiveVersions(id) /\ Newest(id)' = Newest(id)
      BY <2>1, SameTable
    <2>4. CASE id = i
      <3>1. alone'[id] => alone[id] /\ \A u \in Writers : Busy(u, id)' => u = w
        BY <1>1, <2>1, <2>4
      <3> QED
        BY <2>1, <2>3, <2>4, <3>1 DEF SoleInv
    <2>5. CASE id # i
      BY <1>1, <2>1, <2>2, <2>3, <2>5 DEF SoleInv
    <2> QED
      BY <2>4, <2>5
  <1>3. CASE InCall(w)
    <2>1. /\ wpc[w] # "idle" /\ job'[w].id = job[w].id /\ UNCHANGED alone
          /\ id # Id(w) => /\ items'[id] = items[id] /\ clean'[id] = clean[id]
                           /\ deleted'[id] = deleted[id]
      BY <1>3, OneRule
    <2>2. CASE id # Id(w)
      <3>1. ~Busy(w, id) /\ ~Busy(w, id)'
        BY <2>1, <2>2 DEF Busy, Id
      <3>2. ActiveVersions(id)' = ActiveVersions(id) /\ Newest(id)' = Newest(id)
        BY <2>1, <2>2, SameTable
      <3> QED
        BY <1>1, <2>1, <2>2, <3>1, <3>2 DEF SoleInv
    <2>3. CASE id = Id(w)
      <3> SUFFICES ASSUME alone[id]
                   PROVE  SoleInv(id)'
        BY <2>1 DEF SoleInv
      <3>1. Busy(w, id)
        BY <2>1, <2>3 DEF Busy
      <3>2. \A u \in Writers : Busy(u, id)' => u = w
        BY <1>1, <3>1 DEF SoleInv
      <3>3. CASE ~clean'[id]
        BY <3>2, <3>3 DEF SoleInv
      <3>4. CASE clean'[id]
        <4>1. clean[id]
          BY <1>3, <2>3, <3>4 DEF StoreTypeOK, InCall, LatestForAuthor, LatestForDelete,
             Supersede, Put, Deactivate, Killed, Found, Fails
        <4>2. /\ ActiveVersions(id)' \subseteq {Newest(id)'}
              /\ deleted'[id] => ActiveVersions(id)' = {}
              /\ wpc'[w] # "idle" =>
                    /\ ~deleted'[id]
                    /\ wpc'[w] \in {"supersede", "put", "deactivate"} => job'[w].found = Newest(id)'
                    /\ wpc'[w] = "put" => ActiveVersions(id)' = {}
          BY <1>3, <2>3, <3>1, <3>4, <4>1, SoleCall DEF SoleInv
        <4>3. Busy(w, id)' => wpc'[w] # "idle"
          BY DEF Busy
        <4> QED
          BY <3>2, <4>2, <4>3 DEF SoleInv
      <3> QED
        BY <3>3, <3>4
    <2> QED
      BY <2>2, <2>3
  <1> QED
    BY <1>2, <1>3 DEF StoreStep, Author, Delete, InCall

LEMMA SoleHolds == Spec => [](\A id \in RuleIds : SoleInv(id))
  <1> DEFINE Sole == \A id \in RuleIds : SoleInv(id)
  <1>1. Init => Sole
    <2>1. ASSUME Init
          PROVE  \A id \in RuleIds : Versions(id) = {}
      BY <2>1 DEF Init, StoreInit, Versions
    <2> QED
      BY <2>1 DEF Init, StoreInit, SoleInv, ActiveVersions, Busy
  <1>2. Typed /\ IInv /\ Sole /\ [Next]_vars => Sole'
    <2> SUFFICES ASSUME Typed, IInv, Sole, [Next]_vars, NEW id \in RuleIds
                 PROVE  SoleInv(id)'
      OBVIOUS
    <2>1. StoreTypeOK /\ (\A w \in Writers : WriterInv(w)) /\ SoleInv(id)
      BY DEF Typed, TypeOK, IInv, StoreInv
    <2>2. ASSUME NEW w \in Writers, StoreStep(w)
          PROVE  SoleInv(id)'
      BY <2>1, <2>2, SoleStep
    <2>3. CASE UNCHANGED storeVars
      <3>1. /\ UNCHANGED <<alone, clean, deleted, wpc, job>>
            /\ ActiveVersions(id)' = ActiveVersions(id) /\ Newest(id)' = Newest(id)
            /\ \A u \in Writers : Busy(u, id)' = Busy(u, id)
        BY <2>3, SameTable DEF storeVars, Busy, Id
      <3> QED
        BY <2>1, <3>1 DEF SoleInv
    <2>4. UNCHANGED storeVars \/ \E w \in Writers : StoreStep(w)
      BY DEF Next, vars, Write, Start, Progress, ReadContext, JudgeFromCache, JudgeLoaded,
         JudgeLoadFailed, LoadFails, Load, JudgeWith, Execute, Recycle, Tick
    <2> QED
      BY <2>2, <2>3, <2>4
  <1> QED
    BY <1>1, <1>2, Inductive, PTL DEF Spec

\* Whichever instances they go to: as long as the calls on a rule do not overlap and no
\* operation of one fails, no version of it but the newest is in force, wherever a call
\* is killed.  (policy_store.save_policy)
THEOREM NewestOnly == Spec => []OnlyNewestInForce
  <1>1. (\A id \in RuleIds : SoleInv(id)) => OnlyNewestInForce
    BY DEF SoleInv, OnlyNewestInForce
  <1> QED
    BY <1>1, SoleHolds, PTL

\* And a rule whose delete was answered is out of force until the next call on it.
\* (policy_store.deactivate_policy)
THEOREM DeletedStaysOff == Spec => []DeletedIsOff
  <1>1. (\A id \in RuleIds : SoleInv(id)) => DeletedIsOff
    BY DEF SoleInv, DeletedIsOff
  <1> QED
    BY <1>1, SoleHolds, PTL
=============================================================================
