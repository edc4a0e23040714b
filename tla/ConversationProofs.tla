------------------------- MODULE ConversationProofs -------------------------
(***************************************************************************)
(* Conversation for all messages, invocations and round limits: Gemini     *)
(* accepts a request on every session, Bedrock on one that a run answered, *)
(* and a run that saves over the session it loaded keeps what was said.    *)
(*                                                                         *)
(* A history is normalised by folds, which are recursive functions over    *)
(* the sets of places that are done: that there is such a function, and    *)
(* what one turn more adds to it, is shown by induction over finite sets   *)
(* and lengths.                                                            *)
(***************************************************************************)
EXTENDS Conversation, FiniteSetTheorems, WellFoundedInduction, SequenceTheorems, TLAPS

-----------------------------------------------------------------------------
(* Numbers, finite sets and sequences *)

LEMMA NatLess == IsWellFoundedOn({r \in Nat \X Nat : r[1] < r[2]}, Nat)
BY NatLessThanWellFounded DEF OpToRel

\* A set of numbers that is not empty has a least one.
LEMMA LeastNumber ==
    ASSUME NEW T \in SUBSET Nat, T # {}
    PROVE  \E n \in T : \A k \in T : n <= k
<1> DEFINE R == {r \in Nat \X Nat : r[1] < r[2]}
<1>1. IsWellFoundedOn(R, Nat)  BY NatLess
<1>2. PICK n \in T : \A k \in T : <<k, n>> \notin R
  <2> HIDE DEF R
  <2> QED  BY <1>1, WFMin
<1>3. \A k \in T : ~(k < n)  BY <1>2
<1> QED  BY <1>3

\* A set of numbers with 0 and each successor holds them all.
LEMMA SetInduction ==
    ASSUME NEW S \in SUBSET Nat, 0 \in S, \A n \in S : n + 1 \in S
    PROVE  S = Nat
<1> DEFINE T == Nat \ S
<1> SUFFICES ASSUME T # {} PROVE FALSE
    OBVIOUS
<1>1. PICK n \in T : \A k \in T : n <= k
  <2> HIDE DEF T
  <2>1. T \in SUBSET Nat  BY DEF T
  <2> QED  BY <2>1, LeastNumber
<1>2. n \in Nat /\ n # 0  OBVIOUS
<1>3. n - 1 \in Nat /\ n - 1 + 1 = n  BY <1>2
<1>4. n - 1 \notin T  BY <1>1, <1>2, <1>3
<1> QED  BY <1>3, <1>4

\* A set of sequences with the empty one, and each with one element more, holds them all.
LEMMA SeqInduction ==
    ASSUME NEW A, NEW G \in SUBSET Seq(A), <<>> \in G,
           \A s \in G, x \in A : Append(s, x) \in G
    PROVE  G = Seq(A)
<1> DEFINE L == { n \in Nat : \A s \in Seq(A) : Len(s) = n => s \in G }
<1>1. 0 \in L  BY EmptySeq
<1>2. ASSUME NEW n \in L PROVE n + 1 \in L
  <2> SUFFICES ASSUME NEW s \in Seq(A), Len(s) = n + 1 PROVE s \in G
      OBVIOUS
  <2>1. s # <<>>  OBVIOUS
  <2>2. PICK t \in Seq(A), x \in A : s = Append(t, x)  BY <2>1, SequenceEmptyOrAppend
  <2>3. Len(t) = n  BY <2>2
  <2>4. t \in G  BY <2>3
  <2> QED  BY <2>2, <2>4
<1>3. L = Nat
  <2> HIDE DEF L
  <2>1. L \in SUBSET Nat  BY DEF L
  <2> QED  BY <1>1, <1>2, <2>1, SetInduction
<1>4. \A s \in Seq(A) : Len(s) \in L  BY <1>3
<1> QED  BY <1>4

\* The subsets of D smaller than n + 1.
UpTo(D, n) == { d \in SUBSET D : Cardinality(d) <= n }

LEMMA Smaller ==
    ASSUME NEW D, IsFiniteSet(D), NEW n \in Nat, NEW d \in UpTo(D, n + 1), NEW x \in d
    PROVE  d \ {x} \in UpTo(D, n)
<1>1. IsFiniteSet(d) /\ Cardinality(d) \in Nat  BY FS_Subset, FS_CardinalityType DEF UpTo
<1>2. Cardinality(d \ {x}) = Cardinality(d) - 1  BY <1>1, FS_RemoveElement
<1> QED  BY <1>1, <1>2 DEF UpTo

LEMMA AllUpTo ==
    ASSUME NEW D, IsFiniteSet(D)
    PROVE  /\ UpTo(D, 0) = {{}}
           /\ Cardinality(D) \in Nat /\ UpTo(D, Cardinality(D)) = SUBSET D
<1>1. \A d \in SUBSET D : IsFiniteSet(d) /\ Cardinality(d) \in Nat /\ Cardinality(d) <= Cardinality(D)
  BY FS_Subset, FS_CardinalityType
<1>2. \A d \in SUBSET D : Cardinality(d) = 0 <=> d = {}  BY <1>1, FS_EmptySet
<1>3. Cardinality(D) \in Nat  BY FS_CardinalityType
<1>4. UpTo(D, 0) = {{}}  BY <1>1, <1>2 DEF UpTo
<1> QED  BY <1>1, <1>3, <1>4 DEF UpTo

LEMMA MaxOfPlaces ==
    ASSUME NEW n \in Nat, NEW d \in SUBSET (1..n), d # {}
    PROVE  Max(d) \in d /\ \A k \in d : k <= Max(d)
<1> DEFINE T == { n - k : k \in d }
<1>1. T \in SUBSET Nat /\ T # {}
  <2>1. \A k \in d : n - k \in Nat  OBVIOUS
  <2> QED  BY <2>1
<1>2. PICK m \in T : \A k \in T : m <= k
  <2> HIDE DEF T
  <2> QED  BY <1>1, LeastNumber
<1>3. PICK x \in d : m = n - x  BY <1>2
<1>4. \A k \in d : x >= k
  <2> SUFFICES ASSUME NEW k \in d PROVE x >= k
    OBVIOUS
  <2>1. n - x <= n - k  BY <1>2, <1>3
  <2> QED  BY <2>1
<1>5. Max(d) \in d /\ \A k \in d : Max(d) >= k  BY <1>4 DEF Max
<1> QED  BY <1>5

LEMMA Prefix ==
    ASSUME NEW n \in Nat, NEW k \in Nat, k + 1 <= n
    PROVE  /\ 1..(k + 1) \in SUBSET (1..n) /\ 1..(k + 1) # {}
           /\ Max(1..(k + 1)) = k + 1 /\ (1..(k + 1)) \ {k + 1} = 1..k
<1>1. 1..(k + 1) \in SUBSET (1..n) /\ 1..(k + 1) # {} /\ k + 1 \in 1..(k + 1)  OBVIOUS
<1>2. (1..(k + 1)) \ {k + 1} = 1..k  OBVIOUS
<1>3. Max(1..(k + 1)) \in 1..(k + 1) /\ \A j \in 1..(k + 1) : j <= Max(1..(k + 1))
  BY <1>1, MaxOfPlaces
<1>4. Max(1..(k + 1)) = k + 1  BY <1>1, <1>3
<1> QED  BY <1>1, <1>2, <1>4

-----------------------------------------------------------------------------
(* The folds, as functions of the places that are done.  Each step takes the value for  *)
(* what is left without the last of them.                                               *)

KeepStep(h, s, S, d) ==
    IF d = {} THEN <<>>
    ELSE IF s[Max(d)] \in S THEN Append(h[d \ {Max(d)}], s[Max(d)]) ELSE h[d \ {Max(d)}]

IsKeep(h, s, S) == h = [d \in SUBSET DOMAIN s |-> KeepStep(h, s, S, d)]

JoinStep(h, s, p, d) ==
    IF d = {} THEN <<>> ELSE JoinTurn(p, h[d \ {Max(d)}], s[Max(d)])

IsJoin(h, s, p) == h = [d \in SUBSET DOMAIN s |-> JoinStep(h, s, p, d)]

\* What counts of a text: everything but the notes beside tool calls.
Spoken == Items \ {Note}

SpeakStep(h, s, d) ==
    IF d = {} THEN <<>> ELSE h[d \ {Max(d)}] \o Keep(s[Max(d)].text, Spoken)

IsSpeak(h, s) == h = [d \in SUBSET DOMAIN s |-> SpeakStep(h, s, d)]

LEMMA KeepExists ==
    ASSUME NEW n \in Nat, NEW s, DOMAIN s = 1..n, NEW S
    PROVE  \E h : IsKeep(h, s, S)
<1> DEFINE D == 1..n
           G == { k \in Nat : \E h : h = [d \in UpTo(D, k) |-> KeepStep(h, s, S, d)] }
<1>0. IsFiniteSet(D)  BY FS_Interval
<1>1. 0 \in G
  <2> DEFINE h == [d \in UpTo(D, 0) |-> <<>>]
  <2>1. \A d \in UpTo(D, 0) : KeepStep(h, s, S, d) = <<>>
    BY <1>0, AllUpTo DEF KeepStep
  <2> QED  BY <2>1
<1>2. ASSUME NEW k \in G PROVE k + 1 \in G
  <2>1. PICK h : h = [d \in UpTo(D, k) |-> KeepStep(h, s, S, d)]  OBVIOUS
  <2> DEFINE g == [d \in UpTo(D, k + 1) |-> KeepStep(h, s, S, d)]
  <2> HIDE DEF D
  <2>2. ASSUME NEW d \in UpTo(D, k + 1) PROVE KeepStep(h, s, S, d) = KeepStep(g, s, S, d)
    <3>1. CASE d = {}  BY <3>1 DEF KeepStep
    <3>2. CASE d # {}
      <4>1. Max(d) \in d  BY <3>2, MaxOfPlaces DEF D, UpTo
      <4> DEFINE e == d \ {Max(d)}
      <4>2. e \in UpTo(D, k)  BY <1>0, <4>1, Smaller
      <4>3. e \in UpTo(D, k + 1)  BY <4>2, <1>0, FS_Subset, FS_CardinalityType DEF UpTo
      <4>4. g[e] = KeepStep(h, s, S, e)  BY <4>3
      <4>5. h[e] = KeepStep(h, s, S, e)  BY <2>1, <4>2
      <4> QED  BY <3>2, <4>4, <4>5 DEF KeepStep
    <3> QED  BY <3>1, <3>2
  <2>3. g = [d \in UpTo(D, k + 1) |-> KeepStep(g, s, S, d)]  BY <2>2
  <2> HIDE DEF g
  <2> QED  BY <2>3
<1>3. G = Nat
  <2> HIDE DEF G
  <2>1. G \in SUBSET Nat  BY DEF G
  <2> QED  BY <1>1, <1>2, <2>1, SetInduction
<1>4. Cardinality(D) \in G /\ UpTo(D, Cardinality(D)) = SUBSET D  BY <1>0, <1>3, AllUpTo
<1> QED  BY <1>4 DEF IsKeep

LEMMA KeepRuns ==
    ASSUME NEW n \in Nat, NEW s, DOMAIN s = 1..n, NEW S
    PROVE  \E h : IsKeep(h, s, S) /\ Keep(s, S) = h[1..n]
<1>1. IsKeep(CHOOSE h : IsKeep(h, s, S), s, S)  BY KeepExists, Zenon
<1>2. Keep(s, S) = (CHOOSE h : IsKeep(h, s, S))[DOMAIN s]
  BY Zenon DEF Keep, FoldLeft, MapThenFoldSet, IsKeep, KeepStep
<1> QED  BY <1>1, <1>2

LEMMA KeepGrows ==
    ASSUME NEW A, NEW s \in Seq(A), NEW x \in A, NEW S
    PROVE  /\ Keep(<<>>, S) = <<>>
           /\ Keep(Append(s, x), S) = (IF x \in S THEN Append(Keep(s, S), x) ELSE Keep(s, S))
<1> DEFINE n == Len(s)
           t == Append(s, x)
<1>0. n \in Nat /\ DOMAIN s = 1..n /\ DOMAIN t = 1..(n + 1) /\ t[n + 1] = x
      /\ \A k \in 1..n : t[k] = s[k]
  OBVIOUS
<1> HIDE DEF n, t
<1>1. PICK h : IsKeep(h, s, S) /\ Keep(s, S) = h[1..n]  BY <1>0, KeepRuns
<1>2. PICK g : IsKeep(g, t, S) /\ Keep(t, S) = g[1..(n + 1)]  BY <1>0, KeepRuns
<1> DEFINE K == { k \in Nat : k <= n => g[1..k] = h[1..k] }
<1>3. K = Nat
  <2>1. 0 \in K  BY <1>0, <1>1, <1>2 DEF IsKeep, KeepStep
  <2>2. ASSUME NEW k \in K PROVE k + 1 \in K
    <3> SUFFICES ASSUME k + 1 <= n PROVE g[1..(k + 1)] = h[1..(k + 1)]
        OBVIOUS
    <3>1. g[1..k] = h[1..k]  BY <1>0
    <3>2. h[1..(k + 1)] = KeepStep(h, s, S, 1..(k + 1))  BY <1>0, <1>1, Prefix DEF IsKeep
    <3>3. 1..(k + 1) \in SUBSET (1..(n + 1))  BY <1>0
    <3>4. g[1..(k + 1)] = KeepStep(g, t, S, 1..(k + 1))  BY <1>0, <1>2, <3>3 DEF IsKeep
    <3>5. t[k + 1] = s[k + 1]  BY <1>0
    <3>6. Max(1..(k + 1)) = k + 1 /\ (1..(k + 1)) \ {k + 1} = 1..k /\ 1..(k + 1) # {}  BY <1>0, Prefix
    <3> QED  BY <3>1, <3>2, <3>4, <3>5, <3>6 DEF KeepStep
  <2> HIDE DEF K
  <2>3. K \in SUBSET Nat  BY DEF K
  <2> QED  BY <2>1, <2>2, <2>3, SetInduction
<1>4. g[1..n] = h[1..n]  BY <1>0, <1>3
<1>5. g[1..(n + 1)] = KeepStep(g, t, S, 1..(n + 1))  BY <1>0, <1>2 DEF IsKeep
<1>6. Max(1..(n + 1)) = n + 1 /\ (1..(n + 1)) \ {n + 1} = 1..n /\ 1..(n + 1) # {}
  <2>1. n + 1 \in Nat /\ n + 1 <= n + 1  BY <1>0
  <2> QED  BY <1>0, <2>1, Prefix
<1>7. Keep(t, S) = (IF x \in S THEN Append(Keep(s, S), x) ELSE Keep(s, S))  BY <1>0, <1>1, <1>2, <1>4, <1>5, <1>6 DEF KeepStep
<1>8. Keep(<<>>, S) = <<>>
  <2> DEFINE e == <<>>
  <2>1. DOMAIN e = 1..0 /\ 1..0 = {}  OBVIOUS
  <2> HIDE DEF e
  <2>2. PICK f : IsKeep(f, e, S) /\ Keep(e, S) = f[1..0]  BY <2>1, KeepRuns
  <2>3. Keep(e, S) = <<>>  BY <2>1, <2>2 DEF IsKeep, KeepStep
  <2> QED  BY <2>3 DEF e
<1> QED  BY <1>7, <1>8 DEF t

LEMMA JoinExists ==
    ASSUME NEW n \in Nat, NEW s, DOMAIN s = 1..n, NEW p
    PROVE  \E h : IsJoin(h, s, p)
<1> DEFINE D == 1..n
           G == { k \in Nat : \E h : h = [d \in UpTo(D, k) |-> JoinStep(h, s, p, d)] }
<1>0. IsFiniteSet(D)  BY FS_Interval
<1>1. 0 \in G
  <2> DEFINE h == [d \in UpTo(D, 0) |-> <<>>]
  <2>1. \A d \in UpTo(D, 0) : JoinStep(h, s, p, d) = <<>>
    BY <1>0, AllUpTo DEF JoinStep
  <2> QED  BY <2>1
<1>2. ASSUME NEW k \in G PROVE k + 1 \in G
  <2>1. PICK h : h = [d \in UpTo(D, k) |-> JoinStep(h, s, p, d)]  OBVIOUS
  <2> DEFINE g == [d \in UpTo(D, k + 1) |-> JoinStep(h, s, p, d)]
  <2> HIDE DEF D
  <2>2. ASSUME NEW d \in UpTo(D, k + 1) PROVE JoinStep(h, s, p, d) = JoinStep(g, s, p, d)
    <3>1. CASE d = {}  BY <3>1 DEF JoinStep
    <3>2. CASE d # {}
      <4>1. Max(d) \in d  BY <3>2, MaxOfPlaces DEF D, UpTo
      <4> DEFINE e == d \ {Max(d)}
      <4>2. e \in UpTo(D, k)  BY <1>0, <4>1, Smaller
      <4>3. e \in UpTo(D, k + 1)  BY <4>2, <1>0, FS_Subset, FS_CardinalityType DEF UpTo
      <4>4. g[e] = JoinStep(h, s, p, e)  BY <4>3
      <4>5. h[e] = JoinStep(h, s, p, e)  BY <2>1, <4>2
      <4> QED  BY <3>2, <4>4, <4>5 DEF JoinStep
    <3> QED  BY <3>1, <3>2
  <2>3. g = [d \in UpTo(D, k + 1) |-> JoinStep(g, s, p, d)]  BY <2>2
  <2> HIDE DEF g
  <2> QED  BY <2>3
<1>3. G = Nat
  <2> HIDE DEF G
  <2>1. G \in SUBSET Nat  BY DEF G
  <2> QED  BY <1>1, <1>2, <2>1, SetInduction
<1>4. Cardinality(D) \in G /\ UpTo(D, Cardinality(D)) = SUBSET D  BY <1>0, <1>3, AllUpTo
<1> QED  BY <1>4 DEF IsJoin

LEMMA JoinRuns ==
    ASSUME NEW n \in Nat, NEW s, DOMAIN s = 1..n, NEW p
    PROVE  \E h : IsJoin(h, s, p) /\ Joined(p, s) = h[1..n]
<1>1. IsJoin(CHOOSE h : IsJoin(h, s, p), s, p)  BY JoinExists, Zenon
<1>2. Joined(p, s) = (CHOOSE h : IsJoin(h, s, p))[DOMAIN s]
  BY Zenon DEF Joined, FoldLeft, MapThenFoldSet, IsJoin, JoinStep
<1> QED  BY <1>1, <1>2

LEMMA JoinGrows ==
    ASSUME NEW A, NEW s \in Seq(A), NEW x \in A, NEW p
    PROVE  /\ Joined(p, <<>>) = <<>>
           /\ Joined(p, Append(s, x)) = JoinTurn(p, Joined(p, s), x)
<1> DEFINE n == Len(s)
           t == Append(s, x)
<1>0. n \in Nat /\ DOMAIN s = 1..n /\ DOMAIN t = 1..(n + 1) /\ t[n + 1] = x
      /\ \A k \in 1..n : t[k] = s[k]
  OBVIOUS
<1> HIDE DEF n, t
<1>1. PICK h : IsJoin(h, s, p) /\ Joined(p, s) = h[1..n]  BY <1>0, JoinRuns
<1>2. PICK g : IsJoin(g, t, p) /\ Joined(p, t) = g[1..(n + 1)]  BY <1>0, JoinRuns
<1> DEFINE K == { k \in Nat : k <= n => g[1..k] = h[1..k] }
<1>3. K = Nat
  <2>1. 0 \in K  BY <1>0, <1>1, <1>2 DEF IsJoin, JoinStep
  <2>2. ASSUME NEW k \in K PROVE k + 1 \in K
    <3> SUFFICES ASSUME k + 1 <= n PROVE g[1..(k + 1)] = h[1..(k + 1)]
        OBVIOUS
    <3>1. g[1..k] = h[1..k]  BY <1>0
    <3>2. h[1..(k + 1)] = JoinStep(h, s, p, 1..(k + 1))  BY <1>0, <1>1, Prefix DEF IsJoin
    <3>3. 1..(k + 1) \in SUBSET (1..(n + 1))  BY <1>0
    <3>4. g[1..(k + 1)] = JoinStep(g, t, p, 1..(k + 1))  BY <1>0, <1>2, <3>3 DEF IsJoin
    <3>5. t[k + 1] = s[k + 1]  BY <1>0
    <3>6. Max(1..(k + 1)) = k + 1 /\ (1..(k + 1)) \ {k + 1} = 1..k /\ 1..(k + 1) # {}  BY <1>0, Prefix
    <3> QED  BY <3>1, <3>2, <3>4, <3>5, <3>6 DEF JoinStep
  <2> HIDE DEF K
  <2>3. K \in SUBSET Nat  BY DEF K
  <2> QED  BY <2>1, <2>2, <2>3, SetInduction
<1>4. g[1..n] = h[1..n]  BY <1>0, <1>3
<1>5. g[1..(n + 1)] = JoinStep(g, t, p, 1..(n + 1))  BY <1>0, <1>2 DEF IsJoin
<1>6. Max(1..(n + 1)) = n + 1 /\ (1..(n + 1)) \ {n + 1} = 1..n /\ 1..(n + 1) # {}
  <2>1. n + 1 \in Nat /\ n + 1 <= n + 1  BY <1>0
  <2> QED  BY <1>0, <2>1, Prefix
<1>7. Joined(p, t) = JoinTurn(p, Joined(p, s), x)  BY <1>0, <1>1, <1>2, <1>4, <1>5, <1>6 DEF JoinStep
<1>8. Joined(p, <<>>) = <<>>
  <2> DEFINE e == <<>>
  <2>1. DOMAIN e = 1..0 /\ 1..0 = {}  OBVIOUS
  <2> HIDE DEF e
  <2>2. PICK f : IsJoin(f, e, p) /\ Joined(p, e) = f[1..0]  BY <2>1, JoinRuns
  <2>3. Joined(p, e) = <<>>  BY <2>1, <2>2 DEF IsJoin, JoinStep
  <2> QED  BY <2>3 DEF e
<1> QED  BY <1>7, <1>8 DEF t

LEMMA SpeakExists ==
    ASSUME NEW n \in Nat, NEW s, DOMAIN s = 1..n
    PROVE  \E h : IsSpeak(h, s)
<1> DEFINE D == 1..n
           G == { k \in Nat : \E h : h = [d \in UpTo(D, k) |-> SpeakStep(h, s, d)] }
<1>0. IsFiniteSet(D)  BY FS_Interval
<1>1. 0 \in G
  <2> DEFINE h == [d \in UpTo(D, 0) |-> <<>>]
  <2>1. \A d \in UpTo(D, 0) : SpeakStep(h, s, d) = <<>>
    BY <1>0, AllUpTo DEF SpeakStep
  <2> QED  BY <2>1
<1>2. ASSUME NEW k \in G PROVE k + 1 \in G
  <2>1. PICK h : h = [d \in UpTo(D, k) |-> SpeakStep(h, s, d)]  OBVIOUS
  <2> DEFINE g == [d \in UpTo(D, k + 1) |-> SpeakStep(h, s, d)]
  <2> HIDE DEF D
  <2>2. ASSUME NEW d \in UpTo(D, k + 1) PROVE SpeakStep(h, s, d) = SpeakStep(g, s, d)
    <3>1. CASE d = {}  BY <3>1 DEF SpeakStep
    <3>2. CASE d # {}
      <4>1. Max(d) \in d  BY <3>2, MaxOfPlaces DEF D, UpTo
      <4> DEFINE e == d \ {Max(d)}
      <4>2. e \in UpTo(D, k)  BY <1>0, <4>1, Smaller
      <4>3. e \in UpTo(D, k + 1)  BY <4>2, <1>0, FS_Subset, FS_CardinalityType DEF UpTo
      <4>4. g[e] = SpeakStep(h, s, e)  BY <4>3
      <4>5. h[e] = SpeakStep(h, s, e)  BY <2>1, <4>2
      <4> QED  BY <3>2, <4>4, <4>5 DEF SpeakStep
    <3> QED  BY <3>1, <3>2
  <2>3. g = [d \in UpTo(D, k + 1) |-> SpeakStep(g, s, d)]  BY <2>2
  <2> HIDE DEF g
  <2> QED  BY <2>3
<1>3. G = Nat
  <2> HIDE DEF G
  <2>1. G \in SUBSET Nat  BY DEF G
  <2> QED  BY <1>1, <1>2, <2>1, SetInduction
<1>4. Cardinality(D) \in G /\ UpTo(D, Cardinality(D)) = SUBSET D  BY <1>0, <1>3, AllUpTo
<1> QED  BY <1>4 DEF IsSpeak

LEMMA SpeakRuns ==
    ASSUME NEW n \in Nat, NEW s, DOMAIN s = 1..n
    PROVE  \E h : IsSpeak(h, s) /\ Exchange(s) = h[1..n]
<1>1. IsSpeak(CHOOSE h : IsSpeak(h, s), s)  BY SpeakExists, Zenon
<1>2. Exchange(s) = (CHOOSE h : IsSpeak(h, s))[DOMAIN s]
  BY Zenon DEF Exchange, Spoken, FoldLeft, MapThenFoldSet, IsSpeak, SpeakStep
<1> QED  BY <1>1, <1>2

LEMMA SpeakGrows ==
    ASSUME NEW A, NEW s \in Seq(A), NEW x \in A
    PROVE  /\ Exchange(<<>>) = <<>>
           /\ Exchange(Append(s, x)) = Exchange(s) \o Keep(x.text, Spoken)
<1> DEFINE n == Len(s)
           t == Append(s, x)
<1>0. n \in Nat /\ DOMAIN s = 1..n /\ DOMAIN t = 1..(n + 1) /\ t[n + 1] = x
      /\ \A k \in 1..n : t[k] = s[k]
  OBVIOUS
<1> HIDE DEF n, t
<1>1. PICK h : IsSpeak(h, s) /\ Exchange(s) = h[1..n]  BY <1>0, SpeakRuns
<1>2. PICK g : IsSpeak(g, t) /\ Exchange(t) = g[1..(n + 1)]  BY <1>0, SpeakRuns
<1> DEFINE K == { k \in Nat : k <= n => g[1..k] = h[1..k] }
<1>3. K = Nat
  <2>1. 0 \in K  BY <1>0, <1>1, <1>2 DEF IsSpeak, SpeakStep
  <2>2. ASSUME NEW k \in K PROVE k + 1 \in K
    <3> SUFFICES ASSUME k + 1 <= n PROVE g[1..(k + 1)] = h[1..(k + 1)]
        OBVIOUS
    <3>1. g[1..k] = h[1..k]  BY <1>0
    <3>2. h[1..(k + 1)] = SpeakStep(h, s, 1..(k + 1))  BY <1>0, <1>1, Prefix DEF IsSpeak
    <3>3. 1..(k + 1) \in SUBSET (1..(n + 1))  BY <1>0
    <3>4. g[1..(k + 1)] = SpeakStep(g, t, 1..(k + 1))  BY <1>0, <1>2, <3>3 DEF IsSpeak
    <3>5. t[k + 1] = s[k + 1]  BY <1>0
    <3>6. Max(1..(k + 1)) = k + 1 /\ (1..(k + 1)) \ {k + 1} = 1..k /\ 1..(k + 1) # {}  BY <1>0, Prefix
    <3> QED  BY <3>1, <3>2, <3>4, <3>5, <3>6 DEF SpeakStep
  <2> HIDE DEF K
  <2>3. K \in SUBSET Nat  BY DEF K
  <2> QED  BY <2>1, <2>2, <2>3, SetInduction
<1>4. g[1..n] = h[1..n]  BY <1>0, <1>3
<1>5. g[1..(n + 1)] = SpeakStep(g, t, 1..(n + 1))  BY <1>0, <1>2 DEF IsSpeak
<1>6. Max(1..(n + 1)) = n + 1 /\ (1..(n + 1)) \ {n + 1} = 1..n /\ 1..(n + 1) # {}
  <2>1. n + 1 \in Nat /\ n + 1 <= n + 1  BY <1>0
  <2> QED  BY <1>0, <2>1, Prefix
<1>7. Exchange(t) = Exchange(s) \o Keep(x.text, Spoken)  BY <1>0, <1>1, <1>2, <1>4, <1>5, <1>6 DEF SpeakStep
<1>8. Exchange(<<>>) = <<>>
  <2> DEFINE e == <<>>
  <2>1. DOMAIN e = 1..0 /\ 1..0 = {}  OBVIOUS
  <2> HIDE DEF e
  <2>2. PICK f : IsSpeak(f, e) /\ Exchange(e) = f[1..0]  BY <2>1, SpeakRuns
  <2>3. Exchange(e) = <<>>  BY <2>1, <2>2 DEF IsSpeak, SpeakStep
  <2> QED  BY <2>3 DEF e
<1> QED  BY <1>7, <1>8 DEF t

-----------------------------------------------------------------------------
(* What is kept, joined and said *)

LEMMA Ends ==
    ASSUME NEW A, NEW s \in Seq(A), s # <<>>
    PROVE  Head(s) = s[1] /\ Last(s) = s[Len(s)] /\ 1 \in DOMAIN s /\ Len(s) \in DOMAIN s
<1>1. Len(s) \in Nat /\ Len(s) # 0 /\ DOMAIN s = 1..Len(s)  OBVIOUS
<1> QED  BY <1>1 DEF Last

LEMMA AppendIs ==
    ASSUME NEW A, NEW s \in Seq(A), NEW x \in A
    PROVE  /\ Append(s, x) \in Seq(A) /\ Append(s, x) # <<>>
           /\ Last(Append(s, x)) = x
           /\ Head(Append(s, x)) = IF s = <<>> THEN x ELSE Head(s)
           /\ DOMAIN Append(s, x) = 1..(Len(s) + 1) /\ DOMAIN s = 1..Len(s) /\ Len(s) \in Nat
           /\ Len(Append(s, x)) = Len(s) + 1
           /\ Append(s, x)[Len(s) + 1] = x
           /\ \A k \in DOMAIN s : Append(s, x)[k] = s[k]
<1>1. Last(Append(s, x)) = x  BY AppendProperties DEF Last
<1>2. Head(Append(s, x)) = IF s = <<>> THEN x ELSE Head(s)  BY HeadTailAppend
<1>3. /\ Append(s, x) \in Seq(A) /\ Append(s, x) # <<>> /\ Len(Append(s, x)) = Len(s) + 1
      /\ \A k \in 1..Len(s) : Append(s, x)[k] = s[k]
      /\ Append(s, x)[Len(s) + 1] = x
  BY AppendProperties
<1>4. DOMAIN Append(s, x) = 1..(Len(s) + 1) /\ DOMAIN s = 1..Len(s) /\ Len(s) \in Nat  BY <1>3
<1> QED  BY <1>1, <1>2, <1>3, <1>4

LEMMA KeepNone == ASSUME NEW S PROVE Keep(<<>>, S) = <<>>
<1>1. <<>> \in Seq({0}) /\ 0 \in {0}  OBVIOUS
<1> QED  BY <1>1, KeepGrows

\* What is kept is in S, and in the sequence; its ends are those of the sequence when S
\* has them.
LEMMA KeepIs ==
    ASSUME NEW A, NEW S
    PROVE  \A s \in Seq(A) :
              /\ Keep(s, S) \in Seq(A)
              /\ \A k \in DOMAIN Keep(s, S) : Keep(s, S)[k] \in S /\ \E j \in DOMAIN s : Keep(s, S)[k] = s[j]
              /\ s # <<>> /\ Head(s) \in S => Keep(s, S) # <<>> /\ Head(Keep(s, S)) = Head(s)
              /\ s # <<>> /\ Last(s) \in S => Keep(s, S) # <<>> /\ Last(Keep(s, S)) = Last(s)
<1> DEFINE Good(s) ==
              /\ Keep(s, S) \in Seq(A)
              /\ \A k \in DOMAIN Keep(s, S) : Keep(s, S)[k] \in S /\ \E j \in DOMAIN s : Keep(s, S)[k] = s[j]
              /\ s # <<>> /\ Head(s) \in S => Keep(s, S) # <<>> /\ Head(Keep(s, S)) = Head(s)
              /\ s # <<>> /\ Last(s) \in S => Keep(s, S) # <<>> /\ Last(Keep(s, S)) = Last(s)
           G == { s \in Seq(A) : Good(s) }
<1>1. <<>> \in G
  <2>1. <<>> \in Seq(A)  OBVIOUS
  <2>2. Keep(<<>>, S) = <<>>  BY KeepNone
  <2>3. DOMAIN <<>> = {}  OBVIOUS
  <2> QED  BY <2>1, <2>2, <2>3
<1>2. ASSUME NEW s \in G, NEW x \in A PROVE Append(s, x) \in G
  <2> DEFINE t == Append(s, x)
             u == Keep(s, S)
  <2>1. s \in Seq(A) /\ Good(s) /\ u \in Seq(A)  OBVIOUS
  <2>2. Keep(t, S) = IF x \in S THEN Append(u, x) ELSE u  BY <2>1, KeepGrows
  <2>3. /\ t \in Seq(A) /\ t # <<>> /\ Last(t) = x /\ Head(t) = IF s = <<>> THEN x ELSE Head(s)
        /\ DOMAIN t = 1..(Len(s) + 1) /\ DOMAIN s = 1..Len(s) /\ Len(s) \in Nat
        /\ t[Len(s) + 1] = x /\ \A k \in DOMAIN s : t[k] = s[k]
    BY <2>1, AppendIs
  <2>4. /\ Append(u, x) \in Seq(A) /\ Append(u, x) # <<>> /\ Last(Append(u, x)) = x
        /\ Head(Append(u, x)) = IF u = <<>> THEN x ELSE Head(u)
        /\ DOMAIN Append(u, x) = 1..(Len(u) + 1) /\ DOMAIN u = 1..Len(u) /\ Len(u) \in Nat
        /\ Append(u, x)[Len(u) + 1] = x /\ \A k \in DOMAIN u : Append(u, x)[k] = u[k]
    BY <2>1, AppendIs
  <2>5. s = <<>> => u = <<>>  BY <2>1, KeepNone
  <2> HIDE DEF t, u
  <2>6. Keep(t, S) \in Seq(A)  BY <2>1, <2>2, <2>4
  <2>7. ASSUME NEW k \in DOMAIN Keep(t, S)
        PROVE  Keep(t, S)[k] \in S /\ \E j \in DOMAIN t : Keep(t, S)[k] = t[j]
    <3>1. CASE x \in S /\ k = Len(u) + 1
      <4>1. Keep(t, S)[k] = x  BY <2>2, <2>4, <3>1
      <4>2. Len(s) + 1 \in DOMAIN t  BY <2>3
      <4> QED  BY <2>3, <3>1, <4>1, <4>2
    <3>2. CASE ~(x \in S /\ k = Len(u) + 1)
      <4>1. k \in DOMAIN u /\ Keep(t, S)[k] = u[k]  BY <2>2, <2>4, <3>2
      <4>2. u[k] \in S /\ \E j \in DOMAIN s : u[k] = s[j]  BY <2>1, <4>1 DEF u
      <4>3. \A j \in DOMAIN s : j \in DOMAIN t  BY <2>3
      <4> QED  BY <2>3, <4>1, <4>2, <4>3
    <3> QED  BY <3>1, <3>2
  <2>8. Head(t) \in S => Keep(t, S) # <<>> /\ Head(Keep(t, S)) = Head(t)
    <3>1. CASE s = <<>>  BY <2>2, <2>3, <2>4, <2>5, <3>1
    <3>2. CASE s # <<>>
      <4>1. Head(s) \in S => u # <<>> /\ Head(u) = Head(s)  BY <2>1, <3>2 DEF u
      <4> QED  BY <2>2, <2>3, <2>4, <3>2, <4>1
    <3> QED  BY <3>1, <3>2
  <2>9. Last(t) \in S => Keep(t, S) # <<>> /\ Last(Keep(t, S)) = Last(t)  BY <2>2, <2>3, <2>4
  <2> QED  BY <2>3, <2>6, <2>7, <2>8, <2>9 DEF t
<1>3. G = Seq(A)
  <2> HIDE DEF G
  <2>1. G \in SUBSET Seq(A)  BY DEF G
  <2> QED  BY <1>1, <1>2, <2>1, SeqInduction
<1> QED  BY <1>3

\* What is kept of two sequences is kept of each.
LEMMA KeepOfBoth ==
    ASSUME NEW A, NEW S, NEW s \in Seq(A)
    PROVE  \A t \in Seq(A) : Keep(s \o t, S) = Keep(s, S) \o Keep(t, S)
<1> DEFINE G == { t \in Seq(A) : Keep(s \o t, S) = Keep(s, S) \o Keep(t, S) }
<1>1. <<>> \in G
  <2>1. s \o <<>> = s /\ <<>> \in Seq(A)  BY ConcatEmptySeq
  <2>2. Keep(s, S) \o <<>> = Keep(s, S)  BY KeepIs, ConcatEmptySeq
  <2> QED  BY <2>1, <2>2, KeepNone
<1>2. ASSUME NEW t \in G, NEW x \in A PROVE Append(t, x) \in G
  <2>1. t \in Seq(A) /\ Keep(s \o t, S) = Keep(s, S) \o Keep(t, S)  OBVIOUS
  <2>2. s \o t \in Seq(A) /\ s \o Append(t, x) = Append(s \o t, x)  BY <2>1, ConcatProperties
  <2>3. Keep(Append(t, x), S) = IF x \in S THEN Append(Keep(t, S), x) ELSE Keep(t, S)  BY <2>1, KeepGrows
  <2>4. Keep(Append(s \o t, x), S) = IF x \in S THEN Append(Keep(s \o t, S), x) ELSE Keep(s \o t, S)
    <3> DEFINE u == s \o t
    <3>1. u \in Seq(A)  BY <2>2
    <3> HIDE DEF u
    <3>2. Keep(Append(u, x), S) = IF x \in S THEN Append(Keep(u, S), x) ELSE Keep(u, S)
      BY <3>1, KeepGrows
    <3> QED  BY <3>2 DEF u
  <2>5. Keep(s, S) \in Seq(A) /\ Keep(t, S) \in Seq(A)  BY <2>1, KeepIs
  <2>6. Keep(s, S) \o Append(Keep(t, S), x) = Append(Keep(s, S) \o Keep(t, S), x)  BY <2>5
  <2>7. Append(t, x) \in Seq(A)  BY <2>1
  <2>8. Keep(s \o Append(t, x), S) = Keep(s, S) \o Keep(Append(t, x), S)
    <3>1. CASE x \in S  BY <2>1, <2>2, <2>3, <2>4, <2>6, <3>1
    <3>2. CASE x \notin S  BY <2>1, <2>2, <2>3, <2>4, <3>2
    <3> QED  BY <3>1, <3>2
  <2> QED  BY <2>7, <2>8
<1>3. G = Seq(A)
  <2> HIDE DEF G
  <2>1. G \in SUBSET Seq(A)  BY DEF G
  <2> QED  BY <1>1, <1>2, <2>1, SeqInduction
<1> QED  BY <1>3

LEMMA SaidNothing == Exchange(<<>>) = <<>>
<1>1. <<>> \in Seq({0}) /\ 0 \in {0}  OBVIOUS
<1> QED  BY <1>1, SpeakGrows

LEMMA SaidIs == \A s \in Seq(Turn) : Exchange(s) \in Seq(Items)
<1> DEFINE G == { s \in Seq(Turn) : Exchange(s) \in Seq(Items) }
<1>1. <<>> \in G
  <2>1. <<>> \in Seq(Turn) /\ <<>> \in Seq(Items)  OBVIOUS
  <2> QED  BY <2>1, SaidNothing
<1>2. ASSUME NEW s \in G, NEW t \in Turn PROVE Append(s, t) \in G
  <2>1. s \in Seq(Turn) /\ Exchange(s) \in Seq(Items)  OBVIOUS
  <2>2. Exchange(Append(s, t)) = Exchange(s) \o Keep(t.text, Spoken)  BY <2>1, SpeakGrows
  <2>3. t.text \in Seq(Items)  BY DEF Turn
  <2>4. Keep(t.text, Spoken) \in Seq(Items)  BY <2>3, KeepIs
  <2>5. Append(s, t) \in Seq(Turn)  BY <2>1
  <2> QED  BY <2>1, <2>2, <2>4, <2>5, ConcatProperties
<1>3. G = Seq(Turn)
  <2> HIDE DEF G
  <2>1. G \in SUBSET Seq(Turn)  BY DEF G
  <2> QED  BY <1>1, <1>2, <2>1, SeqInduction
<1> QED  BY <1>3

\* A turn without a text says nothing.
LEMMA SaidInTexts == \A s \in Seq(Turn) : Exchange(Keep(s, TextTurns)) = Exchange(s)
<1> DEFINE G == { s \in Seq(Turn) : Exchange(Keep(s, TextTurns)) = Exchange(s) }
<1>1. <<>> \in G  BY KeepNone
<1>2. ASSUME NEW s \in G, NEW t \in Turn PROVE Append(s, t) \in G
  <2> DEFINE u == Keep(s, TextTurns)
  <2>1. s \in Seq(Turn) /\ Exchange(u) = Exchange(s) /\ Append(s, t) \in Seq(Turn)  OBVIOUS
  <2>2. u \in Seq(Turn)  BY <2>1, KeepIs
  <2>3. Keep(Append(s, t), TextTurns) = IF t \in TextTurns THEN Append(u, t) ELSE u  BY <2>1, KeepGrows
  <2>4. Exchange(Append(s, t)) = Exchange(s) \o Keep(t.text, Spoken)  BY <2>1, SpeakGrows
  <2> HIDE DEF u
  <2>5. Exchange(Append(u, t)) = Exchange(u) \o Keep(t.text, Spoken)  BY <2>2, SpeakGrows
  <2>6. CASE t \in TextTurns  BY <2>1, <2>3, <2>4, <2>5, <2>6
  <2>7. CASE t \notin TextTurns
    <3>1. t.text = <<>>  BY <2>7 DEF TextTurns
    <3>2. Keep(t.text, Spoken) = <<>>  BY <3>1, KeepNone
    <3>3. Exchange(s) \o <<>> = Exchange(s)  BY <2>1, SaidIs, ConcatEmptySeq
    <3> QED  BY <2>1, <2>3, <2>4, <2>7, <3>2, <3>3
  <2> QED  BY <2>6, <2>7
<1>3. G = Seq(Turn)
  <2> HIDE DEF G
  <2>1. G \in SUBSET Seq(Turn)  BY DEF G
  <2> QED  BY <1>1, <1>2, <2>1, SeqInduction
<1> QED  BY <1>3

\* What is kept of the texts is a sequence of turns with a text.
LEMMA TextsKept ==
    ASSUME NEW turns \in Seq(Turn)
    PROVE  /\ Keep(turns, TextTurns) \in Seq(TextTurns) /\ Keep(turns, TextTurns) \in Seq(Turn)
           /\ \A k \in DOMAIN Keep(turns, TextTurns) :
                 \E j \in DOMAIN turns : Keep(turns, TextTurns)[k] = turns[j]
           /\ turns # <<>> /\ Head(turns).text # <<>> =>
                 Keep(turns, TextTurns) # <<>> /\ Head(Keep(turns, TextTurns)) = Head(turns)
           /\ turns # <<>> /\ Last(turns).text # <<>> =>
                 Keep(turns, TextTurns) # <<>> /\ Last(Keep(turns, TextTurns)) = Last(turns)
<1> DEFINE u == Keep(turns, TextTurns)
<1>1. /\ u \in Seq(Turn)
      /\ \A k \in DOMAIN u : u[k] \in TextTurns /\ \E j \in DOMAIN turns : u[k] = turns[j]
      /\ turns # <<>> /\ Head(turns) \in TextTurns => u # <<>> /\ Head(u) = Head(turns)
      /\ turns # <<>> /\ Last(turns) \in TextTurns => u # <<>> /\ Last(u) = Last(turns)
  BY KeepIs
<1>2. turns # <<>> => Head(turns) \in Turn /\ Last(turns) \in Turn  BY Ends, ElementOfSeq
<1> HIDE DEF u
<1>3. u \in Seq(TextTurns)  BY <1>1
<1> QED  BY <1>1, <1>2, <1>3 DEF TextTurns, u

\* A joined history is in the shape of the provider, says something in every turn, calls
\* nothing, and its roles alternate.
Regular(p, turns) ==
    /\ \A k \in DOMAIN turns :
          turns[k].form = p /\ turns[k].text # <<>> /\ ~turns[k].call /\ ~turns[k].result
    /\ \A k \in 1 .. Len(turns) - 1 : turns[k].role # turns[k + 1].role

LEMMA TurnIs ==
    ASSUME NEW p \in Providers, NEW text \in Seq(Items)
    PROVE  UserTurn(p, text) \in Turn /\ AssistantTurn(p, text) \in Turn /\ CallTurn(p, text) \in Turn
BY DEF UserTurn, AssistantTurn, CallTurn, Turn

LEMMA JoinTurnIs ==
    ASSUME NEW p \in Providers, NEW acc \in Seq(Turn), Regular(p, acc), NEW t \in TextTurns
    PROVE  /\ JoinTurn(p, acc, t) \in Seq(Turn) /\ JoinTurn(p, acc, t) # <<>>
           /\ Regular(p, JoinTurn(p, acc, t))
           /\ Last(JoinTurn(p, acc, t)).role = t.role
           /\ Head(JoinTurn(p, acc, t)).role = IF acc = <<>> THEN t.role ELSE Head(acc).role
           /\ Exchange(JoinTurn(p, acc, t)) = Exchange(acc) \o Keep(t.text, Spoken)
<1>0. t \in Turn /\ t.text \in Seq(Items) /\ t.text # <<>> /\ t.role \in {"user", "assistant"}
  BY DEF TextTurns, Turn
<1>1. CASE acc # <<>> /\ Last(acc).role = t.role
  <2>1. PICK b \in Seq(Turn), y \in Turn : acc = Append(b, y)  BY <1>1, SequenceEmptyOrAppend
  <2>2. Last(acc) = y /\ Len(acc) = Len(b) + 1 /\ acc[Len(b) + 1] = y /\ Len(b) \in Nat
        /\ DOMAIN acc = 1..(Len(b) + 1) /\ DOMAIN b = 1..Len(b)
        /\ \A k \in DOMAIN b : acc[k] = b[k]
    BY <2>1, AppendIs
  <2> DEFINE z == [y EXCEPT !.text = @ \o t.text]
             new == Append(b, z)
  <2>3. y.text \in Seq(Items) /\ y.text \o t.text \in Seq(Items)  BY <1>0, ConcatProperties DEF Turn
  <2>4. y.text \o t.text # <<>>  BY <1>0, <2>3, ConcatEqualIffEmpty
  <2>5. z \in Turn /\ z.text = y.text \o t.text /\ z.form = y.form /\ z.role = y.role /\ z.call = y.call
        /\ z.result = y.result
    BY <2>3 DEF Turn
  <2> HIDE DEF z
  <2>6. /\ new \in Seq(Turn) /\ new # <<>> /\ Last(new) = z /\ Head(new) = IF b = <<>> THEN z ELSE Head(b)
        /\ DOMAIN new = 1..(Len(b) + 1) /\ Len(new) = Len(b) + 1 /\ new[Len(b) + 1] = z
        /\ \A k \in DOMAIN b : new[k] = b[k]
    BY <2>5, AppendIs
  <2>7. JoinTurn(p, acc, t) = new
    <3>1. JoinTurn(p, acc, t) = [acc EXCEPT ![Len(b) + 1] = z]
      BY <1>1, <2>2 DEF JoinTurn, z
    <3> DEFINE w == [acc EXCEPT ![Len(b) + 1] = z]
    <3>2. w \in Seq(Turn) /\ Len(w) = Len(b) + 1
          /\ \A k \in 1..(Len(b) + 1) : w[k] = IF k = Len(b) + 1 THEN z ELSE acc[k]
      BY <2>2, <2>5
    <3> HIDE DEF w
    <3>3. \A k \in 1..(Len(b) + 1) : w[k] = new[k]  BY <2>2, <2>6, <3>2
    <3> HIDE DEF new
    <3>4. w = new  BY <2>6, <3>2, <3>3, SeqEqual
    <3> QED  BY <3>1, <3>4 DEF w
  <2>8. Regular(p, new)
    <3> HIDE DEF new
    <3>1. ASSUME NEW k \in DOMAIN new
          PROVE  new[k].form = p /\ new[k].text # <<>> /\ ~new[k].call /\ ~new[k].result
      <4>1. CASE k = Len(b) + 1
        <5>1. new[k] = z /\ acc[k] = y /\ k \in DOMAIN acc  BY <2>2, <2>6, <4>1
        <5>2. y.form = p /\ ~y.call /\ ~y.result  BY <5>1 DEF Regular
        <5> QED  BY <2>4, <2>5, <5>1, <5>2
      <4>2. CASE k # Len(b) + 1
        <5>1. k \in DOMAIN b /\ k \in DOMAIN acc  BY <2>2, <2>6, <4>2
        <5>2. new[k] = acc[k]  BY <2>2, <2>6, <5>1
        <5> QED  BY <5>1, <5>2 DEF Regular
      <4> QED  BY <4>1, <4>2
    <3>2. \A k \in DOMAIN new : new[k].role = acc[k].role  BY <2>2, <2>5, <2>6
    <3>3. \A k \in 1 .. Len(new) - 1 : new[k].role # new[k + 1].role  BY <2>2, <2>6, <3>2 DEF Regular
    <3> QED  BY <3>1, <3>3 DEF Regular
  <2>9. Head(acc) = IF b = <<>> THEN y ELSE Head(b)  BY <2>1, AppendIs
  <2>10. Exchange(new) = Exchange(acc) \o Keep(t.text, Spoken)
    <3>1. Exchange(new) = Exchange(b) \o Keep(z.text, Spoken)  BY <2>5, SpeakGrows
    <3>2. Exchange(acc) = Exchange(b) \o Keep(y.text, Spoken)  BY <2>1, SpeakGrows
    <3>3. Keep(z.text, Spoken) = Keep(y.text, Spoken) \o Keep(t.text, Spoken)
      BY <1>0, <2>3, <2>5, KeepOfBoth
    <3>4. Keep(y.text, Spoken) \in Seq(Items) /\ Keep(t.text, Spoken) \in Seq(Items)
      BY <1>0, <2>3, KeepIs
    <3>5. Exchange(b) \in Seq(Items)  BY SaidIs
    <3> HIDE DEF new
    <3> DEFINE A == Exchange(b)
               B == Keep(y.text, Spoken)
               C == Keep(t.text, Spoken)
    <3>6. (A \o B) \o C = A \o (B \o C)
      <4>1. A \in Seq(Items) /\ B \in Seq(Items) /\ C \in Seq(Items)  BY <3>4, <3>5
      <4> HIDE DEF A, B, C
      <4> QED  BY <4>1, ConcatAssociative
    <3>7. Exchange(new) = A \o (B \o C)  BY <3>1, <3>3
    <3>8. Exchange(acc) = A \o B  BY <3>2
    <3> HIDE DEF A, B
    <3> QED  BY <3>6, <3>7, <3>8
  <2> QED  BY <1>1, <2>1, <2>2, <2>5, <2>6, <2>7, <2>8, <2>9, <2>10
<1>2. CASE ~(acc # <<>> /\ Last(acc).role = t.role)
  <2> DEFINE z == IF t.role = "user" THEN UserTurn(p, t.text) ELSE AssistantTurn(p, t.text)
             new == Append(acc, z)
  <2>1. z \in Turn /\ z.text = t.text /\ z.form = p /\ z.role = t.role /\ ~z.call /\ ~z.result
    BY <1>0, TurnIs DEF UserTurn, AssistantTurn
  <2>2. JoinTurn(p, acc, t) = new  BY <1>2 DEF JoinTurn
  <2> HIDE DEF z
  <2>3. /\ new \in Seq(Turn) /\ new # <<>> /\ Last(new) = z /\ Head(new) = IF acc = <<>> THEN z ELSE Head(acc)
        /\ DOMAIN new = 1..(Len(acc) + 1) /\ Len(new) = Len(acc) + 1 /\ new[Len(acc) + 1] = z
        /\ DOMAIN acc = 1..Len(acc) /\ Len(acc) \in Nat
        /\ \A k \in DOMAIN acc : new[k] = acc[k]
    BY <2>1, AppendIs
  <2>4. acc # <<>> => Last(acc) = acc[Len(acc)] /\ Len(acc) # 0  BY Ends, EmptySeq
  <2>5. Exchange(new) = Exchange(acc) \o Keep(t.text, Spoken)  BY <2>1, SpeakGrows
  <2>6. Regular(p, new)
    <3> HIDE DEF new
    <3>1. ASSUME NEW k \in DOMAIN new
          PROVE  new[k].form = p /\ new[k].text # <<>> /\ ~new[k].call /\ ~new[k].result
      BY <1>0, <2>1, <2>3 DEF Regular
    <3>2. ASSUME NEW k \in 1 .. Len(new) - 1 PROVE new[k].role # new[k + 1].role
      <4>1. CASE k = Len(acc)
        <5>1. acc # <<>>  BY <4>1, <2>3
        <5> QED  BY <1>2, <2>1, <2>3, <2>4, <4>1, <5>1
      <4>2. CASE k # Len(acc)
        <5> DEFINE n == Len(acc)
        <5>3. n \in Nat /\ k \in 1 .. (n + 1) - 1  BY <2>3
        <5>0. n \in Nat /\ k \in 1..n /\ k # n
          <6>1. k # n  BY <4>2
          <6> HIDE DEF n
          <6> QED  BY <5>3, <6>1
        <5>2. k \in 1 .. n - 1 /\ k \in 1..n /\ k + 1 \in 1..n
          <6> HIDE DEF n
          <6> QED  BY <5>0
        <5>1. k \in 1 .. Len(acc) - 1 /\ k \in DOMAIN acc /\ k + 1 \in DOMAIN acc  BY <2>3, <5>2
        <5> QED  BY <2>3, <5>1 DEF Regular
      <4> QED  BY <4>1, <4>2
    <3> QED  BY <3>1, <3>2 DEF Regular
  <2> QED  BY <2>1, <2>2, <2>3, <2>5, <2>6
<1> QED  BY <1>1, <1>2

LEMMA JoinedIs ==
    ASSUME NEW p \in Providers
    PROVE  \A s \in Seq(TextTurns) :
              /\ Joined(p, s) \in Seq(Turn) /\ Regular(p, Joined(p, s))
              /\ Joined(p, s) = <<>> <=> s = <<>>
              /\ s # <<>> => /\ Last(Joined(p, s)).role = Last(s).role
                             /\ Head(Joined(p, s)).role = Head(s).role
              /\ Exchange(Joined(p, s)) = Exchange(s)
<1> DEFINE Good(s) ==
              /\ Joined(p, s) \in Seq(Turn) /\ Regular(p, Joined(p, s))
              /\ Joined(p, s) = <<>> <=> s = <<>>
              /\ s # <<>> => /\ Last(Joined(p, s)).role = Last(s).role
                             /\ Head(Joined(p, s)).role = Head(s).role
              /\ Exchange(Joined(p, s)) = Exchange(s)
           G == { s \in Seq(TextTurns) : Good(s) }
<1>1. <<>> \in G
  <2>1. Joined(p, <<>>) = <<>>
    <3>1. <<>> \in Seq({0}) /\ 0 \in {0}  OBVIOUS
    <3> QED  BY <3>1, JoinGrows
  <2>2. Regular(p, <<>>)  BY DEF Regular
  <2>3. <<>> \in Seq(Turn) /\ <<>> \in Seq(TextTurns)  OBVIOUS
  <2>4. Good(<<>>)  BY <2>1, <2>2, <2>3
  <2> QED  BY <2>3, <2>4
<1>2. ASSUME NEW s \in G, NEW t \in TextTurns PROVE Append(s, t) \in G
  <2>1. s \in Seq(TextTurns) /\ Good(s)  OBVIOUS
  <2>2. Joined(p, Append(s, t)) = JoinTurn(p, Joined(p, s), t)  BY <2>1, JoinGrows
  <2>3. Exchange(Append(s, t)) = Exchange(s) \o Keep(t.text, Spoken)  BY <2>1, SpeakGrows
  <2>4. /\ Append(s, t) \in Seq(TextTurns) /\ Append(s, t) # <<>> /\ Last(Append(s, t)) = t
        /\ Head(Append(s, t)) = IF s = <<>> THEN t ELSE Head(s)
    BY <2>1, AppendIs
  <2> DEFINE u == Joined(p, s)
             new == Append(s, t)
  <2>5. u \in Seq(Turn) /\ Regular(p, u)  BY <2>1
  <2> HIDE DEF u
  <2>6. /\ JoinTurn(p, u, t) \in Seq(Turn) /\ JoinTurn(p, u, t) # <<>>
        /\ Regular(p, JoinTurn(p, u, t))
        /\ Last(JoinTurn(p, u, t)).role = t.role
        /\ Head(JoinTurn(p, u, t)).role = IF u = <<>> THEN t.role ELSE Head(u).role
        /\ Exchange(JoinTurn(p, u, t)) = Exchange(u) \o Keep(t.text, Spoken)
    BY <2>5, JoinTurnIs
  <2>7. u = <<>> <=> s = <<>>  BY <2>1 DEF u
  <2>8. s # <<>> => Head(u).role = Head(s).role  BY <2>1 DEF u
  <2>9. Exchange(u) = Exchange(s)  BY <2>1 DEF u
  <2>10. Joined(p, new) = JoinTurn(p, u, t)  BY <2>2 DEF u
  <2> HIDE DEF new
  <2>11. Good(new)  BY <2>3, <2>4, <2>6, <2>7, <2>8, <2>9, <2>10 DEF new
  <2> QED  BY <2>4, <2>11 DEF new
<1>3. G = Seq(TextTurns)
  <2> HIDE DEF G
  <2>1. G \in SUBSET Seq(TextTurns)  BY DEF G
  <2> QED  BY <1>1, <1>2, <2>1, SeqInduction
<1> QED  BY <1>3

-----------------------------------------------------------------------------
(* The invariant *)

\* A history begins with a message.
Opens(turns) ==
    turns # <<>> => /\ Head(turns).role = "user" /\ Head(turns).text # <<>>
                    /\ ~Head(turns).call /\ ~Head(turns).result

\* Gemini's tool turns do not outlive a save: what is left in its shape are texts.
Plain(turns) ==
    \A k \in DOMAIN turns :
        turns[k].form = "gemini" => ~turns[k].call /\ ~turns[k].result /\ turns[k].text # <<>>

\* A history that is complete: it ends with an answer, and is either one that Bedrock
\* accepts or the texts that Gemini keeps.
Complete(turns) ==
    turns # <<>> =>
        /\ Last(turns).role = "assistant" /\ ~Last(turns).call
        /\ \/ Accepts("bedrock", turns)
           \/ \A k \in DOMAIN turns : turns[k].form = "gemini" /\ turns[k].text # <<>>

SessionOK(s) == Opens(s.turns) /\ Plain(s.turns) /\ (s.ending = "answered" => Complete(s.turns))

\* A turn that loses nothing spoken when it is dumped, or says something.
Dumpable(t) ==
    t.form = "gemini" => IF t.call \/ t.result THEN Keep(t.text, Spoken) = <<>> ELSE t.text # <<>>

\* A running history begins with a message and goes on from what was loaded.
Carries(r, turns) ==
    /\ turns # <<>> /\ Opens(turns)
    /\ \A k \in DOMAIN turns : turns[k].form = r.provider /\ Dumpable(turns[k])
    /\ IsPrefix(Append(Exchange(r.loaded.turns), Said(r.message)), Exchange(turns))

RunOK(r) ==
    /\ SessionOK(r.loaded) /\ Carries(r, r.turns)
    /\ r.pc = "asking" => Last(r.turns).role = "user" /\ ~Last(r.turns).call
    /\ r.pc = "saving" /\ r.ending = "answered" => Complete(r.turns) /\ Plain(r.turns)

IInv ==
    /\ TypeOK /\ SessionOK(session)
    /\ \A i \in Invocations : inv[i] # Idle => RunOK(inv[i])

-----------------------------------------------------------------------------
(* Histories that are normalised, asked about and saved *)

LEMMA PrefixGrows ==
    ASSUME NEW A, NEW a \in Seq(A), NEW b \in Seq(A), NEW c \in Seq(A), IsPrefix(a, b)
    PROVE  IsPrefix(a, b \o c)
<1>1. Len(a) <= Len(b) /\ SubSeq(a, 1, Len(a)) = SubSeq(b, 1, Len(a))  BY DEF IsPrefix
<1>2. Len(b \o c) = Len(b) + Len(c) /\ Len(a) \in Nat /\ Len(b) \in Nat /\ Len(c) \in Nat
  BY ConcatProperties
<1>3. SubSeq(b \o c, 1, Len(a)) = SubSeq(b, 1, Len(a))
  <2>1. CASE Len(a) = 0  BY <2>1, SubSeqEmpty
  <2>2. CASE Len(a) # 0
    <3>1. 1 \in 1..Len(b) /\ Len(a) \in 1..Len(b)  BY <1>1, <1>2, <2>2
    <3> QED  BY <3>1, SubSeqOfConcat1
  <2> QED  BY <2>1, <2>2
<1> QED  BY <1>1, <1>2, <1>3 DEF IsPrefix

LEMMA PrefixOfItself == ASSUME NEW A, NEW a \in Seq(A) PROVE IsPrefix(a, a)
BY DEF IsPrefix

LEMMA SaidMore ==
    ASSUME NEW s \in Seq(Turn), NEW t \in Turn
    PROVE  /\ Exchange(Append(s, t)) = Exchange(s) \o Keep(t.text, Spoken)
           /\ Exchange(s) \in Seq(Items) /\ Keep(t.text, Spoken) \in Seq(Items)
<1>1. t.text \in Seq(Items)  BY DEF Turn
<1> QED  BY <1>1, SpeakGrows, SaidIs, KeepIs

LEMMA NormalizedIs ==
    ASSUME NEW p \in Providers, NEW turns \in Seq(Turn), Opens(turns), Plain(turns)
    PROVE  LET new == NormalizeHistory(turns, p)
           IN  /\ new \in Seq(Turn) /\ Opens(new) /\ Plain(new)
               /\ \A k \in DOMAIN new : new[k].form = p
               /\ Exchange(new) = Exchange(turns)
<1> DEFINE new == NormalizeHistory(turns, p)
           s == Keep(turns, TextTurns)
<1>1. CASE \A k \in DOMAIN turns : turns[k].form = p
  <2>1. new = turns  BY <1>1 DEF NormalizeHistory
  <2> QED  BY <1>1, <2>1
<1>2. CASE ~\A k \in DOMAIN turns : turns[k].form = p
  <2>1. new = Joined(p, s)  BY <1>2 DEF NormalizeHistory
  <2>2. s \in Seq(TextTurns) /\ Exchange(s) = Exchange(turns)
        /\ (turns # <<>> /\ Head(turns).text # <<>> => s # <<>> /\ Head(s) = Head(turns))
    BY TextsKept, SaidInTexts
  <2>3. turns = <<>> => s = <<>>  BY KeepNone
  <2> HIDE DEF s, new
  <2>4. /\ new \in Seq(Turn) /\ Regular(p, new)
        /\ new = <<>> <=> s = <<>>
        /\ s # <<>> => Head(new).role = Head(s).role
        /\ Exchange(new) = Exchange(s)
    BY <2>1, <2>2, JoinedIs
  <2>5. Opens(new)
    <3> SUFFICES ASSUME new # <<>>
                 PROVE  /\ Head(new).role = "user" /\ Head(new).text # <<>>
                        /\ ~Head(new).call /\ ~Head(new).result
        BY DEF Opens
    <3>1. turns # <<>>  BY <2>3, <2>4
    <3>2. Head(turns).role = "user" /\ Head(turns).text # <<>>  BY <3>1 DEF Opens
    <3>3. Head(new) = new[1] /\ 1 \in DOMAIN new  BY <2>4, Ends
    <3> QED  BY <2>2, <2>4, <3>1, <3>2, <3>3 DEF Regular
  <2>6. Plain(new) /\ \A k \in DOMAIN new : new[k].form = p  BY <2>4 DEF Plain, Regular
  <2> QED  BY <2>2, <2>4, <2>5, <2>6 DEF new
<1> QED  BY <1>1, <1>2

LEMMA AcceptsOne ==
    ASSUME NEW p, NEW t \in Turn, t.form = p, t.role = "user", t.text # <<>>
    PROVE  Accepts(p, Append(<<>>, t))
<1> DEFINE s == Append(<<>>, t)
<1>1. <<>> \in Seq(Turn)  OBVIOUS
<1>2. s # <<>> /\ Head(s) = t /\ Len(s) = 1 /\ s[1] = t /\ DOMAIN s = {1}  OBVIOUS
<1> HIDE DEF s
<1>3. 1 .. Len(s) - 1 = {}  BY <1>2
<1> QED  BY <1>2, <1>3 DEF Accepts, s

LEMMA AcceptsMore ==
    ASSUME NEW p, NEW s \in Seq(Turn), s # <<>>, Accepts(p, s), NEW t \in Turn, t.form = p,
           p = "bedrock" => t.role # Last(s).role,
           t.result <=> Last(s).call, t.text # <<>> \/ t.call \/ t.result
    PROVE  Accepts(p, Append(s, t))
<1> DEFINE new == Append(s, t)
           n == Len(s)
<1>1. /\ new \in Seq(Turn) /\ new # <<>> /\ Head(new) = Head(s)
      /\ DOMAIN new = 1..(n + 1) /\ DOMAIN s = 1..n /\ n \in Nat /\ Len(new) = n + 1
      /\ new[n + 1] = t /\ \A k \in DOMAIN s : new[k] = s[k]
  BY AppendIs
<1>2. Last(s) = s[n] /\ n \in DOMAIN s  BY Ends
<1> HIDE DEF new, n
<1>3. ASSUME NEW k \in 1 .. Len(new) - 1
      PROVE  /\ new[k + 1].result <=> new[k].call
             /\ p = "bedrock" => new[k].role # new[k + 1].role
  <2>1. k \in 1..n  BY <1>1
  <2>2. CASE k = n  BY <1>1, <1>2, <2>2
  <2>3. CASE k # n
    <3>1. k \in 1 .. n - 1 /\ k + 1 \in 1..n  BY <1>1, <2>1, <2>3
    <3> QED  BY <1>1, <2>1, <3>1 DEF Accepts, n
  <2> QED  BY <2>2, <2>3
<1>4. ASSUME NEW k \in DOMAIN new 
      PROVE new[k].form = p /\ (new[k].text # <<>> \/ new[k].call \/ new[k].result)
  <2>1. CASE k = n + 1  BY <1>1, <2>1
  <2>2. CASE k # n + 1
    <3>1. k \in DOMAIN s  BY <1>1, <2>2
    <3> QED  BY <1>1, <3>1 DEF Accepts
  <2> QED  BY <2>1, <2>2
<1>5. Head(new).role = "user"  BY <1>1 DEF Accepts
<1> QED  BY <1>1, <1>3, <1>4, <1>5 DEF Accepts, new

LEMMA RegularIsAccepted ==
    ASSUME NEW p, NEW s \in Seq(Turn), s # <<>>, Regular(p, s), Head(s).role = "user"
    PROVE  Accepts(p, s)
<1>1. \A k \in 1 .. Len(s) - 1 : k \in DOMAIN s /\ k + 1 \in DOMAIN s
  <2>1. Len(s) \in Nat /\ DOMAIN s = 1..Len(s)  OBVIOUS
  <2> QED  BY <2>1
<1> QED  BY <1>1 DEF Regular, Accepts

\* Texts in Gemini's shape that begin with a message take one more.
LEMMA PlainIsAnswerable ==
    ASSUME NEW s \in Seq(Turn), Opens(s), Plain(s), \A k \in DOMAIN s : s[k].form = "gemini",
           NEW t \in Turn, t.form = "gemini", t.role = "user", t.text # <<>>, ~t.result
    PROVE  Accepts("gemini", Append(s, t))
<1>1. CASE s = <<>>  BY <1>1, AcceptsOne
<1>2. CASE s # <<>>
  <2>1. Len(s) \in Nat /\ DOMAIN s = 1..Len(s)  OBVIOUS
  <2>2. \A k \in 1 .. Len(s) - 1 : k \in DOMAIN s /\ k + 1 \in DOMAIN s  BY <2>1
  <2>3. Accepts("gemini", s)  BY <1>2, <2>2 DEF Accepts, Opens, Plain
  <2>4. ~Last(s).call
    <3>1. Last(s) = s[Len(s)] /\ Len(s) \in DOMAIN s  BY <1>2, Ends
    <3> QED  BY <3>1 DEF Plain
  <2> QED  BY <1>2, <2>3, <2>4, AcceptsMore
<1> QED  BY <1>1, <1>2

\* A complete history, in Bedrock's shape, takes one more message.
LEMMA CompleteIsAnswerable ==
    ASSUME NEW turns \in Seq(Turn), Opens(turns), Plain(turns), Complete(turns), NEW m \in Messages
    PROVE  Accepts("bedrock", Append(NormalizeHistory(turns, "bedrock"), UserTurn("bedrock", <<Said(m)>>)))
<1> DEFINE t == UserTurn("bedrock", <<Said(m)>>)
           new == NormalizeHistory(turns, "bedrock")
<1>0. "bedrock" \in Providers /\ <<Said(m)>> \in Seq(Items) /\ <<Said(m)>> # <<>>  BY DEF Providers, Items
<1>1. t \in Turn /\ t.form = "bedrock" /\ t.role = "user" /\ t.text # <<>> /\ ~t.call /\ ~t.result
  BY <1>0, TurnIs DEF UserTurn
<1> HIDE DEF t
<1>2. CASE turns = <<>>
  <2>1. new = <<>>  BY <1>2 DEF NormalizeHistory
  <2> QED  BY <1>1, <2>1, AcceptsOne DEF t
<1>3. CASE turns # <<>> /\ Accepts("bedrock", turns)
  <2>1. new = turns  BY <1>3 DEF NormalizeHistory, Accepts
  <2>2. Last(turns).role = "assistant" /\ ~Last(turns).call  BY <1>3 DEF Complete
  <2>3. Accepts("bedrock", Append(turns, t))  BY <1>1, <1>3, <2>2, AcceptsMore
  <2> QED  BY <2>1, <2>3 DEF t
<1>4. CASE turns # <<>> /\ \A k \in DOMAIN turns : turns[k].form = "gemini" /\ turns[k].text # <<>>
  <2> DEFINE s == Keep(turns, TextTurns)
  <2>1. Head(turns) = turns[1] /\ Last(turns) = turns[Len(turns)] /\ 1 \in DOMAIN turns
        /\ Len(turns) \in DOMAIN turns
    BY <1>4, Ends
  <2>2. new = Joined("bedrock", s)  BY <1>4, <2>1 DEF NormalizeHistory
  <2>3. Head(turns).role = "user" /\ Last(turns).role = "assistant"  BY <1>4 DEF Opens, Complete
  <2>4. s \in Seq(TextTurns) /\ s # <<>> /\ Head(s) = Head(turns) /\ Last(s) = Last(turns)
    BY <1>4, <2>1, TextsKept
  <2> HIDE DEF s
  <2>5. new \in Seq(Turn) /\ Regular("bedrock", new) /\ new # <<>>
        /\ Last(new).role = "assistant" /\ Head(new).role = "user"
    BY <1>0, <2>2, <2>3, <2>4, JoinedIs
  <2> HIDE DEF new
  <2>6. Accepts("bedrock", new)  BY <2>5, RegularIsAccepted
  <2>7. ~Last(new).call  BY <2>5, Ends DEF Regular
  <2>8. t.role # Last(new).role /\ (t.result <=> Last(new).call)  BY <1>1, <2>5, <2>7
  <2>9. Accepts("bedrock", Append(new, t))  BY <1>1, <2>5, <2>6, <2>8, AcceptsMore
  <2> QED  BY <2>9 DEF new, t
<1> QED  BY <1>2, <1>3, <1>4 DEF Complete

LEMMA DumpedIs ==
    ASSUME NEW turns \in Seq(Turn)
    PROVE  /\ Dumped(turns) \in Seq(Turn) /\ Len(Dumped(turns)) = Len(turns)
           /\ DOMAIN Dumped(turns) = DOMAIN turns
           /\ \A k \in DOMAIN turns :
                 Dumped(turns)[k] = IF turns[k].form = "gemini" /\ (turns[k].call \/ turns[k].result)
                                    THEN [turns[k] EXCEPT !.form = "string", !.text = <<>>] ELSE turns[k]
<1> DEFINE f(k) == IF turns[k].form = "gemini" /\ (turns[k].call \/ turns[k].result)
                   THEN [turns[k] EXCEPT !.form = "string", !.text = <<>>] ELSE turns[k]
           n == Len(turns)
<1>1. n \in Nat /\ DOMAIN turns = 1..n /\ \A k \in 1..n : turns[k] \in Turn  OBVIOUS
<1>2. <<>> \in Seq(Items)  OBVIOUS
<1>3. \A k \in 1..n : f(k) \in Turn  BY <1>1, <1>2 DEF Turn
<1>4. Dumped(turns) = [k \in 1..n |-> f(k)]  BY <1>1 DEF Dumped
<1> HIDE DEF f, n
<1>5. Dumped(turns) \in Seq(Turn)  BY <1>1, <1>3, <1>4, IsASeq
<1>6. Len(Dumped(turns)) = n  BY <1>1, <1>4, <1>5
<1> QED  BY <1>1, <1>4, <1>5, <1>6 DEF f, n

\* What is spoken outlives a save.
LEMMA DumpedSays ==
    ASSUME NEW turns \in Seq(Turn), \A k \in DOMAIN turns : Dumpable(turns[k])
    PROVE  Exchange(Dumped(turns)) = Exchange(turns)
<1> DEFINE A == { t \in Turn : Dumpable(t) }
           G == { s \in Seq(A) : Exchange(Dumped(s)) = Exchange(s) }
<1>1. <<>> \in G
  <2>1. Dumped(<<>>) = <<>>  BY DEF Dumped
  <2>2. <<>> \in Seq(A)  OBVIOUS
  <2> QED  BY <2>1, <2>2
<1>2. ASSUME NEW s \in G, NEW t \in A PROVE Append(s, t) \in G
  <2>1. s \in Seq(A) /\ Exchange(Dumped(s)) = Exchange(s) /\ Append(s, t) \in Seq(A)  OBVIOUS
  <2>2. s \in Seq(Turn) /\ t \in Turn /\ Dumpable(t)
    <3>1. A \subseteq Turn  OBVIOUS
    <3> HIDE DEF A
    <3> QED  BY <2>1, <3>1, SeqMonotonic DEF A
  <2> DEFINE u == IF t.form = "gemini" /\ (t.call \/ t.result)
                  THEN [t EXCEPT !.form = "string", !.text = <<>>] ELSE t
             new == Append(s, t)
  <2>3. u \in Turn
    <3>1. <<>> \in Seq(Items)  OBVIOUS
    <3> QED  BY <2>2, <3>1 DEF Turn
  <2>4. Keep(u.text, Spoken) = Keep(t.text, Spoken)
    <3>1. CASE t.form = "gemini" /\ (t.call \/ t.result)
      <4>1. u.text = <<>>  BY <2>2, <3>1 DEF Turn
      <4>2. Keep(t.text, Spoken) = <<>>  BY <2>2, <3>1 DEF Dumpable
      <4> QED  BY <4>1, <4>2, KeepNone
    <3>2. CASE ~(t.form = "gemini" /\ (t.call \/ t.result))  BY <3>2
    <3> QED  BY <3>1, <3>2
  <2>5. new \in Seq(Turn) /\ DOMAIN new = 1..(Len(s) + 1) /\ DOMAIN s = 1..Len(s) /\ Len(s) \in Nat
        /\ Len(new) = Len(s) + 1 /\ new[Len(s) + 1] = t /\ \A k \in DOMAIN s : new[k] = s[k]
    BY <2>2, AppendIs
  <2> HIDE DEF u, new
  <2>6. Dumped(new) = Append(Dumped(s), u)
    <3>1. /\ Dumped(s) \in Seq(Turn) /\ Len(Dumped(s)) = Len(s) /\ DOMAIN Dumped(s) = DOMAIN s
          /\ \A k \in DOMAIN s :
                Dumped(s)[k] = IF s[k].form = "gemini" /\ (s[k].call \/ s[k].result)
                               THEN [s[k] EXCEPT !.form = "string", !.text = <<>>] ELSE s[k]
      BY <2>2, DumpedIs
    <3>2. /\ Dumped(new) \in Seq(Turn) /\ Len(Dumped(new)) = Len(new)
          /\ \A k \in DOMAIN new :
                Dumped(new)[k] = IF new[k].form = "gemini" /\ (new[k].call \/ new[k].result)
                                 THEN [new[k] EXCEPT !.form = "string", !.text = <<>>] ELSE new[k]
      BY <2>5, DumpedIs
    <3> DEFINE e == Append(Dumped(s), u)
    <3>3. e \in Seq(Turn) /\ Len(e) = Len(s) + 1 /\ e[Len(s) + 1] = u
          /\ \A k \in DOMAIN s : e[k] = Dumped(s)[k]
      <4> DEFINE v == Dumped(s)
      <4>1. v \in Seq(Turn) /\ Len(v) = Len(s) /\ DOMAIN v = DOMAIN s  BY <3>1
      <4> HIDE DEF v, u
      <4>2. /\ Append(v, u) \in Seq(Turn) /\ Len(Append(v, u)) = Len(v) + 1
            /\ Append(v, u)[Len(v) + 1] = u /\ \A k \in DOMAIN v : Append(v, u)[k] = v[k]
        BY <2>3, <4>1, AppendIs
      <4> QED  BY <4>1, <4>2 DEF v
    <3> HIDE DEF e
    <3>4. ASSUME NEW k \in 1 .. Len(s) + 1 PROVE Dumped(new)[k] = e[k]
      <4>1. CASE k = Len(s) + 1  BY <2>5, <3>2, <3>3, <4>1 DEF u
      <4>2. CASE k # Len(s) + 1
        <5>1. k \in DOMAIN s /\ k \in DOMAIN new  BY <2>5, <4>2
        <5>2. new[k] = s[k]  BY <2>5, <5>1
        <5> QED  BY <3>1, <3>2, <3>3, <5>1, <5>2
      <4> QED  BY <4>1, <4>2
    <3>5. Dumped(new) = e
      <4> DEFINE v == Dumped(new)
      <4>1. v \in Seq(Turn) /\ Len(v) = Len(s) + 1 /\ \A k \in 1 .. Len(s) + 1 : v[k] = e[k]
        BY <2>5, <3>2, <3>4
      <4> HIDE DEF v
      <4>2. \A k \in 1 .. Len(v) : v[k] = e[k]  BY <4>1
      <4>3. v = e  BY <3>3, <4>1, <4>2, SeqEqual
      <4> QED  BY <4>3 DEF v
    <3> QED  BY <3>5 DEF e
  <2>7. Exchange(new) = Exchange(s) \o Keep(t.text, Spoken)  BY <2>2, SpeakGrows DEF new
  <2>8. Exchange(Dumped(new)) = Exchange(Dumped(s)) \o Keep(u.text, Spoken)
    BY <2>2, <2>3, <2>6, DumpedIs, SpeakGrows
  <2> QED  BY <2>1, <2>4, <2>7, <2>8 DEF new
<1>3. G = Seq(A)
  <2> HIDE DEF G
  <2>1. G \in SUBSET Seq(A)  BY DEF G
  <2> QED  BY <1>1, <1>2, <2>1, SeqInduction
<1>4. turns \in Seq(A)
  <2>1. \A k \in DOMAIN turns : turns[k] \in A  BY ElementOfSeq
  <2> QED  BY <2>1
<1> QED  BY <1>3, <1>4

-----------------------------------------------------------------------------
(* Every step keeps the invariant *)

LEMMA Rounds == MaxRounds \in Nat /\ MaxRounds # 0
BY ConversationAssumption

LEMMA Texts ==
    /\ <<>> \in Seq(Items) /\ Notes \subseteq Seq(Items)
    /\ \A m \in Messages : <<Said(m)>> \in Seq(Items) /\ <<Reply(m)>> \in Seq(Items)
    /\ \A text \in Notes : Keep(text, Spoken) = <<>>
    /\ \A m \in Messages : Keep(<<Said(m)>>, Spoken) = <<Said(m)>>
<1>1. <<>> \in Seq(Items) /\ Note \in Items  BY DEF Items
<1>2. <<Note>> \in Seq(Items)  BY <1>1
<1>3. Notes \subseteq Seq(Items)  BY <1>1, <1>2 DEF Notes
<1>4. ASSUME NEW x \in Items
      PROVE  Keep(<<x>>, Spoken) = IF x \in Spoken THEN <<x>> ELSE <<>>
  <2>1. <<x>> = Append(<<>>, x)  OBVIOUS
  <2>2. Keep(Append(<<>>, x), Spoken) = IF x \in Spoken THEN Append(Keep(<<>>, Spoken), x) ELSE Keep(<<>>, Spoken)
    BY <1>1, KeepGrows
  <2> QED  BY <2>1, <2>2, KeepNone
<1>5. \A m \in Messages : Said(m) \in Items /\ Reply(m) \in Items /\ Said(m) # Note
  BY DEF Items, Said, Reply, Note
<1>6. \A m \in Messages : <<Said(m)>> \in Seq(Items) /\ <<Reply(m)>> \in Seq(Items)  BY <1>5
<1>7. \A text \in Notes : Keep(text, Spoken) = <<>>  BY <1>1, <1>4, KeepNone DEF Notes, Spoken
<1>8. \A m \in Messages : Keep(<<Said(m)>>, Spoken) = <<Said(m)>>  BY <1>4, <1>5 DEF Spoken
<1> QED  BY <1>1, <1>3, <1>6, <1>7, <1>8

LEMMA EmptyIs == Empty \in Session /\ SessionOK(Empty)
BY DEF Empty, Session, Endings, SessionOK, Opens, Plain, Complete

LEMMA NotIdle == Idle \notin Run
BY DEF Idle, Run

\* What a step of one invocation must leave behind.
LEMMA RunStep ==
    ASSUME IInv, NEW i \in Invocations, NEW r \in {Idle} \cup Run,
           r # Idle => RunOK(r),
           inv' = [inv EXCEPT ![i] = r],
           session' \in Session, SessionOK(session'),
           deliveries' \in 0 .. MaxDeliveries
    PROVE  IInv'
<1>1. inv \in [Invocations -> {Idle} \cup Run]  BY DEF IInv, TypeOK
<1>2. inv' \in [Invocations -> {Idle} \cup Run]  BY <1>1
<1>3. \A j \in Invocations : inv'[j] = IF j = i THEN r ELSE inv[j]  BY <1>1
<1>4. ASSUME NEW j \in Invocations, inv'[j] # Idle PROVE RunOK(inv'[j])
  BY <1>3, <1>4 DEF IInv
<1>5. \A j \in Invocations :
        inv'[j] # Idle => \A k \in DOMAIN inv'[j].turns : inv'[j].turns[k].form = inv'[j].provider
  BY <1>4 DEF RunOK, Carries
<1>6. TypeOK'  BY <1>2, <1>5 DEF TypeOK
<1>7. SessionOK(session)'  BY DEF SessionOK, Opens, Plain, Complete
<1>8. (\A j \in Invocations : inv[j] # Idle => RunOK(inv[j]))'  BY <1>4
<1> QED  BY <1>6, <1>7, <1>8 DEF IInv

LEMMA SessionStep ==
    ASSUME IInv, inv' = inv, session' \in Session, SessionOK(session'),
           deliveries' \in 0 .. MaxDeliveries
    PROVE  IInv'
<1>1. TypeOK'  BY DEF IInv, TypeOK
<1>2. SessionOK(session)'  BY DEF SessionOK, Opens, Plain, Complete
<1> QED  BY <1>1, <1>2 DEF IInv

LEMMA DeliveredIs == IInv /\ Delivered => deliveries' \in 0 .. MaxDeliveries
<1> SUFFICES ASSUME IInv, Delivered PROVE deliveries' \in 0 .. MaxDeliveries
    OBVIOUS
<1>1. MaxDeliveries \in Nat  BY ConversationAssumption
<1>2. deliveries \in 0 .. MaxDeliveries  BY DEF IInv, TypeOK
<1> QED  BY <1>1, <1>2 DEF Delivered

\* One turn more.
LEMMA CarriesMore ==
    ASSUME NEW r \in Run, NEW turns \in Seq(Turn), Carries(r, turns),
           NEW t \in Turn, t.form = r.provider, Dumpable(t)
    PROVE  Append(turns, t) \in Seq(Turn) /\ Carries(r, Append(turns, t))
<1> DEFINE new == Append(turns, t)
           said == Append(Exchange(r.loaded.turns), Said(r.message))
<1>1. /\ new \in Seq(Turn) /\ new # <<>> /\ Head(new) = Head(turns)
      /\ DOMAIN new = 1..(Len(turns) + 1) /\ DOMAIN turns = 1..Len(turns) /\ Len(turns) \in Nat
      /\ new[Len(turns) + 1] = t /\ \A k \in DOMAIN turns : new[k] = turns[k]
  BY AppendIs DEF Carries
<1>2. Opens(new)  BY <1>1 DEF Carries, Opens
<1>3. r.loaded.turns \in Seq(Turn) /\ Said(r.message) \in Items  BY DEF Run, Session, Items
<1>4. said \in Seq(Items)  BY <1>3, SaidIs
<1>5. Exchange(new) = Exchange(turns) \o Keep(t.text, Spoken)
      /\ Exchange(turns) \in Seq(Items) /\ Keep(t.text, Spoken) \in Seq(Items)
  BY SaidMore
<1>6. IsPrefix(said, Exchange(turns))  BY DEF Carries
<1> HIDE DEF said, new
<1>7. IsPrefix(said, Exchange(new))  BY <1>4, <1>5, <1>6, PrefixGrows
<1>8. ASSUME NEW k \in DOMAIN new PROVE new[k].form = r.provider /\ Dumpable(new[k])
  <2>1. CASE k = Len(turns) + 1  BY <1>1, <2>1
  <2>2. CASE k # Len(turns) + 1
    <3>1. k \in DOMAIN turns  BY <1>1, <2>2
    <3> QED  BY <1>1, <3>1 DEF Carries
  <2> QED  BY <2>1, <2>2
<1>9. Carries(r, new)  BY <1>1, <1>2, <1>7, <1>8 DEF Carries, said
<1> QED  BY <1>1, <1>9 DEF new

\* Other fields of a run do not matter to it.
LEMMA CarriesOn ==
    ASSUME NEW r, NEW q, NEW turns, Carries(r, turns),
           q.provider = r.provider, q.loaded = r.loaded, q.message = r.message
    PROVE  Carries(q, turns)
BY DEF Carries

LEMMA AskedTurn ==
    ASSUME NEW m \in Messages, NEW p \in Providers
    PROVE  LET t == UserTurn(p, <<Said(m)>>)
           IN  /\ t \in Turn /\ t.form = p /\ t.role = "user" /\ t.text = <<Said(m)>>
               /\ ~t.call /\ ~t.result /\ Dumpable(t)
<1>1. <<Said(m)>> \in Seq(Items)  BY Texts
<1> QED  BY <1>1, TurnIs DEF UserTurn, Dumpable

\* The message after a history that says what the loaded one says.
LEMMA AskingCarries ==
    ASSUME NEW r \in Run, NEW turns \in Seq(Turn), Opens(turns), Plain(turns),
           \A k \in DOMAIN turns : turns[k].form = r.provider,
           Exchange(turns) = Exchange(r.loaded.turns)
    PROVE  LET new == Append(turns, UserTurn(r.provider, <<Said(r.message)>>))
           IN  new \in Seq(Turn) /\ Carries(r, new) /\ Last(new).role = "user" /\ ~Last(new).call
<1> DEFINE t == UserTurn(r.provider, <<Said(r.message)>>)
           new == Append(turns, t)
<1>0. r.provider \in Providers /\ r.message \in Messages  BY DEF Run
<1>1. /\ t \in Turn /\ t.form = r.provider /\ t.role = "user" /\ t.text = <<Said(r.message)>>
      /\ ~t.call /\ ~t.result /\ Dumpable(t)
  BY <1>0, AskedTurn
<1> HIDE DEF t
<1>2. /\ new \in Seq(Turn) /\ new # <<>> /\ Last(new) = t /\ Head(new) = IF turns = <<>> THEN t ELSE Head(turns)
      /\ DOMAIN new = 1..(Len(turns) + 1) /\ DOMAIN turns = 1..Len(turns) /\ Len(turns) \in Nat
      /\ new[Len(turns) + 1] = t /\ \A k \in DOMAIN turns : new[k] = turns[k]
  BY <1>1, AppendIs
<1>3. t.text # <<>>  BY <1>1
<1>4. Opens(new)  BY <1>1, <1>2, <1>3 DEF Opens
<1>5. ASSUME NEW k \in DOMAIN new PROVE new[k].form = r.provider /\ Dumpable(new[k])
  <2>1. CASE k = Len(turns) + 1  BY <1>1, <1>2, <2>1
  <2>2. CASE k # Len(turns) + 1
    <3>1. k \in DOMAIN turns /\ new[k] = turns[k]  BY <1>2, <2>2
    <3> QED  BY <3>1 DEF Plain, Dumpable
  <2> QED  BY <2>1, <2>2
<1>6. Exchange(new) = Append(Exchange(turns), Said(r.message)) /\ Exchange(new) \in Seq(Items)
  <2>1. Exchange(new) = Exchange(turns) \o Keep(t.text, Spoken) /\ Exchange(turns) \in Seq(Items)
    BY <1>1, SaidMore
  <2>2. Keep(t.text, Spoken) = <<Said(r.message)>> /\ Said(r.message) \in Items
    BY <1>0, <1>1, Texts DEF Items
  <2>3. Exchange(turns) \o <<Said(r.message)>> = Append(Exchange(turns), Said(r.message))
    BY <2>1, <2>2, AppendIsConcat
  <2>4. Exchange(new) \in Seq(Items)  BY <1>2, SaidIs
  <2> QED  BY <2>1, <2>2, <2>3, <2>4
<1>7. IsPrefix(Append(Exchange(r.loaded.turns), Said(r.message)), Exchange(new))
  BY <1>6, PrefixOfItself
<1>8. Carries(r, new)  BY <1>2, <1>4, <1>5, <1>7 DEF Carries
<1> QED  BY <1>1, <1>2, <1>8 DEF t

-----------------------------------------------------------------------------

LEMMA StartedIs ==
    ASSUME NEW p \in Providers, NEW m \in Messages, NEW loaded \in Session, SessionOK(loaded)
    PROVE  StartedOn(p, m, loaded) \in Run /\ RunOK(StartedOn(p, m, loaded))
<1> DEFINE turns == NormalizeHistory(loaded.turns, p)
           new == Append(turns, UserTurn(p, <<Said(m)>>))
           r == StartedOn(p, m, loaded)
<1>0. r = [pc |-> "asking", provider |-> p, message |-> m, round |-> 0,
           loaded |-> loaded, ending |-> "answered", turns |-> new]
  BY DEF StartedOn
<1>1. loaded.turns \in Seq(Turn) /\ Opens(loaded.turns) /\ Plain(loaded.turns)  BY DEF Session, SessionOK
<1>2. /\ turns \in Seq(Turn) /\ Opens(turns) /\ Plain(turns)
      /\ \A k \in DOMAIN turns : turns[k].form = p
      /\ Exchange(turns) = Exchange(loaded.turns)
  BY <1>1, NormalizedIs
<1>3. new \in Seq(Turn)  BY <1>2, AskedTurn, AppendIs
<1> HIDE DEF r, turns
<1>4. 0 \in 0 .. MaxRounds - 1  BY Rounds
<1>5. r \in Run  BY <1>0, <1>3, <1>4 DEF Run, Endings
<1>6. Carries(r, new) /\ Last(new).role = "user" /\ ~Last(new).call
  <2>1. r.provider = p /\ r.message = m /\ r.loaded = loaded  BY <1>0
  <2> HIDE DEF new
  <2> QED  BY <1>2, <1>5, <2>1, AskingCarries DEF new
<1>7. RunOK(r)  BY <1>0, <1>6 DEF RunOK
<1> QED  BY <1>5, <1>7 DEF r

LEMMA LoadsHolds ==
    ASSUME IInv, NEW i \in Invocations, NEW m \in Messages, Loads(i, m), UNCHANGED session,
           deliveries' \in 0 .. MaxDeliveries
    PROVE  IInv'
<1>1. PICK loaded \in {session, Empty}, p \in SelectProvider :
         inv' = [inv EXCEPT ![i] = StartedOn(p, m, loaded)]
  BY DEF Loads
<1>2. loaded \in Session /\ SessionOK(loaded)  BY EmptyIs DEF IInv, TypeOK
<1>3. p \in Providers  BY ConversationAssumption DEF SelectProvider, Providers
<1>4. StartedOn(p, m, loaded) \in Run /\ RunOK(StartedOn(p, m, loaded))  BY <1>2, <1>3, StartedIs
<1>5. session' \in Session /\ SessionOK(session')  BY DEF IInv, TypeOK
<1> QED  BY <1>1, <1>4, <1>5, RunStep

LEMMA ResetHolds == ASSUME IInv, NEW m \in Messages, Reset(m) PROVE IInv'
<1>1. session' \in Session /\ SessionOK(session')  BY EmptyIs DEF Reset, IInv, TypeOK
<1>2. deliveries' \in 0 .. MaxDeliveries  BY DeliveredIs DEF Reset
<1> QED  BY <1>1, <1>2, SessionStep DEF Reset

LEMMA ExpiresHolds == ASSUME IInv, Expires PROVE IInv'
<1>1. session' \in Session /\ SessionOK(session')  BY EmptyIs DEF Expires
<1>2. deliveries' \in 0 .. MaxDeliveries  BY DEF Expires, IInv, TypeOK
<1> QED  BY <1>1, <1>2, SessionStep DEF Expires

LEMMA Running ==
    ASSUME IInv, NEW i \in Invocations, inv[i] # Idle
    PROVE  inv[i] \in Run /\ RunOK(inv[i])
BY DEF IInv, TypeOK

LEMMA SameSession ==
    ASSUME IInv, UNCHANGED <<session, deliveries>>
    PROVE  session' \in Session /\ SessionOK(session') /\ deliveries' \in 0 .. MaxDeliveries
BY DEF IInv, TypeOK

LEMMA GivesUpHolds ==
    ASSUME IInv, NEW i \in Invocations, GivesUp(i), UNCHANGED <<session, deliveries>>
    PROVE  IInv'
BY SameSession, RunStep DEF GivesUp

\* The turns an agent adds.
LEMMA AgentTurns ==
    ASSUME NEW p \in Providers, NEW text \in Seq(Items)
    PROVE  /\ AssistantTurn(p, text) \in Turn /\ AssistantTurn(p, text).form = p
           /\ AssistantTurn(p, text).role = "assistant" /\ AssistantTurn(p, text).text = text
           /\ ~AssistantTurn(p, text).call /\ ~AssistantTurn(p, text).result
           /\ text # <<>> \/ p # "gemini" => Dumpable(AssistantTurn(p, text))
           /\ CallTurn(p, text) \in Turn /\ CallTurn(p, text).form = p
           /\ Keep(text, Spoken) = <<>> \/ p # "gemini" => Dumpable(CallTurn(p, text))
           /\ ResultTurn(p) \in Turn /\ ResultTurn(p).form = p /\ ResultTurn(p).role = "user"
           /\ ~ResultTurn(p).call /\ Dumpable(ResultTurn(p))
<1>1. /\ AssistantTurn(p, text) \in Turn /\ AssistantTurn(p, text).form = p
      /\ AssistantTurn(p, text).role = "assistant" /\ AssistantTurn(p, text).text = text
      /\ ~AssistantTurn(p, text).call /\ ~AssistantTurn(p, text).result
  BY TurnIs DEF AssistantTurn
<1>2. /\ CallTurn(p, text) \in Turn /\ CallTurn(p, text).form = p /\ CallTurn(p, text).text = text
      /\ CallTurn(p, text).call
  BY TurnIs DEF CallTurn
<1>3. /\ ResultTurn(p) \in Turn /\ ResultTurn(p).form = p /\ ResultTurn(p).role = "user"
      /\ ~ResultTurn(p).call /\ ResultTurn(p).text = <<>> /\ ResultTurn(p).result
  BY Texts DEF ResultTurn, Turn
<1>4. Dumpable(ResultTurn(p))  BY <1>3, KeepNone DEF Dumpable
<1> QED  BY <1>1, <1>2, <1>3, <1>4 DEF Dumpable

\* An answer ends the run: what is to be saved.
LEMMA AnswersHolds ==
    ASSUME IInv, NEW i \in Invocations, inv[i].pc = "asking",
           NEW turns \in Seq(Turn), Carries(inv[i], turns),
           NEW ending \in Endings, ending = "answered" => Complete(turns) /\ Plain(turns),
           AnswersWith(i, turns, ending), UNCHANGED <<session, deliveries>>
    PROVE  IInv'
<1> DEFINE r == inv[i]
           q == [r EXCEPT !.pc = "saving", !.turns = turns, !.ending = ending]
<1>1. r # Idle  BY DEF Idle
<1>2. r \in Run /\ RunOK(r)  BY <1>1, Running
<1>3. inv' = [inv EXCEPT ![i] = q]  BY DEF AnswersWith, IInv, TypeOK
<1> HIDE DEF r
<1>4. /\ q \in Run /\ q.pc = "saving" /\ q.turns = turns /\ q.ending = ending
      /\ q.provider = r.provider /\ q.loaded = r.loaded /\ q.message = r.message
  BY <1>2 DEF Run
<1>5. Carries(q, turns)
  <2> HIDE DEF q
  <2> QED  BY <1>4, CarriesOn DEF r
<1> HIDE DEF q
<1>6. SessionOK(q.loaded)  BY <1>2, <1>4 DEF RunOK
<1>7. RunOK(q)  BY <1>4, <1>5, <1>6 DEF RunOK
<1> QED  BY <1>3, <1>4, <1>7, RunStep, SameSession

LEMMA RunsToolsHolds ==
    ASSUME IInv, NEW i \in Invocations, NEW p \in Providers, inv[i].pc = "asking", inv[i].provider = p,
           NEW text \in Notes, RunsTools(i, p, text), UNCHANGED <<session, deliveries>>
    PROVE  IInv'
<1> DEFINE r == inv[i]
           turns == r.turns \o <<CallTurn(p, text), ResultTurn(p)>>
           called == Append(r.turns, CallTurn(p, text))
           new == Append(called, ResultTurn(p))
<1>1. r # Idle  BY DEF Idle
<1>2. r \in Run /\ RunOK(r)  BY <1>1, Running
<1>3. r.turns \in Seq(Turn) /\ Carries(r, r.turns)  BY <1>2 DEF Run, RunOK
<1>4. /\ CallTurn(p, text) \in Turn /\ CallTurn(p, text).form = p /\ Dumpable(CallTurn(p, text))
      /\ ResultTurn(p) \in Turn /\ ResultTurn(p).form = p /\ ResultTurn(p).role = "user"
      /\ ~ResultTurn(p).call /\ Dumpable(ResultTurn(p))
  BY Texts, AgentTurns
<1>5. turns = new
  <2> DEFINE s == r.turns
             c == CallTurn(p, text)
             d == ResultTurn(p)
  <2>1. s \in Seq(Turn) /\ c \in Turn /\ d \in Turn  BY <1>3, <1>4
  <2> HIDE DEF s, c, d
  <2>2. s \o <<c, d>> = Append(Append(s, c), d)  BY <2>1
  <2> QED  BY <2>2 DEF s, c, d
<1>6. called \in Seq(Turn) /\ Carries(r, called)
  <2> HIDE DEF called
  <2> QED  BY <1>2, <1>3, <1>4, CarriesMore DEF called
<1>7. new \in Seq(Turn) /\ Carries(r, new)
  <2> HIDE DEF called, new, r
  <2> QED  BY <1>2, <1>4, <1>6, CarriesMore DEF new, r
<1>8. Last(new) = ResultTurn(p)
  <2> DEFINE d == ResultTurn(p)
  <2>1. d \in Turn  BY <1>4
  <2> HIDE DEF called, d
  <2>2. Last(Append(called, d)) = d  BY <1>6, <2>1, AppendIs
  <2> QED  BY <2>2 DEF d
<1> HIDE DEF called, new, turns
<1>9. CASE LastRound(i)
  <2>1. AnswersWith(i, new, "cut") /\ "cut" \in Endings  BY <1>5, <1>9 DEF RunsTools, turns, Endings
  <2> QED  BY <1>7, <2>1, AnswersHolds
<1>10. CASE ~LastRound(i)
  <2> DEFINE q == [r EXCEPT !.round = r.round + 1, !.turns = new]
  <2>1. inv' = [inv EXCEPT ![i] = q]  BY <1>5, <1>10 DEF RunsTools, turns, IInv, TypeOK
  <2>2. r.round + 1 \in 0 .. MaxRounds - 1
    <3>1. r.round \in 0 .. MaxRounds - 1  BY <1>2 DEF Run
    <3>2. ~(r.round + 1 >= MaxRounds)  BY <1>10 DEF LastRound
    <3> HIDE DEF r
    <3> QED  BY <3>1, <3>2, Rounds
  <2>3. r.pc = "asking"  OBVIOUS
  <2> HIDE DEF r
  <2>4. /\ q \in Run /\ q.pc = "asking" /\ q.turns = new
        /\ q.provider = r.provider /\ q.loaded = r.loaded /\ q.message = r.message
    BY <1>2, <1>7, <2>2, <2>3 DEF Run
  <2> HIDE DEF q
  <2>5. Carries(q, new)  BY <1>7, <2>4, CarriesOn
  <2>6. SessionOK(q.loaded)  BY <1>2, <2>4 DEF RunOK
  <2>7. RunOK(q)  BY <1>4, <1>8, <2>4, <2>5, <2>6 DEF RunOK
  <2> QED  BY <2>1, <2>4, <2>7, RunStep, SameSession
<1> QED  BY <1>9, <1>10

LEMMA BedrockHolds == ASSUME IInv, NEW i \in Invocations, Bedrock(i) PROVE IInv'
<1> DEFINE r == inv[i]
<1>0. /\ r.pc = "asking" /\ r.provider = "bedrock" /\ Accepts("bedrock", r.turns)
      /\ UNCHANGED <<session, deliveries>>
  BY DEF Bedrock, Asks
<1>1. r # Idle /\ "bedrock" \in Providers  BY <1>0 DEF Idle, Providers
<1>2. r \in Run /\ RunOK(r)  BY <1>1, Running
<1>3. r.turns \in Seq(Turn) /\ Carries(r, r.turns) /\ r.message \in Messages
      /\ Last(r.turns).role = "user" /\ ~Last(r.turns).call /\ r.turns # <<>>
  BY <1>0, <1>2 DEF Run, RunOK, Carries
<1>5. CASE \E text \in Notes : RunsTools(i, "bedrock", text)  BY <1>0, <1>1, <1>5, RunsToolsHolds
<1>6. CASE AnswersWith(i, Append(r.turns, AssistantTurn("bedrock", <<Reply(r.message)>>)), "answered")
  <2> DEFINE t == AssistantTurn("bedrock", <<Reply(r.message)>>)
             new == Append(r.turns, t)
  <2>1. /\ t \in Turn /\ t.form = "bedrock" /\ t.role = "assistant" /\ t.text = <<Reply(r.message)>>
        /\ ~t.call /\ ~t.result /\ Dumpable(t)
    <3> DEFINE text == <<Reply(r.message)>>
    <3>1. text \in Seq(Items) /\ text # <<>>  BY <1>3, Texts
    <3> HIDE DEF text, r
    <3>2. /\ AssistantTurn("bedrock", text) \in Turn /\ AssistantTurn("bedrock", text).form = "bedrock"
          /\ AssistantTurn("bedrock", text).role = "assistant" /\ AssistantTurn("bedrock", text).text = text
          /\ ~AssistantTurn("bedrock", text).call /\ ~AssistantTurn("bedrock", text).result
          /\ Dumpable(AssistantTurn("bedrock", text))
      BY <1>1, <3>1, AgentTurns
    <3> QED  BY <3>2 DEF text, r
  <2> HIDE DEF t
  <2>2. t.text # <<>>  BY <2>1
  <2>3. new \in Seq(Turn) /\ Carries(r, new)
    <3> HIDE DEF new, r
    <3> QED  BY <1>0, <1>2, <1>3, <2>1, CarriesMore DEF new
  <2>4. Last(new) = t  BY <1>3, <2>1, AppendIs
  <2>5. Accepts("bedrock", new)  BY <1>0, <1>3, <2>1, <2>2, AcceptsMore
  <2> HIDE DEF new
  <2>6. Complete(new) /\ Plain(new)
    <3>1. \A k \in DOMAIN new : new[k].form = "bedrock"  BY <1>0, <2>3 DEF Carries
    <3> QED  BY <2>1, <2>4, <2>5, <3>1 DEF Complete, Plain
  <2>7. AnswersWith(i, new, "answered") /\ "answered" \in Endings  BY <1>6 DEF new, t, Endings
  <2> QED  BY <1>0, <2>3, <2>6, <2>7, AnswersHolds
<1>7. CASE AnswersWith(i, Append(r.turns, AssistantTurn("bedrock", <<>>)), "mute")
  <2> DEFINE t == AssistantTurn("bedrock", <<>>)
             new == Append(r.turns, t)
  <2>1. t \in Turn /\ t.form = "bedrock" /\ Dumpable(t)  BY <1>1, Texts, AgentTurns
  <2> HIDE DEF t
  <2>2. new \in Seq(Turn) /\ Carries(r, new)
    <3> HIDE DEF new, r
    <3> QED  BY <1>0, <1>2, <1>3, <2>1, CarriesMore DEF new
  <2> HIDE DEF new
  <2>3. AnswersWith(i, new, "mute") /\ "mute" \in Endings  BY <1>7 DEF new, t, Endings
  <2> QED  BY <1>0, <2>2, <2>3, AnswersHolds
<1>8. ASSUME NEW text \in {<<>>, <<Reply(r.message)>>},
             AnswersWith(i, Append(r.turns, CallTurn("bedrock", text)), "cut")
      PROVE  IInv'
  <2> DEFINE t == CallTurn("bedrock", text)
             new == Append(r.turns, t)
  <2>0. text \in Seq(Items)  BY <1>3, Texts
  <2>1. t \in Turn /\ t.form = "bedrock" /\ Dumpable(t)  BY <1>1, <2>0, AgentTurns
  <2> HIDE DEF t
  <2>2. new \in Seq(Turn) /\ Carries(r, new)
    <3> HIDE DEF new, r
    <3> QED  BY <1>0, <1>2, <1>3, <2>1, CarriesMore DEF new
  <2> HIDE DEF new
  <2>3. AnswersWith(i, new, "cut") /\ "cut" \in Endings  BY <1>8 DEF new, t, Endings
  <2> QED  BY <1>0, <2>2, <2>3, AnswersHolds
<1> QED  BY <1>5, <1>6, <1>7, <1>8 DEF Bedrock

LEMMA GeminiHolds == ASSUME IInv, NEW i \in Invocations, Gemini(i) PROVE IInv'
<1> DEFINE r == inv[i]
<1>0. r.pc = "asking" /\ r.provider = "gemini" /\ UNCHANGED <<session, deliveries>>  BY DEF Gemini, Asks
<1>1. r # Idle /\ "gemini" \in Providers  BY <1>0 DEF Idle, Providers
<1>2. r \in Run /\ RunOK(r)  BY <1>1, Running
<1>3. r.loaded \in Session /\ SessionOK(r.loaded) /\ r.message \in Messages  BY <1>2 DEF Run, RunOK
<1>4. CASE \E text \in Notes : RunsTools(i, "gemini", text)  BY <1>0, <1>1, <1>4, RunsToolsHolds
<1>5. CASE AnswersWith(i, TextHistory(i) \o <<UserTurn("gemini", <<Said(r.message)>>),
                                              AssistantTurn("gemini", <<Reply(r.message)>>)>>, "answered")
  <2> DEFINE n == NormalizeHistory(r.loaded.turns, "gemini")
             s == Keep(n, TextTurns)
             u == UserTurn("gemini", <<Said(r.message)>>)
             a == AssistantTurn("gemini", <<Reply(r.message)>>)
             asked == Append(s, u)
             new == Append(asked, a)
  <2>1. r.loaded.turns \in Seq(Turn) /\ Opens(r.loaded.turns) /\ Plain(r.loaded.turns)
    BY <1>3 DEF Session, SessionOK
  <2>2. /\ n \in Seq(Turn) /\ Opens(n) /\ Plain(n)
        /\ \A k \in DOMAIN n : n[k].form = "gemini"
        /\ Exchange(n) = Exchange(r.loaded.turns)
    BY <1>1, <2>1, NormalizedIs
  <2> HIDE DEF n
  <2>3. /\ s \in Seq(TextTurns) /\ s \in Seq(Turn)
        /\ \A k \in DOMAIN s : \E j \in DOMAIN n : s[k] = n[j]
        /\ n # <<>> /\ Head(n).text # <<>> => s # <<>> /\ Head(s) = Head(n)
    BY <2>2, TextsKept
  <2>4. n = <<>> => s = <<>>  BY KeepNone
  <2>5. Exchange(s) = Exchange(r.loaded.turns)  BY <2>2, SaidInTexts
  <2> HIDE DEF s
  <2>6. Opens(s)  BY <2>2, <2>3, <2>4 DEF Opens
  <2>7. Plain(s) /\ \A k \in DOMAIN s : s[k].form = "gemini"  BY <2>2, <2>3 DEF Plain
  <2>8. \A k \in DOMAIN s : s[k].text # <<>>
    <3>1. \A k \in DOMAIN s : s[k] \in TextTurns  BY <2>3, ElementOfSeq
    <3> QED  BY <3>1 DEF TextTurns
  <2>9. asked \in Seq(Turn) /\ Carries(r, asked)
    <3> HIDE DEF r, asked
    <3> QED  BY <1>0, <1>2, <2>3, <2>5, <2>6, <2>7, AskingCarries DEF asked
  <2>10. /\ u \in Turn /\ u.form = "gemini" /\ u.text = <<Said(r.message)>> /\ ~u.call /\ ~u.result
    BY <1>1, <1>3, AskedTurn
  <2>11. /\ a \in Turn /\ a.form = "gemini" /\ a.role = "assistant" /\ a.text = <<Reply(r.message)>>
         /\ ~a.call /\ ~a.result /\ Dumpable(a)
    <3> DEFINE text == <<Reply(r.message)>>
    <3>1. text \in Seq(Items) /\ text # <<>>  BY <1>3, Texts
    <3> HIDE DEF text
    <3>2. AssistantTurn("gemini", text) \in Turn /\ AssistantTurn("gemini", text).form = "gemini"
          /\ AssistantTurn("gemini", text).role = "assistant" /\ AssistantTurn("gemini", text).text = text
          /\ ~AssistantTurn("gemini", text).call /\ ~AssistantTurn("gemini", text).result
          /\ Dumpable(AssistantTurn("gemini", text))
      BY <1>1, <3>1, AgentTurns
    <3> QED  BY <3>2 DEF text
  <2>12. u.text # <<>> /\ a.text # <<>>  BY <2>10, <2>11
  <2> HIDE DEF u, a
  <2>13. new \in Seq(Turn) /\ Carries(r, new)
    <3> HIDE DEF asked, new, r
    <3> QED  BY <1>0, <1>2, <2>9, <2>11, CarriesMore DEF new
  <2>14. TextHistory(i) \o <<u, a>> = new
    <3>1. TextHistory(i) = s  BY DEF TextHistory, s, n
    <3>2. s \o <<u, a>> = Append(Append(s, u), a)  BY <2>3, <2>10, <2>11
    <3> QED  BY <3>1, <3>2
  <2>15. /\ DOMAIN asked = 1..(Len(s) + 1) /\ DOMAIN s = 1..Len(s) /\ Len(s) \in Nat
         /\ Len(asked) = Len(s) + 1 /\ asked[Len(s) + 1] = u /\ \A k \in DOMAIN s : asked[k] = s[k]
    BY <2>3, <2>10, AppendIs
  <2> HIDE DEF asked
  <2>16. /\ DOMAIN new = 1..(Len(asked) + 1) /\ DOMAIN asked = 1..Len(asked)
         /\ new[Len(asked) + 1] = a /\ Last(new) = a /\ \A k \in DOMAIN asked : new[k] = asked[k]
    BY <2>9, <2>11, AppendIs
  <2> HIDE DEF new
  <2>17. ASSUME NEW k \in DOMAIN new
         PROVE  new[k].form = "gemini" /\ new[k].text # <<>> /\ ~new[k].call /\ ~new[k].result
    <3>1. CASE k = Len(s) + 2
      <4>1. new[k] = a  BY <2>15, <2>16, <3>1
      <4> QED  BY <2>11, <2>12, <4>1
    <3>2. CASE k = Len(s) + 1
      <4>1. new[k] = u  BY <2>15, <2>16, <3>2
      <4> QED  BY <2>10, <2>12, <4>1
    <3>3. CASE k # Len(s) + 1 /\ k # Len(s) + 2
      <4>1. k \in DOMAIN s /\ new[k] = s[k]  BY <2>15, <2>16, <3>3
      <4> QED  BY <2>7, <2>8, <4>1 DEF Plain
    <3> QED  BY <3>1, <3>2, <3>3
  <2>18. Complete(new) /\ Plain(new)  BY <2>11, <2>16, <2>17 DEF Complete, Plain
  <2>19. AnswersWith(i, new, "answered") /\ "answered" \in Endings  BY <1>5, <2>14 DEF u, a, Endings
  <2> QED  BY <1>0, <2>13, <2>18, <2>19, AnswersHolds
<1> QED  BY <1>4, <1>5 DEF Gemini

\* What a save leaves.
LEMMA SavedIs ==
    ASSUME NEW r \in Run, RunOK(r), r.pc = "saving"
    PROVE  LET saved == [turns |-> Dumped(r.turns), ending |-> r.ending]
           IN  saved \in Session /\ SessionOK(saved)
<1> DEFINE new == Dumped(r.turns)
           saved == [turns |-> new, ending |-> r.ending]
<1>1. r.turns \in Seq(Turn) /\ Carries(r, r.turns) /\ r.ending \in Endings  BY DEF Run, RunOK
<1>2. /\ new \in Seq(Turn) /\ Len(new) = Len(r.turns) /\ DOMAIN new = DOMAIN r.turns
      /\ \A k \in DOMAIN r.turns :
            new[k] = IF r.turns[k].form = "gemini" /\ (r.turns[k].call \/ r.turns[k].result)
                     THEN [r.turns[k] EXCEPT !.form = "string", !.text = <<>>] ELSE r.turns[k]
  BY <1>1, DumpedIs
<1> HIDE DEF new
<1>3. saved \in Session  BY <1>1, <1>2 DEF Session
<1>4. \A k \in DOMAIN r.turns : r.turns[k] \in Turn  BY <1>1, ElementOfSeq
<1>5. Plain(new)
  <2> SUFFICES ASSUME NEW k \in DOMAIN new, new[k].form = "gemini"
               PROVE  ~new[k].call /\ ~new[k].result /\ new[k].text # <<>>
      BY DEF Plain
  <2>1. r.turns[k] \in Turn  BY <1>2, <1>4
  <2>2. CASE r.turns[k].form = "gemini" /\ (r.turns[k].call \/ r.turns[k].result)
    <3>1. new[k].form = "string"  BY <1>2, <2>1, <2>2 DEF Turn
    <3> QED  BY <3>1
  <2>3. CASE ~(r.turns[k].form = "gemini" /\ (r.turns[k].call \/ r.turns[k].result))
    BY <1>1, <1>2, <2>3 DEF Carries, Dumpable
  <2> QED  BY <2>2, <2>3
<1>6. Opens(new)
  <2>1. r.turns # <<>> /\ Opens(r.turns)  BY <1>1 DEF Carries
  <2>2. Head(r.turns) = r.turns[1] /\ 1 \in DOMAIN r.turns  BY <1>1, <2>1, Ends
  <2>3. ~r.turns[1].call /\ ~r.turns[1].result  BY <2>1, <2>2 DEF Opens
  <2>4. new[1] = r.turns[1]  BY <1>2, <2>2, <2>3
  <2>5. new # <<>> => Head(new) = new[1]  BY <1>2, Ends
  <2> QED  BY <2>1, <2>2, <2>4, <2>5 DEF Opens
<1>7. ASSUME r.ending = "answered" PROVE Complete(new)
  <2>1. Complete(r.turns) /\ Plain(r.turns)  BY <1>7 DEF RunOK
  <2>2. \A k \in DOMAIN r.turns : new[k] = r.turns[k]  BY <1>2, <2>1 DEF Plain
  <2>3. new = r.turns
    <3> DEFINE s == r.turns
    <3>0. s \in Seq(Turn) /\ Len(new) = Len(s) /\ \A k \in DOMAIN s : new[k] = s[k]  BY <1>1, <1>2, <2>2
    <3> HIDE DEF s
    <3>1. \A k \in 1..Len(new) : new[k] = s[k]  BY <3>0
    <3> USE DEF s
    <3> QED  BY <1>1, <1>2, <3>1, SeqEqual
  <2> QED  BY <2>1, <2>3
<1> QED  BY <1>3, <1>5, <1>6, <1>7 DEF SessionOK, new

LEMMA SaveHolds == ASSUME IInv, NEW i \in Invocations, Save(i) PROVE IInv'
<1>1. inv[i].pc = "saving" /\ inv[i] # Idle  BY DEF Save, Idle
<1>2. inv[i] \in Run /\ RunOK(inv[i])  BY <1>1, Running
<1>3. session' \in Session /\ SessionOK(session')
  <2> DEFINE saved == [turns |-> Dumped(inv[i].turns), ending |-> inv[i].ending]
  <2>1. saved \in Session /\ SessionOK(saved)  BY <1>1, <1>2, SavedIs
  <2> HIDE DEF saved
  <2>2. session' \in {session, saved}  BY DEF Save, saved
  <2>3. session \in Session /\ SessionOK(session)  BY DEF IInv, TypeOK
  <2> QED  BY <2>1, <2>2, <2>3
<1>4. deliveries' \in 0 .. MaxDeliveries  BY DEF Save, IInv, TypeOK
<1>5. inv' = [inv EXCEPT ![i] = Idle]  BY DEF Save
<1> QED  BY <1>3, <1>4, <1>5, RunStep

LEMMA InitHolds == Init => IInv
<1> SUFFICES ASSUME Init PROVE IInv
    OBVIOUS
<1>1. session \in Session /\ SessionOK(session)  BY EmptyIs DEF Init
<1>2. \A i \in Invocations : inv[i] = Idle  BY DEF Init
<1>3. inv \in [Invocations -> {Idle} \cup Run]  BY DEF Init
<1>4. deliveries \in 0 .. MaxDeliveries  BY ConversationAssumption DEF Init
<1> QED  BY <1>1, <1>2, <1>3, <1>4 DEF IInv, TypeOK

LEMMA StepHolds == IInv /\ [Next]_vars => IInv'
<1> SUFFICES ASSUME IInv, [Next]_vars PROVE IInv'
    OBVIOUS
<1>1. ASSUME NEW m \in Messages, Reset(m) PROVE IInv'  BY <1>1, ResetHolds
<1>2. ASSUME NEW i \in Invocations, NEW m \in Messages, Text(i, m) PROVE IInv'
  BY <1>2, LoadsHolds, DeliveredIs DEF Text
<1>3. ASSUME NEW i \in Invocations, NEW m \in Messages, Execute(i, m) PROVE IInv'
  BY <1>3, LoadsHolds, DeliveredIs DEF Execute
<1>4. ASSUME NEW i \in Invocations, Bedrock(i) PROVE IInv'  BY <1>4, BedrockHolds
<1>5. ASSUME NEW i \in Invocations, Gemini(i) PROVE IInv'  BY <1>5, GeminiHolds
<1>6. ASSUME NEW i \in Invocations, Refused(i) \/ Fails(i) PROVE IInv'
  BY <1>6, GivesUpHolds DEF Refused, Fails
<1>7. ASSUME NEW i \in Invocations, Save(i) PROVE IInv'  BY <1>7, SaveHolds
<1>8. CASE Expires  BY <1>8, ExpiresHolds
<1>9. CASE UNCHANGED vars
  <2>1. UNCHANGED <<session, deliveries>> /\ inv' = inv  BY <1>9 DEF vars
  <2> QED  BY <2>1, SameSession, SessionStep
<1> QED  BY <1>1, <1>2, <1>3, <1>4, <1>5, <1>6, <1>7, <1>8, <1>9 DEF Next

\* Every stored and every running history is in order.
THEOREM Invariant == Spec => []IInv
<1> QED  BY InitHolds, StepHolds, PTL DEF Spec

\* Histories are sequences of turns, a run has the shape of its provider throughout and
\* makes no more rounds than the limit.
THEOREM TypeCorrect == Spec => []TypeOK
<1>1. IInv => TypeOK  BY DEF IInv
<1> QED  BY <1>1, Invariant, PTL

\* Whatever the messages, the runs at once and the changes of provider: a stored session
\* gives Gemini a request it accepts, and Bedrock one unless the run that wrote it was cut
\* off or ended without a word.
THEOREM Answerable == Spec => []AnswerableUnlessCut
<1>1. IInv => AnswerableUnlessCut
  <2> SUFFICES ASSUME IInv, NEW m \in Messages
               PROVE  /\ Accepts("gemini", StartedOn("gemini", m, session).turns)
                      /\ session.ending = "answered" =>
                            Accepts("bedrock", StartedOn("bedrock", m, session).turns)
      BY DEF AnswerableUnlessCut
  <2>1. session.turns \in Seq(Turn)  BY DEF IInv, TypeOK, Session
  <2>2. Opens(session.turns) /\ Plain(session.turns)  BY DEF IInv, SessionOK
  <2>3. Accepts("gemini", Append(NormalizeHistory(session.turns, "gemini"), UserTurn("gemini", <<Said(m)>>)))
    <3> DEFINE n == NormalizeHistory(session.turns, "gemini")
               t == UserTurn("gemini", <<Said(m)>>)
    <3>0. "gemini" \in Providers  BY DEF Providers
    <3>1. n \in Seq(Turn) /\ Opens(n) /\ Plain(n) /\ \A k \in DOMAIN n : n[k].form = "gemini"
      BY <2>1, <2>2, <3>0, NormalizedIs
    <3>2. t \in Turn /\ t.form = "gemini" /\ t.role = "user" /\ t.text = <<Said(m)>> /\ ~t.result
      BY <3>0, AskedTurn
    <3> HIDE DEF n, t
    <3>3. t.text # <<>>  BY <3>2
    <3>4. Accepts("gemini", Append(n, t))  BY <3>1, <3>2, <3>3, PlainIsAnswerable
    <3> QED  BY <3>4 DEF n, t
  <2>4. session.ending = "answered" =>
          Accepts("bedrock", Append(NormalizeHistory(session.turns, "bedrock"), UserTurn("bedrock", <<Said(m)>>)))
    <3>1. session.ending = "answered" => Complete(session.turns)  BY DEF IInv, SessionOK
    <3> QED  BY <2>1, <2>2, <3>1, CompleteIsAnswerable
  <2> QED  BY <2>3, <2>4 DEF StartedOn
<1> QED  BY <1>1, Invariant, PTL

\* A run that saves over the session it loaded keeps all that was said and answered in it,
\* and its own message after that.
THEOREM ConversationKept == Spec => KeepsTheConversation
<1>1. ASSUME IInv, [Next]_vars, NEW i \in Invocations,
             inv[i].pc = "saving", inv'[i] = Idle, inv[i].loaded = session, session' # session
      PROVE  IsPrefix(Append(Exchange(session.turns), Said(inv[i].message)), Exchange(session'.turns))
  <2>0. inv \in [Invocations -> {Idle} \cup Run] /\ inv[i] # Idle  BY <1>1 DEF IInv, TypeOK, Idle
  <2>1. Save(i)
    <3>1. ASSUME NEW j \in Invocations, j # i, inv' = [inv EXCEPT ![j] = inv'[j]] PROVE FALSE
      BY <1>1, <2>0, <3>1
    <3>2. ASSUME NEW j \in Invocations, Save(j) PROVE j = i
      BY <2>0, <3>1, <3>2, <1>1 DEF Save
    <3>3. ASSUME NEW m \in Messages, Reset(m) PROVE FALSE  BY <1>1, <2>0, <3>3 DEF Reset
    <3>4. ~Expires  BY <1>1, <2>0 DEF Expires
    <3> QED  BY <1>1, <3>2, <3>3, <3>4 DEF Next, vars, Text, Execute, Bedrock, Gemini, Asks, Refused, Fails
  <2>2. session' = [turns |-> Dumped(inv[i].turns), ending |-> inv[i].ending]  BY <1>1, <2>1 DEF Save
  <2>3. inv[i] \in Run /\ RunOK(inv[i])  BY <1>1, <2>0, Running
  <2>4. inv[i].turns \in Seq(Turn) /\ Carries(inv[i], inv[i].turns)  BY <2>3 DEF Run, RunOK
  <2>5. Exchange(Dumped(inv[i].turns)) = Exchange(inv[i].turns)  BY <2>4, DumpedSays DEF Carries
  <2>6. session'.turns = Dumped(inv[i].turns)  BY <2>2
  <2> QED  BY <1>1, <2>4, <2>5, <2>6 DEF Carries
<1>2. IInv /\ [Next]_vars =>
        [\A i \in Invocations :
            inv[i].pc = "saving" /\ inv'[i] = Idle /\ inv[i].loaded = session /\ session' # session =>
               IsPrefix(Append(Exchange(session.turns), Said(inv[i].message)), Exchange(session'.turns))]_vars
  BY <1>1
<1> QED  BY <1>2, Invariant, PTL DEF Spec, KeepsTheConversation
=============================================================================
