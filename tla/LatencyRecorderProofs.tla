------------------------ MODULE LatencyRecorderProofs ------------------------
(***************************************************************************)
(* Theorems about LatencyRecorder, for a buffer of any length and any       *)
(* durations: the circular buffer implements the window of LatencyWindow,   *)
(* and the percentiles read from the sorted copy are samples of the ranks   *)
(* that the window asks for.                                                *)
(***************************************************************************)
EXTENDS LatencyRecorder, FiniteSetTheorems, SequenceTheorems, TLAPS

Places(n) == 1 .. n

\* Sets of places are finite.
LEMMA PlacesFinite ==
    ASSUME NEW n \in Nat
    PROVE  /\ IsFiniteSet(Places(n)) /\ Cardinality(Places(n)) = n
           /\ \A S \in SUBSET Places(n) :
                  IsFiniteSet(S) /\ Cardinality(S) \in Nat /\ Cardinality(S) <= n
<1>1. IsFiniteSet(Places(n)) /\ Cardinality(Places(n)) = n
  BY FS_Interval, SMT DEF Places
<1>2. ASSUME NEW S \in SUBSET Places(n)
      PROVE  IsFiniteSet(S) /\ Cardinality(S) \in Nat /\ Cardinality(S) <= n
  BY <1>1, <1>2, FS_Subset, FS_CardinalityType
<1> QED BY <1>1, <1>2

\* A larger set of places has more of them.
LEMMA FewerPlaces ==
    ASSUME NEW n \in Nat, NEW T \in SUBSET Places(n), NEW S \in SUBSET T
    PROVE  /\ Cardinality(S) <= Cardinality(T)
           /\ S # T => Cardinality(S) < Cardinality(T)
<1>1. IsFiniteSet(T)
  BY PlacesFinite
<1>2. IsFiniteSet(S) /\ Cardinality(S) <= Cardinality(T)
  BY <1>1, FS_Subset
<1>3. S # T => Cardinality(S) # Cardinality(T)
  BY <1>1, FS_Subset
<1>4. Cardinality(S) \in Nat /\ Cardinality(T) \in Nat
  BY <1>1, <1>2, FS_CardinalityType
<1> QED BY <1>2, <1>3, <1>4

-----------------------------------------------------------------------------
(* Sorted sorts: it takes every place once, and its values ascend.          *)

\* The sequences of n integers.
SeqOfLen(n) == [Places(n) -> Int]

\* How many samples come up to the one at i, itself included.
CountUpTo(s, i) == Cardinality(UpTo(s, i))

\* Of two places, the one that comes first has fewer up to it.
LEMMA UpToOrdered ==
    ASSUME NEW n \in Nat, NEW s \in SeqOfLen(n), NEW i \in Places(n), NEW j \in Places(n)
    PROVE  /\ CountUpTo(s, i) \in Places(n)
           /\ s[i] < s[j] \/ (s[i] = s[j] /\ i < j) => CountUpTo(s, i) < CountUpTo(s, j)
<1> USE DEF SeqOfLen, Places, CountUpTo
<1>1. UpTo(s, i) \in SUBSET Places(n) /\ UpTo(s, j) \in SUBSET Places(n)
  BY DEF UpTo
<1>2. i \in UpTo(s, i) /\ j \in UpTo(s, j)
  BY DEF UpTo
<1>3. CountUpTo(s, i) \in Nat /\ CountUpTo(s, i) <= n
  BY <1>1, PlacesFinite
<1>4. CountUpTo(s, i) # 0
  BY <1>1, <1>2, PlacesFinite, FS_EmptySet
<1>5. ASSUME s[i] < s[j] \/ (s[i] = s[j] /\ i < j)
      PROVE  CountUpTo(s, i) < CountUpTo(s, j)
  <2>1. UpTo(s, i) \subseteq UpTo(s, j)
    BY <1>5 DEF UpTo
  <2>2. j \notin UpTo(s, i)
    BY <1>5 DEF UpTo
  <2> QED BY <1>1, <1>2, <2>1, <2>2, FewerPlaces
<1> QED BY <1>3, <1>4, <1>5

\* Where Sorted takes its k-th value from.
From(s, k) == CHOOSE i \in DOMAIN s : Cardinality(UpTo(s, i)) = k
Order(s) == [k \in DOMAIN s |-> From(s, k)]

\* There is such a place for every k.
LEMMA FromExists ==
    ASSUME NEW n \in Nat, NEW s \in SeqOfLen(n), NEW k \in Places(n)
    PROVE  From(s, k) \in Places(n) /\ CountUpTo(s, From(s, k)) = k
<1> DEFINE c == [i \in Places(n) |-> CountUpTo(s, i)]
<1>1. c \in [Places(n) -> Places(n)]
  BY UpToOrdered
<1>2. IsInjective(c)
  <2>1. SUFFICES ASSUME NEW i \in Places(n), NEW j \in Places(n), c[i] = c[j]
                 PROVE  i = j
    BY DEF IsInjective
  <2>2. CountUpTo(s, i) = CountUpTo(s, j) /\ CountUpTo(s, i) \in Places(n)
    BY <2>1, UpToOrdered
  <2>3. ~ (CountUpTo(s, i) < CountUpTo(s, j)) /\ ~ (CountUpTo(s, j) < CountUpTo(s, i))
    BY <2>2 DEF Places
  <2>4. s[i] \in Int /\ s[j] \in Int /\ i \in Int /\ j \in Int
    BY DEF SeqOfLen, Places
  <2> QED BY <2>3, <2>4, UpToOrdered
<1>3. c \in Injection(Places(n), Places(n))
  BY <1>1, <1>2 DEF Injection
<1>4. c \in Surjection(Places(n), Places(n))
  BY <1>3, PlacesFinite, FS_Injection
<1>5. PICK i \in Places(n) : c[i] = k
  BY <1>4 DEF Surjection
<1>6. DOMAIN s = Places(n)
  BY DEF SeqOfLen
<1>7. \E x \in DOMAIN s : Cardinality(UpTo(s, x)) = k
  BY <1>5, <1>6 DEF CountUpTo
<1> QED BY <1>6, <1>7 DEF From, CountUpTo

\* u holds the samples of w, in another order.
Rearranged(u, w, n) ==
    /\ u \in SeqOfLen(n) /\ w \in SeqOfLen(n)
    /\ \E p \in Bijection(Places(n), Places(n)) : \A i \in Places(n) : u[i] = w[p[i]]

\* Sorted(s) holds the samples of s, and its values ascend.
LEMMA SortedSorts ==
    ASSUME NEW n \in Nat, NEW s \in SeqOfLen(n)
    PROVE  /\ Rearranged(Sorted(s), s, n)
           /\ \A k, l \in Places(n) : k < l => Sorted(s)[k] <= Sorted(s)[l]
<1>1. DOMAIN s = Places(n) /\ \A i \in Places(n) : s[i] \in Int
  BY DEF SeqOfLen
<1>2. \A k \in Places(n) : From(s, k) \in Places(n) /\ CountUpTo(s, From(s, k)) = k
  BY FromExists
<1>3. Sorted(s) = [k \in Places(n) |-> s[From(s, k)]]
  BY <1>1 DEF Sorted, From
<1>4. Sorted(s) \in SeqOfLen(n)
  BY <1>1, <1>2, <1>3 DEF SeqOfLen
<1> DEFINE p == [k \in Places(n) |-> From(s, k)]
<1>5. p \in [Places(n) -> Places(n)] /\ IsInjective(p)
  BY <1>2 DEF IsInjective
<1>6. p \in Injection(Places(n), Places(n))
  BY <1>5 DEF Injection
<1>7. p \in Bijection(Places(n), Places(n))
  BY <1>6, PlacesFinite, FS_Injection DEF Bijection
<1>8. Rearranged(Sorted(s), s, n)
  <2>1. \A i \in Places(n) : Sorted(s)[i] = s[p[i]]
    BY <1>3
  <2> QED BY <1>4, <1>7, <2>1 DEF Rearranged
<1>9. ASSUME NEW k \in Places(n), NEW l \in Places(n), k < l
      PROVE  Sorted(s)[k] <= Sorted(s)[l]
  <2>1. CountUpTo(s, From(s, k)) = k /\ CountUpTo(s, From(s, l)) = l
    BY <1>2
  <2>2. ~ (CountUpTo(s, From(s, l)) < CountUpTo(s, From(s, k)))
    BY <1>9, <2>1 DEF Places
  <2>3. ~ (s[From(s, l)] < s[From(s, k)])
    BY <1>2, <2>2, UpToOrdered
  <2> QED BY <1>1, <1>2, <1>3, <2>3
<1> QED BY <1>8, <1>9

-----------------------------------------------------------------------------
(* The sample of rank k is the one that sorting puts at place k + 1.        *)

Below(w, v) == {i \in DOMAIN w : w[i] < v}
AtMost(w, v) == {i \in DOMAIN w : w[i] <= v}

HasRank(w, v, k) ==
    /\ v \in Range(w)
    /\ Cardinality(Below(w, v)) <= k
    /\ k < Cardinality(AtMost(w, v))

\* Both modules count, and speak of values, in the same way.
LEMMA SameWords ==
    \A S : Window!Cardinality(S) = Cardinality(S) /\ Window!Range(S) = Range(S)
<1>1. \A S : Window!Cardinality(S) = Cardinality(S)
  BY DEF Window!Cardinality, Cardinality
<1>2. \A S : Window!Range(S) = Range(S)
  BY DEF Window!Range, Range
<1> QED BY <1>1, <1>2

\* OfRank, in the words of this module.
LEMMA OfRankMeans == \A w, k : Window!OfRank(w, k) = CHOOSE v \in Range(w) : HasRank(w, v, k)
<1> SUFFICES ASSUME NEW w, NEW k
             PROVE  Window!OfRank(w, k) = CHOOSE v \in Range(w) : HasRank(w, v, k)
  OBVIOUS
<1> QED BY SameWords DEF Window!OfRank, HasRank, Below, AtMost

\* Places that correspond one to one are as many.
LEMMA SameNumber ==
    ASSUME NEW n \in Nat, NEW p \in Bijection(Places(n), Places(n)),
           NEW S \in SUBSET Places(n), NEW T \in SUBSET Places(n),
           \A i \in Places(n) : i \in S <=> p[i] \in T
    PROVE  Cardinality(S) = Cardinality(T)
<1> DEFINE f == [i \in S |-> p[i]]
<1>1. p \in [Places(n) -> Places(n)] /\ IsInjective(p)
  BY DEF Bijection, Injection
<1>2. \A t \in Places(n) : \E i \in Places(n) : p[i] = t
  BY DEF Bijection, Surjection
<1>3. f \in [S -> T]
  BY <1>1
<1>4. IsInjective(f)
  BY <1>1 DEF IsInjective
<1>5. \A t \in T : \E i \in S : f[i] = t
  BY <1>2
<1>6. f \in Bijection(S, T)
  BY <1>3, <1>4, <1>5 DEF Bijection, Injection, Surjection
<1>7. IsFiniteSet(S)
  BY PlacesFinite
<1> QED BY <1>6, <1>7, FS_Bijection DEF ExistsBijection

\* Ranks do not depend on the order of the samples.
LEMMA RankKept ==
    ASSUME NEW n \in Nat, NEW u, NEW w, Rearranged(u, w, n), NEW v \in Int, NEW k \in Nat,
           HasRank(u, v, k)
    PROVE  HasRank(w, v, k)
<1>1. PICK p \in Bijection(Places(n), Places(n)) : \A i \in Places(n) : u[i] = w[p[i]]
  BY DEF Rearranged
<1>2. p \in [Places(n) -> Places(n)]
  BY DEF Bijection, Injection
<1>3. DOMAIN u = Places(n) /\ DOMAIN w = Places(n)
  BY DEF Rearranged, SeqOfLen
<1>4. Cardinality(Below(u, v)) = Cardinality(Below(w, v))
  <2>1. Below(u, v) \in SUBSET Places(n) /\ Below(w, v) \in SUBSET Places(n)
    BY <1>3 DEF Below
  <2>2. \A i \in Places(n) : i \in Below(u, v) <=> p[i] \in Below(w, v)
    BY <1>1, <1>2, <1>3 DEF Below
  <2> QED BY <2>1, <2>2, SameNumber
<1>5. Cardinality(AtMost(u, v)) = Cardinality(AtMost(w, v))
  <2>1. AtMost(u, v) \in SUBSET Places(n) /\ AtMost(w, v) \in SUBSET Places(n)
    BY <1>3 DEF AtMost
  <2>2. \A i \in Places(n) : i \in AtMost(u, v) <=> p[i] \in AtMost(w, v)
    BY <1>1, <1>2, <1>3 DEF AtMost
  <2> QED BY <2>1, <2>2, SameNumber
<1>6. v \in Range(w)
  BY <1>1, <1>2, <1>3 DEF HasRank, Range
<1> QED BY <1>4, <1>5, <1>6 DEF HasRank

\* There is one value of each rank, which is the one that OfRank chooses.
LEMMA RankChosen ==
    ASSUME NEW n \in Nat, NEW w \in SeqOfLen(n), NEW v, NEW k \in Nat, HasRank(w, v, k)
    PROVE  Window!OfRank(w, k) = v
<1> DEFINE c == Window!OfRank(w, k)
<1>1. HasRank(w, c, k)
  <2>1. \E x \in Range(w) : HasRank(w, x, k)
    BY DEF HasRank
  <2> QED BY <2>1, OfRankMeans
<1>2. ASSUME NEW a, NEW b, HasRank(w, a, k), HasRank(w, b, k) PROVE ~ (a < b)
  <2>1. SUFFICES ASSUME a < b PROVE FALSE
    OBVIOUS
  <2>2. DOMAIN w = Places(n) /\ \A i \in Places(n) : w[i] \in Int
    BY DEF SeqOfLen
  <2>3. a \in Int /\ b \in Int
    BY <1>2, <2>2 DEF HasRank, Range
  <2>4. AtMost(w, a) \in SUBSET Below(w, b) /\ Below(w, b) \in SUBSET Places(n)
    BY <2>1, <2>2, <2>3 DEF AtMost, Below
  <2>5. Cardinality(AtMost(w, a)) <= Cardinality(Below(w, b))
    BY <2>4, FewerPlaces
  <2>6. Cardinality(AtMost(w, a)) \in Nat /\ Cardinality(Below(w, b)) \in Nat
    <3>1. AtMost(w, a) \in SUBSET Places(n)
      BY <2>4
    <3> QED BY <2>4, <3>1, PlacesFinite
  <2> QED BY <1>2, <2>5, <2>6 DEF HasRank
<1>3. c \in Int /\ v \in Int
  BY <1>1 DEF HasRank, Range, SeqOfLen
<1>4. ~ (c < v) /\ ~ (v < c)
  BY <1>1, <1>2
<1> QED BY <1>3, <1>4

\* In a sorted sequence the place tells the rank.
LEMMA RankOfPlace ==
    ASSUME NEW n \in Nat, NEW s \in SeqOfLen(n),
           \A k, l \in Places(n) : k < l => s[k] <= s[l],
           NEW k \in Places(n)
    PROVE  HasRank(s, s[k], k - 1)
<1>1. DOMAIN s = Places(n) /\ \A i \in Places(n) : s[i] \in Int
  BY DEF SeqOfLen
<1>2. Below(s, s[k]) \in SUBSET Places(k - 1)
  <2>1. ASSUME NEW i \in Below(s, s[k]) PROVE i \in 1 .. k - 1
    <3>1. i \in Places(n) /\ s[i] < s[k]
      BY <1>1 DEF Below
    <3>2. ~ (k < i) /\ k # i
      BY <1>1, <3>1
    <3> QED BY <3>1, <3>2 DEF Places
  <2> QED BY <2>1 DEF Places
<1>3. Places(k) \in SUBSET AtMost(s, s[k])
  <2>1. ASSUME NEW i \in Places(k) PROVE i \in Places(n) /\ s[i] <= s[k]
    <3>1. i \in Places(n) /\ (i = k \/ i < k)
      BY DEF Places
    <3> QED BY <1>1, <3>1
  <2> QED BY <1>1, <2>1 DEF AtMost
<1>4. k \in Nat /\ k - 1 \in Nat
  BY DEF Places
<1>5. Cardinality(Below(s, s[k])) <= k - 1
  BY <1>2, <1>4, PlacesFinite
<1>6. k <= Cardinality(AtMost(s, s[k]))
  <2>1. AtMost(s, s[k]) \in SUBSET Places(n)
    BY <1>1 DEF AtMost
  <2>2. Cardinality(Places(k)) <= Cardinality(AtMost(s, s[k]))
    BY <1>3, <2>1, FewerPlaces
  <2> QED BY <1>4, <2>2, PlacesFinite
<1>7. Cardinality(AtMost(s, s[k])) \in Nat
  <2>1. AtMost(s, s[k]) \in SUBSET Places(n)
    BY <1>1 DEF AtMost
  <2> QED BY <2>1, PlacesFinite
<1>8. s[k] \in Range(s)
  BY <1>1 DEF Range
<1> QED BY <1>4, <1>5, <1>6, <1>7, <1>8 DEF HasRank

\* What is read at place k + 1 of the sorted copy is the sample of rank k of
\* whatever the copy holds the samples of.
LEMMA SortedRank ==
    ASSUME NEW n \in Nat, NEW u, NEW w, Rearranged(u, w, n), NEW k \in 0 .. n - 1
    PROVE  /\ Sorted(u)[k + 1] \in Int
           /\ Window!OfRank(w, k) = Sorted(u)[k + 1]
<1> DEFINE v == Sorted(u)[k + 1]
<1>1. u \in SeqOfLen(n) /\ w \in SeqOfLen(n)
  BY DEF Rearranged
<1>2. k + 1 \in Places(n) /\ k = (k + 1) - 1 /\ k \in Nat
  BY DEF Places
<1>3. Sorted(u) \in SeqOfLen(n)
  BY <1>1, SortedSorts DEF Rearranged
<1>4. v \in Int
  BY <1>2, <1>3 DEF SeqOfLen
<1>5. HasRank(Sorted(u), v, k)
  BY <1>1, <1>2, <1>3, SortedSorts, RankOfPlace
<1>6. HasRank(u, v, k)
  BY <1>1, <1>2, <1>4, <1>5, SortedSorts, RankKept
<1>7. HasRank(w, v, k)
  BY <1>2, <1>4, <1>6, RankKept
<1> QED BY <1>1, <1>2, <1>4, <1>7, RankChosen

-----------------------------------------------------------------------------
(* A Snapshot computed from a copy is the summary of the window.            *)

\* The index of a percentile is inside the copy.
LEMMA PercentileIndex ==
    ASSUME NEW n \in Nat \ {0}, NEW p \in 0 .. 100
    PROVE  (p * (n - 1)) \div 100 \in 0 .. n - 1
<1> DEFINE x == p * (n - 1)
<1>1. x \in Nat /\ x <= 100 * (n - 1)
  OBVIOUS
<1> HIDE DEF x
<1>2. x \div 100 \in 0 .. n - 1
  BY <1>1
<1> QED BY <1>2 DEF x

\* What is computed from u is the summary of w, whenever u holds the samples of w:
\* the count, the extremes and the three percentiles.
LEMMA ComputedIsSummary ==
    ASSUME NEW n \in Nat, NEW u, NEW w, Rearranged(u, w, n)
    PROVE  /\ Computed(u) \in [{"count", "min", "p50", "p95", "p99", "max"} -> Int]
           /\ Computed(u) = Window!Summary(w)
<1>1. DOMAIN u = 1 .. n /\ DOMAIN w = 1 .. n
  BY DEF Rearranged, SeqOfLen, Places
<1>2. u \in Seq(Int) /\ w \in Seq(Int) /\ Len(u) = n /\ Len(w) = n
  BY DEF Rearranged, SeqOfLen, Places
<1>3. CASE n = 0
  <2>1. u = <<>> /\ w = <<>>
    BY <1>2, <1>3
  <2>2. Empty = Window!Empty
    BY DEF Empty, Window!Empty
  <2> QED BY <2>1, <2>2 DEF Computed, Window!Summary, Empty
<1>4. CASE n # 0
  <2> DEFINE s == Sorted(u)
             last == n - 1
  <2>1. u # <<>> /\ w # <<>>
    BY <1>2, <1>4
  <2>2. Len(s) = n
    <3>1. s \in SeqOfLen(n)
      BY SortedSorts DEF Rearranged
    <3> QED BY <3>1 DEF SeqOfLen, Places
  <2>3. \A k \in 0 .. last : s[k + 1] \in Int /\ Window!OfRank(w, k) = s[k + 1]
    BY SortedRank
  <2>4. last \in Nat /\ 0 \in 0 .. last /\ last \in 0 .. last /\ last + 1 = n
    BY <1>4
  <2>5. /\ (50 * last) \div 100 \in 0 .. last
        /\ (95 * last) \div 100 \in 0 .. last
        /\ (99 * last) \div 100 \in 0 .. last
    BY <1>4, PercentileIndex
  <2> HIDE DEF s, last
  <2>6. /\ s[1] \in Int /\ Window!OfRank(w, 0) = s[1]
        /\ s[n] \in Int /\ Window!OfRank(w, last) = s[n]
    BY <2>3, <2>4
  <2>7. /\ s[(50 * last) \div 100 + 1] \in Int
        /\ Window!OfRank(w, (50 * last) \div 100) = s[(50 * last) \div 100 + 1]
        /\ s[(95 * last) \div 100 + 1] \in Int
        /\ Window!OfRank(w, (95 * last) \div 100) = s[(95 * last) \div 100 + 1]
        /\ s[(99 * last) \div 100 + 1] \in Int
        /\ Window!OfRank(w, (99 * last) \div 100) = s[(99 * last) \div 100 + 1]
    BY <2>3, <2>5
  <2>8. Computed(u) = [count |-> n, min |-> s[1], p50 |-> s[(50 * last) \div 100 + 1],
                       p95 |-> s[(95 * last) \div 100 + 1],
                       p99 |-> s[(99 * last) \div 100 + 1], max |-> s[n]]
    BY <1>2, <2>1, <2>2 DEF Computed, Percentile, s, last
  <2>9. Window!Summary(w) =
            [count |-> n, min |-> Window!OfRank(w, 0),
             p50 |-> Window!OfRank(w, (50 * last) \div 100),
             p95 |-> Window!OfRank(w, (95 * last) \div 100),
             p99 |-> Window!OfRank(w, (99 * last) \div 100),
             max |-> Window!OfRank(w, last)]
    BY <1>2, <2>1 DEF Window!Summary, last
  <2> QED BY <2>6, <2>7, <2>8, <2>9
<1> QED BY <1>3, <1>4

-----------------------------------------------------------------------------
(* The types, and the copy that a reader takes.                             *)

\* Durations are integers, and so is the zero that the buffer is made of.
LEMMA SampleTypes == Samples \subseteq Int
BY RecorderAssumption DEF Samples

\* The buffer holds at most Capacity samples.
LEMMA HeldBounded == TypeOK => Held \in 0 .. Capacity
BY RecorderAssumption DEF TypeOK, Held

\* A sequence rearranges itself.
LEMMA RearrangesItself ==
    ASSUME NEW n \in Nat, NEW w \in SeqOfLen(n) PROVE Rearranged(w, w, n)
<1> DEFINE p == [i \in Places(n) |-> i]
<1>1. p \in Bijection(Places(n), Places(n))
  BY DEF Bijection, Injection, Surjection, IsInjective
<1>2. \A i \in Places(n) : w[i] = w[p[i]]
  OBVIOUS
<1> QED BY <1>1, <1>2 DEF Rearranged

\* The types hold in the initial state, whose buffer is made of zeros.
LEMMA TypeInit == Init => TypeOK
<1> SUFFICES ASSUME Init PROVE TypeOK
  OBVIOUS
<1>1. Capacity \in Nat /\ Capacity > 0
  BY RecorderAssumption
<1>2. samples \in [0 .. Capacity - 1 -> Samples]
  BY DEF Init, Samples
<1>3. next \in 0 .. Capacity - 1 /\ full \in BOOLEAN /\ reader \in {"idle", "copied"}
  BY <1>1 DEF Init
<1>4. data \in Seq(Samples) /\ Len(data) <= Capacity
  BY <1>1 DEF Init
<1>5. result \in [{"count", "min", "p50", "p95", "p99", "max"} -> Int]
  BY DEF Init, Empty
<1> QED BY <1>2, <1>3, <1>4, <1>5 DEF TypeOK

\* Every step keeps the types.
LEMMA TypeStep == TypeOK /\ [Next]_vars => TypeOK'
<1> SUFFICES ASSUME TypeOK, [Next]_vars PROVE TypeOK'
  OBVIOUS
<1> USE RecorderAssumption
<1>1. ASSUME NEW d \in Durations, Record(d) PROVE TypeOK'
  BY <1>1 DEF TypeOK, Record, Samples
<1>2. CASE Copy
  <2>1. Held \in 0 .. Capacity
    BY HeldBounded
  <2>2. data' \in Seq(Samples) /\ Len(data') = Held
    BY <1>2, <2>1 DEF Copy, TypeOK
  <2> QED BY <1>2, <2>1, <2>2 DEF Copy, TypeOK
<1>3. CASE Compute
  <2>1. Len(data) \in Nat /\ data \in [1 .. Len(data) -> Samples]
    BY DEF TypeOK
  <2>2. Len(data) \in Nat /\ data \in SeqOfLen(Len(data))
    BY <2>1, SampleTypes DEF SeqOfLen, Places
  <2>3. Computed(data) \in [{"count", "min", "p50", "p95", "p99", "max"} -> Int]
    BY <2>2, RearrangesItself, ComputedIsSummary
  <2> QED BY <1>3, <2>3 DEF Compute, TypeOK
<1>4. CASE UNCHANGED vars
  BY <1>4 DEF vars, TypeOK
<1> QED BY <1>1, <1>2, <1>3, <1>4 DEF Next

\* The place of the next sample stays inside the buffer (Record), and a reader's
\* answer is made of integers, for every length of the buffer.
THEOREM TypeCorrect == Spec => []TypeOK
BY TypeInit, TypeStep, PTL DEF Spec

-----------------------------------------------------------------------------
(* The window in the circular buffer.                                       *)

\* Indices are taken modulo the length of the buffer, and never pass it twice.
LEMMA Wrapped ==
    ASSUME NEW x \in 0 .. 2 * Capacity - 1
    PROVE  x % Capacity = IF x < Capacity THEN x ELSE x - Capacity
<1>1. Capacity \in Nat /\ Capacity > 0
  BY RecorderAssumption
<1>2. CASE x < Capacity
  BY <1>1, <1>2
<1>3. CASE ~ (x < Capacity)
  <2> DEFINE y == x - Capacity
  <2>1. y \in Nat /\ y < Capacity /\ x = Capacity * 1 + y
    BY <1>1, <1>3
  <2> QED BY <1>1, <1>3, <2>1
<1> QED BY <1>2, <1>3

\* Where the i-th oldest sample is.
Slot(i) == LET x == Oldest + i - 1 IN IF x < Capacity THEN x ELSE x - Capacity

Slotted ==
    /\ InOrder = [i \in 1 .. Held |-> samples[Slot(i)]]
    /\ \A i \in 1 .. Held : Slot(i) \in 0 .. Held - 1

\* The window, by the places of the buffer.
LEMMA InOrderMeans == TypeOK => Slotted
<1> SUFFICES ASSUME TypeOK PROVE Slotted
  OBVIOUS
<1>1. Capacity \in Nat /\ Capacity > 0 /\ next \in 0 .. Capacity - 1 /\ full \in BOOLEAN
  BY RecorderAssumption DEF TypeOK
<1>2. ASSUME NEW i \in 1 .. Held
      PROVE  /\ (Oldest + i - 1) \in 0 .. 2 * Capacity - 1
             /\ Slot(i) \in 0 .. Held - 1
  BY <1>1 DEF Held, Oldest, Slot
<1>3. \A i \in 1 .. Held : (Oldest + i - 1) % Capacity = Slot(i)
  BY <1>2, Wrapped DEF Slot
<1> QED BY <1>2, <1>3 DEF InOrder, Slotted

\* The first Held places of the buffer, which a reader copies, hold the samples of
\* the window, from another one on.
LEMMA CopyRearranges ==
    ASSUME TypeOK
    PROVE  Rearranged([i \in 1 .. Held |-> samples[i - 1]], InOrder, Held)
<1> DEFINE c == [i \in 1 .. Held |-> samples[i - 1]]
           p == [i \in 1 .. Held |-> IF i - 1 >= Oldest THEN i - Oldest
                                     ELSE i - Oldest + Capacity]
<1>0. \A j \in 0 .. Capacity - 1 : samples[j] \in Int
  <2>1. \A j \in 0 .. Capacity - 1 : samples[j] \in Samples
    BY DEF TypeOK
  <2> QED BY <2>1, SampleTypes
<1>1. Capacity \in Nat /\ Capacity > 0 /\ next \in 0 .. Capacity - 1 /\ full \in BOOLEAN
  BY RecorderAssumption DEF TypeOK
<1>2. Held \in 0 .. Capacity /\ Held \in Nat
  BY <1>1, HeldBounded
<1>3. InOrder = [i \in 1 .. Held |-> samples[Slot(i)]]
      /\ \A i \in 1 .. Held : Slot(i) \in 0 .. Held - 1
  BY InOrderMeans DEF Slotted
<1>4. c \in SeqOfLen(Held)
  BY <1>0, <1>1, <1>2 DEF SeqOfLen, Places
<1>5. InOrder \in SeqOfLen(Held)
  BY <1>0, <1>1, <1>2, <1>3 DEF SeqOfLen, Places
<1>6. ASSUME NEW i \in 1 .. Held
      PROVE  /\ p[i] \in 1 .. Held
             /\ Slot(p[i]) = i - 1
  BY <1>1 DEF Held, Oldest, Slot
<1>7. ASSUME NEW i \in 1 .. Held
      PROVE  /\ Slot(i) + 1 \in 1 .. Held
             /\ p[Slot(i) + 1] = i
  BY <1>1 DEF Held, Oldest, Slot
<1>8. p \in Bijection(Places(Held), Places(Held))
  <2>1. p \in [1 .. Held -> 1 .. Held]
    BY <1>6
  <2>2. IsInjective(p)
    <3>1. ASSUME NEW i \in 1 .. Held, NEW j \in 1 .. Held, p[i] = p[j] PROVE i = j
      <4>1. i - 1 = j - 1
        BY <1>6, <3>1
      <4> QED BY <4>1
    <3> QED BY <3>1 DEF IsInjective
  <2>3. \A t \in 1 .. Held : \E i \in 1 .. Held : p[i] = t
    BY <1>7
  <2> HIDE DEF p
  <2> QED BY <2>1, <2>2, <2>3 DEF Bijection, Injection, Surjection, Places
<1>9. \A i \in Places(Held) : c[i] = InOrder[p[i]]
  BY <1>3, <1>6 DEF Places
<1> QED BY <1>4, <1>5, <1>8, <1>9 DEF Rearranged

-----------------------------------------------------------------------------
(* The refinement.                                                          *)

\* What a caller of Snapshot gets, from the moment of the copy on.
Answer == IF reader = "copied" THEN Computed(data) ELSE result

\* A recorder starts with an empty window.
LEMMA WindowInit == Init => Window!Init
<1> SUFFICES ASSUME Init PROVE Window!Init
  OBVIOUS
<1>1. InOrder = <<>>
  BY DEF Init, InOrder, Held
<1>2. Answer = Empty /\ Empty = Window!Empty
  BY DEF Init, Answer, Empty, Window!Empty
<1> QED BY <1>1, <1>2 DEF Window!Init, Answer

\* Append puts one element behind the others.
LEMMA AppendMeans ==
    ASSUME NEW S, NEW t \in Seq(S), NEW e \in S
    PROVE  Append(t, e) = [i \in 1 .. Len(t) + 1 |-> IF i = Len(t) + 1 THEN e ELSE t[i]]
<1> DEFINE a == Append(t, e)
           b == [i \in 1 .. Len(t) + 1 |-> IF i = Len(t) + 1 THEN e ELSE t[i]]
<1>1. Len(t) \in Nat /\ \A i \in 1 .. Len(t) : t[i] \in S
  OBVIOUS
<1>2. /\ a \in Seq(S) /\ Len(a) = Len(t) + 1 /\ a[Len(t) + 1] = e
      /\ \A i \in 1 .. Len(t) : a[i] = t[i]
  BY AppendProperties
<1>3. b \in Seq(S) /\ Len(b) = Len(t) + 1
  BY <1>1
<1>4. \A i \in 1 .. Len(t) + 1 : b[i] = IF i = Len(t) + 1 THEN e ELSE t[i]
  OBVIOUS
<1> HIDE DEF a, b
<1>5. a = b
  BY <1>1, <1>2, <1>3, <1>4, SeqEqual
<1> QED BY <1>5 DEF a, b

\* A sample takes the place of the oldest one, or a free one.
LEMMA RecordRefines ==
    ASSUME TypeOK, TypeOK', NEW d \in Durations, Record(d)
    PROVE  Window!Record(d)
<1>1. /\ Capacity \in Nat /\ Capacity > 0 /\ next \in 0 .. Capacity - 1 /\ full \in BOOLEAN
      /\ samples \in [0 .. Capacity - 1 -> Samples]
  BY RecorderAssumption DEF TypeOK
<1>2. InOrder = [i \in 1 .. Held |-> samples[Slot(i)]]
      /\ \A i \in 1 .. Held : Slot(i) \in 0 .. Held - 1
  BY InOrderMeans DEF Slotted
<1>3. InOrder' = [i \in 1 .. Held' |-> samples'[Slot(i)']]
  <2>1. TypeOK' => Slotted'
    BY InOrderMeans, PTL
  <2> QED BY <2>1 DEF Slotted
<1>4. Held \in 0 .. Capacity /\ Len(InOrder) = Held
  BY <1>2, HeldBounded
<1>5. next + 1 = Capacity \/ next + 1 < Capacity
  BY <1>1
<1>6. /\ samples' = [samples EXCEPT ![next] = d]
      /\ next' = IF next + 1 = Capacity THEN 0 ELSE next + 1
      /\ full' = (full \/ next + 1 = Capacity)
  BY DEF Record
<1>7. CASE full = FALSE
  <2>1. Held = next /\ Oldest = 0
    BY <1>7 DEF Held, Oldest
  <2>2. Held' = next + 1 /\ Oldest' = 0
    <3>1. CASE next + 1 = Capacity
      <4>1. full' = TRUE /\ next' = 0
        BY <1>6, <3>1
      <4> QED BY <3>1, <4>1 DEF Held, Oldest
    <3>2. CASE next + 1 < Capacity
      <4>1. next + 1 # Capacity
        BY <1>1, <3>2
      <4>2. full' = FALSE /\ next' = next + 1
        BY <1>6, <1>7, <4>1
      <4> QED BY <4>2 DEF Held, Oldest
    <3> QED BY <1>5, <3>1, <3>2
  <2>3. ASSUME NEW i \in 1 .. next + 1
        PROVE  samples'[Slot(i)'] = IF i = next + 1 THEN d ELSE samples[Slot(i)]
    <3>1. Slot(i) = i - 1 /\ Slot(i)' = i - 1
      BY <1>1, <2>1, <2>2 DEF Slot
    <3> QED BY <1>1, <1>6, <3>1
  <2>4. InOrder' = [i \in 1 .. next + 1 |-> IF i = next + 1 THEN d ELSE samples[Slot(i)]]
    BY <1>3, <2>2, <2>3
  <2>5. InOrder' = Append(InOrder, d)
    BY <1>1, <1>2, <2>1, <2>4
  <2>6. Len(InOrder) < Capacity
    BY <1>1, <1>4, <2>1
  <2> QED BY <2>5, <2>6 DEF Window!Record, Record
<1>8. CASE full = TRUE
  <2>1. Held = Capacity /\ Oldest = next
    BY <1>8 DEF Held, Oldest
  <2>2. full' = TRUE
    BY <1>6, <1>8
  <2>3. Held' = Capacity /\ Oldest' = next'
    BY <2>2 DEF Held, Oldest
  <2>4. ASSUME NEW i \in 1 .. Capacity
        PROVE  samples'[Slot(i)'] = IF i = Capacity THEN d ELSE samples[Slot(i + 1)]
    <3>1. CASE i = Capacity
      <4>1. Slot(i)' = next
        BY <1>1, <1>6, <2>3, <3>1 DEF Slot
      <4> QED BY <1>1, <1>6, <3>1, <4>1
    <3>2. CASE i < Capacity
      <4>1. Slot(i)' = Slot(i + 1) /\ Slot(i + 1) # next /\ Slot(i + 1) \in 0 .. Capacity - 1
        BY <1>1, <1>6, <2>1, <2>3, <3>2 DEF Slot
      <4> QED BY <1>1, <1>6, <3>2, <4>1
    <3> QED BY <3>1, <3>2, <1>1
  <2>5. InOrder' = [i \in 1 .. Capacity |-> IF i = Capacity THEN d ELSE samples[Slot(i + 1)]]
    BY <1>3, <2>3, <2>4
  <2>6. InOrder' = Append(Tail(InOrder), d)
    <3>1. InOrder = [i \in 1 .. Capacity |-> samples[Slot(i)]]
      BY <1>2, <2>1
    <3>2. InOrder # <<>> /\ Len(InOrder) = Capacity
      BY <1>1, <1>4, <2>1, <3>1
    <3>3. Tail(InOrder) = [i \in 1 .. Capacity - 1 |-> samples[Slot(i + 1)]]
      BY <1>1, <3>1, <3>2
    <3>4. \A i \in 1 .. Capacity - 1 : samples[Slot(i + 1)] \in Samples
      BY <1>1, <1>2, <2>1
    <3> DEFINE t == Tail(InOrder)
    <3>5. t \in Seq(Samples) /\ Len(t) = Capacity - 1
      BY <1>1, <3>3, <3>4
    <3>6. \A i \in 1 .. Capacity - 1 : t[i] = samples[Slot(i + 1)]
      BY <3>3
    <3> HIDE DEF t
    <3>7. Append(t, d) = [i \in 1 .. Capacity |-> IF i = Capacity THEN d ELSE t[i]]
      <4>1. d \in Samples /\ Capacity = Len(t) + 1
        BY <1>1, <3>5 DEF Samples
      <4>2. Append(t, d) = [i \in 1 .. Len(t) + 1 |-> IF i = Len(t) + 1 THEN d ELSE t[i]]
        BY <3>5, <4>1, AppendMeans
      <4> QED BY <4>1, <4>2
    <3>8. \A i \in 1 .. Capacity : i # Capacity => t[i] = samples[Slot(i + 1)]
      BY <1>1, <3>6
    <3> QED BY <2>5, <3>7, <3>8 DEF t
  <2>7. ~ (Len(InOrder) < Capacity)
    BY <1>1, <1>4, <2>1
  <2> QED BY <2>6, <2>7 DEF Window!Record, Record
<1> QED BY <1>1, <1>7, <1>8

\* Every step is one of the window's, or none: a copy answers the caller at once,
\* and computing the answer changes nothing that can be seen.
LEMMA WindowStep ==
    TypeOK /\ TypeOK' /\ [Next]_vars => [Window!Next]_<<InOrder, Answer>>
<1> SUFFICES ASSUME TypeOK, TypeOK', [Next]_vars
             PROVE  [Window!Next]_<<InOrder, Answer>>
  OBVIOUS
<1>1. ASSUME NEW d \in Durations, Record(d) PROVE Window!Next
  BY <1>1, RecordRefines DEF Window!Next
<1>2. CASE Copy
  <2>1. Held \in Nat /\ data' = [i \in 1 .. Held |-> samples[i - 1]]
    BY <1>2, RecorderAssumption, HeldBounded DEF Copy
  <2>2. Computed(data') = Window!Summary(InOrder)
    BY <2>1, CopyRearranges, ComputedIsSummary
  <2>3. Answer' = Computed(data')
    BY <1>2 DEF Copy, Answer
  <2>4. InOrder' = InOrder
    BY <1>2 DEF Copy, InOrder, Held, Oldest
  <2>5. Window!Snapshot
    BY <2>2, <2>3, <2>4 DEF Window!Snapshot, Answer
  <2> QED BY <2>5 DEF Window!Next
<1>3. CASE Compute
  <2>1. InOrder' = InOrder
    BY <1>3 DEF Compute, InOrder, Held, Oldest
  <2>2. Answer = Computed(data) /\ Answer' = Computed(data)
    BY <1>3 DEF Compute, Answer
  <2> QED BY <2>1, <2>2
<1>4. CASE UNCHANGED vars
  <2>1. InOrder' = InOrder /\ Answer' = Answer
    BY <1>4 DEF vars, InOrder, Held, Oldest, Answer
  <2> QED BY <2>1
<1> QED BY <1>1, <1>2, <1>3, <1>4 DEF Next

\* The circular buffer implements the window of the last Capacity samples, whatever
\* Capacity is: wrapping loses the oldest sample and no other, and a Snapshot, which
\* is computed from a copy after the mutex is released, is what the samples held at
\* the moment of the copy amount to, each percentile being the sample of its rank.
THEOREM WindowImplemented == Spec => ImplementsWindow
<1>1. TypeOK /\ [Next]_vars => TypeOK'
  BY TypeStep
<1>2. ImplementsWindow <=> Window!Init /\ [][Window!Next]_<<InOrder, Answer>>
  BY DEF ImplementsWindow, Window!Spec, Answer
<1> QED BY TypeInit, <1>1, <1>2, WindowInit, WindowStep, PTL DEF Spec
===============================================================================
