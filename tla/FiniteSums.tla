------------------------------- MODULE FiniteSums -------------------------------
(***************************************************************************)
(* Facts about SumFunction and about counting, for finite sets of any size. *)
(* SumFunctionOnSet picks the elements of its set one by one, recursively,  *)
(* in an order nobody knows.  The proofs by induction go by a smallest      *)
(* counterexample: a set of finite sets has one that includes no other.     *)
(***************************************************************************)
EXTENDS Integers, Functions, FiniteSetTheorems, TLAPS

\* A family of subsets of a finite set has a minimal member.
LEMMA MinimalSet ==
    ASSUME NEW S, IsFiniteSet(S), NEW F, F \subseteq SUBSET S, F # {}
    PROVE  \E m \in F : \A t \in F : t \subseteq m => t = m
<1>1. IsWellFoundedOn(StrictSubsetOrdering(S), SUBSET S)
  BY FS_StrictSubsetOrderingWellFounded, FS_FiniteSubsetsOfFinite
<1>2. PICK m \in F : \A t \in F : <<t, m>> \notin StrictSubsetOrdering(S)
  BY <1>1, WFMin
<1>3. ASSUME NEW t \in F, t \subseteq m, t # m PROVE FALSE
  BY <1>2, <1>3 DEF StrictSubsetOrdering
<1> QED BY <1>3

-----------------------------------------------------------------------------
(* The recursion of SumFunctionOnSet is sound.                              *)

Pick(s) == CHOOSE x \in s : TRUE

\* g holds the sums of f over the subsets of S.
IsSum(g, f, S) ==
    g = [s \in SUBSET S |-> IF s = {} THEN 0 ELSE f[Pick(s)] + g[s \ {Pick(s)}]]

\* CHOOSE takes an element if there is one.
LEMMA PickIn == \A s : s # {} => Pick(s) \in s
BY DEF Pick

\* Two summations agree on whatever both of them cover.
LEMMA SumUnique ==
    ASSUME NEW S, IsFiniteSet(S), NEW T \in SUBSET S, NEW f, NEW g, NEW h,
           IsSum(g, f, T), IsSum(h, f, S), NEW u \in SUBSET T
    PROVE  g[u] = h[u]
<1> DEFINE F == {s \in SUBSET T : g[s] # h[s]}
<1> SUFFICES ASSUME F # {} PROVE FALSE
  OBVIOUS
<1>1. PICK m \in F : \A t \in F : t \subseteq m => t = m
  <2>1. F \subseteq SUBSET S
    OBVIOUS
  <2> HIDE DEF F
  <2> QED BY <2>1, MinimalSet
<1>2. m # {}
  BY DEF IsSum
<1>3. m \ {Pick(m)} \notin F
  BY <1>1, <1>2, PickIn
<1>4. g[m \ {Pick(m)}] = h[m \ {Pick(m)}]
  BY <1>3
<1>5. g[m] = f[Pick(m)] + g[m \ {Pick(m)}]
  BY <1>2 DEF IsSum
<1>6. h[m] = f[Pick(m)] + h[m \ {Pick(m)}]
  BY <1>2 DEF IsSum
<1> QED BY <1>4, <1>5, <1>6

\* There is a summation over every finite set.
LEMMA SumExists ==
    ASSUME NEW S, IsFiniteSet(S), NEW f PROVE \E g : IsSum(g, f, S)
<1> DEFINE F == {T \in SUBSET S : ~ \E g : IsSum(g, f, T)}
<1> SUFFICES ASSUME F # {} PROVE FALSE
  OBVIOUS
<1>1. PICK m \in F : \A t \in F : t \subseteq m => t = m
  <2>1. F \subseteq SUBSET S
    OBVIOUS
  <2> HIDE DEF F
  <2> QED BY <2>1, MinimalSet
<1> DEFINE G(t) == CHOOSE g : IsSum(g, f, t)
           sum == [s \in SUBSET m |->
                      IF s = {} THEN 0 ELSE f[Pick(s)] + G(s \ {Pick(s)})[s \ {Pick(s)}]]
<1>2. ASSUME NEW t \in SUBSET m, t # m PROVE IsSum(G(t), f, t)
  BY <1>1, <1>2
<1>3. ASSUME NEW t \in SUBSET m, t # m PROVE sum[t] = G(t)[t]
  <2>1. CASE t = {}
    <3>1. IsSum(G(t), f, t)
      BY <1>2, <1>3
    <3>2. sum[t] = 0
      BY <2>1
    <3> HIDE DEF G
    <3> QED BY <2>1, <3>1, <3>2 DEF IsSum
  <2>2. CASE t # {}
    <3> DEFINE u == t \ {Pick(t)}
    <3>1. u \in SUBSET t /\ u # m /\ u \in SUBSET m
      BY <2>2, PickIn
    <3>2. IsSum(G(t), f, t) /\ IsSum(G(u), f, u)
      BY <3>1, <1>2, <1>3
    <3>3. IsFiniteSet(t)
      BY FS_Subset
    <3> HIDE DEF G
    <3>4. G(u)[u] = G(t)[u]
      BY <3>1, <3>2, <3>3, SumUnique
    <3>5. G(t)[t] = f[Pick(t)] + G(t)[u]
      BY <2>2, <3>2 DEF IsSum
    <3>6. sum[t] = f[Pick(t)] + G(u)[u]
      BY <2>2
    <3> QED BY <3>4, <3>5, <3>6
  <2> QED BY <2>1, <2>2
<1> HIDE DEF G
<1>4. ASSUME NEW s \in SUBSET m, s # {}
      PROVE  sum[s \ {Pick(s)}] = G(s \ {Pick(s)})[s \ {Pick(s)}]
  <2>1. s \ {Pick(s)} \in SUBSET m /\ s \ {Pick(s)} # m
    BY <1>4, PickIn
  <2> QED BY <2>1, <1>3
<1>5. sum = [s \in SUBSET m |-> IF s = {} THEN 0 ELSE f[Pick(s)] + sum[s \ {Pick(s)}]]
  <2> DEFINE R == [s \in SUBSET m |-> IF s = {} THEN 0 ELSE f[Pick(s)] + sum[s \ {Pick(s)}]]
  <2>1. ASSUME NEW s \in SUBSET m PROVE sum[s] = R[s]
    BY <1>4
  <2> QED BY <2>1
<1>6. IsSum(sum, f, m)
  BY <1>5 DEF IsSum
<1> QED BY <1>6

-----------------------------------------------------------------------------
(* SumFunctionOnSet.                                                        *)

\* What the definition comes to: nothing, or one picked element and the rest.
LEMMA SumStep ==
    ASSUME NEW S, IsFiniteSet(S), NEW f
    PROVE  SumFunctionOnSet(f, S) =
               IF S = {} THEN 0
               ELSE f[Pick(S)] + SumFunctionOnSet(f, S \ {Pick(S)})
<1> DEFINE iter(T) == CHOOSE g : IsSum(g, f, T)
<1>1. ASSUME NEW T \in SUBSET S PROVE IsSum(iter(T), f, T)
  BY SumExists, FS_Subset
<1>2. ASSUME NEW T \in SUBSET S PROVE SumFunctionOnSet(f, T) = iter(T)[T]
  BY DEF SumFunctionOnSet, FoldFunctionOnSet, MapThenFoldSet, IsSum, Pick
<1> HIDE DEF iter
<1>3. CASE S = {}
  BY <1>1, <1>2, <1>3 DEF IsSum
<1>4. CASE S # {}
  <2> DEFINE R == S \ {Pick(S)}
  <2>1. iter(S)[S] = f[Pick(S)] + iter(S)[R]
    BY <1>1, <1>4 DEF IsSum
  <2>2. iter(R)[R] = iter(S)[R]
    BY <1>1, SumUnique
  <2> QED BY <1>2, <1>4, <2>1, <2>2
<1> QED BY <1>3, <1>4

\* The empty sum.
LEMMA SumEmpty == ASSUME NEW f PROVE SumFunctionOnSet(f, {}) = 0
BY SumStep, FS_EmptySet

\* A sum of integers is one, a sum of naturals is one.
LEMMA SumType ==
    ASSUME NEW S, IsFiniteSet(S), NEW f, NEW N, N \in {Nat, Int}, \A x \in S : f[x] \in N
    PROVE  SumFunctionOnSet(f, S) \in N
<1> DEFINE F == {T \in SUBSET S : SumFunctionOnSet(f, T) \notin N}
<1> SUFFICES ASSUME F # {} PROVE FALSE
  OBVIOUS
<1>1. PICK m \in F : \A t \in F : t \subseteq m => t = m
  <2>1. F \subseteq SUBSET S
    OBVIOUS
  <2> HIDE DEF F
  <2> QED BY <2>1, MinimalSet
<1>2. CASE m = {}
  BY <1>2, SumEmpty
<1>3. CASE m # {}
  <2> DEFINE r == m \ {Pick(m)}
  <2>1. Pick(m) \in m /\ IsFiniteSet(m)
    BY <1>3, PickIn, FS_Subset
  <2>2. SumFunctionOnSet(f, m) = f[Pick(m)] + SumFunctionOnSet(f, r)
    BY <1>3, <2>1, SumStep
  <2>3. SumFunctionOnSet(f, r) \in N
    BY <1>1, <2>1
  <2>4. f[Pick(m)] \in N
    BY <2>1
  <2>5. SumFunctionOnSet(f, m) \notin N
    OBVIOUS
  <2> HIDE DEF r, F
  <2> QED BY <2>2, <2>3, <2>4, <2>5
<1> QED BY <1>2, <1>3

\* Any element may be the first one.
LEMMA SumRemove ==
    ASSUME NEW S, IsFiniteSet(S), NEW f, \A x \in S : f[x] \in Int, NEW e \in S
    PROVE  SumFunctionOnSet(f, S) = f[e] + SumFunctionOnSet(f, S \ {e})
<1> DEFINE Sum(T) == SumFunctionOnSet(f, T)
           F == {T \in SUBSET S : \E x \in T : Sum(T) # f[x] + Sum(T \ {x})}
<1> SUFFICES ASSUME F # {} PROVE FALSE
  OBVIOUS
<1>1. PICK m \in F : \A t \in F : t \subseteq m => t = m
  <2>1. F \subseteq SUBSET S
    OBVIOUS
  <2> HIDE DEF F
  <2> QED BY <2>1, MinimalSet
<1>2. PICK x \in m : Sum(m) # f[x] + Sum(m \ {x})
  OBVIOUS
<1> DEFINE p == Pick(m)
           r == m \ {p, x}
<1>3. p \in m
  BY PickIn
<1>4. Sum(m) = f[p] + Sum(m \ {p})
  <2>1. IsFiniteSet(m)
    BY FS_Subset
  <2> QED BY <2>1, SumStep
<1>5. p # x
  BY <1>2, <1>4
<1>6. Sum(m \ {p}) = f[x] + Sum(r)
  <2>1. m \ {p} \notin F
    BY <1>1, <1>3
  <2>2. x \in m \ {p} /\ r = (m \ {p}) \ {x}
    BY <1>5
  <2> QED BY <2>1, <2>2
<1>7. Sum(m \ {x}) = f[p] + Sum(r)
  <2>1. m \ {x} \notin F
    BY <1>1
  <2>2. p \in m \ {x} /\ r = (m \ {x}) \ {p}
    BY <1>3, <1>5
  <2> QED BY <2>1, <2>2
<1>8. f[p] \in Int /\ f[x] \in Int /\ Sum(r) \in Int
  <2>1. IsFiniteSet(r) /\ r \in SUBSET S
    BY FS_Subset
  <2> QED BY <2>1, <1>3, SumType
<1> HIDE DEF Sum, p, r
<1> QED BY <1>2, <1>4, <1>6, <1>7, <1>8

\* One more summand.
LEMMA SumAdd ==
    ASSUME NEW S, IsFiniteSet(S), NEW e, e \notin S, NEW f,
           \A x \in S \cup {e} : f[x] \in Int
    PROVE  SumFunctionOnSet(f, S \cup {e}) = f[e] + SumFunctionOnSet(f, S)
<1>1. IsFiniteSet(S \cup {e}) /\ (S \cup {e}) \ {e} = S
  BY FS_AddElement
<1> QED BY <1>1, SumRemove

\* A sum depends on the values in its set only.
LEMMA SumSame ==
    ASSUME NEW S, IsFiniteSet(S), NEW f, NEW g, \A x \in S : f[x] = g[x]
    PROVE  SumFunctionOnSet(f, S) = SumFunctionOnSet(g, S)
<1> DEFINE F == {T \in SUBSET S : SumFunctionOnSet(f, T) # SumFunctionOnSet(g, T)}
<1> SUFFICES ASSUME F # {} PROVE FALSE
  OBVIOUS
<1>1. PICK m \in F : \A t \in F : t \subseteq m => t = m
  <2>1. F \subseteq SUBSET S
    OBVIOUS
  <2> HIDE DEF F
  <2> QED BY <2>1, MinimalSet
<1>2. m # {}
  BY SumEmpty
<1>3. Pick(m) \in m /\ IsFiniteSet(m)
  BY <1>2, PickIn, FS_Subset
<1> DEFINE r == m \ {Pick(m)}
<1>4. SumFunctionOnSet(f, r) = SumFunctionOnSet(g, r)
  BY <1>1, <1>3
<1>5. /\ SumFunctionOnSet(f, m) = f[Pick(m)] + SumFunctionOnSet(f, r)
      /\ SumFunctionOnSet(g, m) = g[Pick(m)] + SumFunctionOnSet(g, r)
  BY <1>2, <1>3, SumStep
<1> QED BY <1>3, <1>4, <1>5

\* One value changes: the sum changes by as much.
LEMMA SumChange ==
    ASSUME NEW S, IsFiniteSet(S), NEW f, NEW g, NEW e \in S,
           \A x \in S : f[x] \in Int /\ g[x] \in Int,
           \A x \in S \ {e} : f[x] = g[x]
    PROVE  SumFunctionOnSet(g, S) = SumFunctionOnSet(f, S) - f[e] + g[e]
<1>1. IsFiniteSet(S \ {e})
  BY FS_Subset
<1>2. SumFunctionOnSet(f, S \ {e}) = SumFunctionOnSet(g, S \ {e})
  BY <1>1, SumSame
<1>3. SumFunctionOnSet(f, S \ {e}) \in Int
  BY <1>1, SumType
<1>4. /\ SumFunctionOnSet(f, S) = f[e] + SumFunctionOnSet(f, S \ {e})
      /\ SumFunctionOnSet(g, S) = g[e] + SumFunctionOnSet(g, S \ {e})
  BY SumRemove
<1> QED BY <1>2, <1>3, <1>4

\* A sum of zeros.
LEMMA SumZero ==
    ASSUME NEW S, IsFiniteSet(S), NEW f, \A x \in S : f[x] = 0
    PROVE  SumFunctionOnSet(f, S) = 0
<1> DEFINE F == {T \in SUBSET S : SumFunctionOnSet(f, T) # 0}
<1> SUFFICES ASSUME F # {} PROVE FALSE
  OBVIOUS
<1>1. PICK m \in F : \A t \in F : t \subseteq m => t = m
  <2>1. F \subseteq SUBSET S
    OBVIOUS
  <2> HIDE DEF F
  <2> QED BY <2>1, MinimalSet
<1>2. m # {}
  BY SumEmpty
<1>3. Pick(m) \in m /\ IsFiniteSet(m)
  BY <1>2, PickIn, FS_Subset
<1>4. SumFunctionOnSet(f, m \ {Pick(m)}) = 0
  BY <1>1, <1>3
<1> QED BY <1>2, <1>3, <1>4, SumStep

\* What is 0 outside a part of a set adds nothing.
LEMMA SumOutside ==
    ASSUME NEW S, IsFiniteSet(S), NEW T \in SUBSET S, NEW f,
           \A x \in S : f[x] \in Int, \A x \in S \ T : f[x] = 0
    PROVE  SumFunctionOnSet(f, S) = SumFunctionOnSet(f, T)
<1> DEFINE F == {U \in SUBSET (S \ T) : SumFunctionOnSet(f, T \cup U) # SumFunctionOnSet(f, T)}
<1>0. F = {} => SumFunctionOnSet(f, T \cup (S \ T)) = SumFunctionOnSet(f, T)
  OBVIOUS
<1>00. T \cup (S \ T) = S
  OBVIOUS
<1> SUFFICES ASSUME F # {} PROVE FALSE
  BY <1>0, <1>00, Zenon
<1>1. PICK m \in F : \A t \in F : t \subseteq m => t = m
  <2>1. F \subseteq SUBSET S
    OBVIOUS
  <2> HIDE DEF F
  <2> QED BY <2>1, MinimalSet
<1>2. m # {}
  <2>1. T \cup {} = T
    OBVIOUS
  <2> QED BY <2>1, Zenon
<1>3. PICK e : e \in m
  BY <1>2
<1> DEFINE r == m \ {e}
<1>4. SumFunctionOnSet(f, T \cup r) = SumFunctionOnSet(f, T)
  <2>1. r \in SUBSET (S \ T) /\ r \subseteq m /\ r # m
    BY <1>3
  <2>2. r \notin F
    BY <1>1, <2>1, Zenon
  <2> QED BY <2>1, <2>2, Zenon
<1>5. /\ e \in S /\ f[e] = 0 /\ e \notin T \cup r /\ (T \cup r) \cup {e} = T \cup m
      /\ T \cup r \subseteq S
  BY <1>3
<1>6. IsFiniteSet(T \cup r) /\ \A x \in (T \cup r) \cup {e} : f[x] \in Int
  BY <1>5, FS_Subset
<1>7. SumFunctionOnSet(f, T) \in Int
  BY FS_Subset, SumType
<1>8. SumFunctionOnSet(f, T \cup m) # SumFunctionOnSet(f, T)
  OBVIOUS
<1> DEFINE R == T \cup r
<1>9. SumFunctionOnSet(f, R \cup {e}) = f[e] + SumFunctionOnSet(f, R)
  <2> HIDE DEF R
  <2>1. IsFiniteSet(R) /\ e \notin R /\ \A x \in R \cup {e} : f[x] \in Int
    BY <1>5, <1>6 DEF R
  <2> QED BY <2>1, SumAdd
<1>10. SumFunctionOnSet(f, T \cup m) = f[e] + SumFunctionOnSet(f, T)
  BY <1>4, <1>5, <1>9, Zenon
<1> HIDE DEF F, r
<1> QED BY <1>5, <1>7, <1>8, <1>10

\* The sum of two functions.
LEMMA SumPlus ==
    ASSUME NEW S, IsFiniteSet(S), NEW f, NEW g, NEW h,
           \A x \in S : f[x] \in Int /\ g[x] \in Int /\ h[x] = f[x] + g[x]
    PROVE  SumFunctionOnSet(h, S) = SumFunctionOnSet(f, S) + SumFunctionOnSet(g, S)
<1> DEFINE F == {T \in SUBSET S :
                    SumFunctionOnSet(h, T) # SumFunctionOnSet(f, T) + SumFunctionOnSet(g, T)}
<1> SUFFICES ASSUME F # {} PROVE FALSE
  OBVIOUS
<1>1. PICK m \in F : \A t \in F : t \subseteq m => t = m
  <2>1. F \subseteq SUBSET S
    OBVIOUS
  <2> HIDE DEF F
  <2> QED BY <2>1, MinimalSet
<1>2. m # {}
  <2>1. /\ SumFunctionOnSet(f, {}) = 0 /\ SumFunctionOnSet(g, {}) = 0
        /\ SumFunctionOnSet(h, {}) = 0 /\ 0 = 0 + 0
    BY SumEmpty
  <2> QED BY <2>1, Zenon
<1>3. Pick(m) \in m /\ IsFiniteSet(m)
  BY <1>2, PickIn, FS_Subset
<1> DEFINE e == Pick(m)
           r == m \ {Pick(m)}
<1>4. SumFunctionOnSet(h, r) = SumFunctionOnSet(f, r) + SumFunctionOnSet(g, r)
  BY <1>1, <1>3
<1>5. /\ SumFunctionOnSet(f, m) = f[e] + SumFunctionOnSet(f, r)
      /\ SumFunctionOnSet(g, m) = g[e] + SumFunctionOnSet(g, r)
      /\ SumFunctionOnSet(h, m) = h[e] + SumFunctionOnSet(h, r)
  BY <1>2, <1>3, SumStep
<1>6. e \in S /\ IsFiniteSet(r) /\ r \subseteq S
  BY <1>3, FS_Subset
<1>7. SumFunctionOnSet(f, r) \in Int /\ SumFunctionOnSet(g, r) \in Int
  BY <1>6, SumType
<1>8. SumFunctionOnSet(h, m) # SumFunctionOnSet(f, m) + SumFunctionOnSet(g, m)
  OBVIOUS
<1>9. f[e] \in Int /\ g[e] \in Int /\ h[e] = f[e] + g[e]
  BY <1>6
<1> HIDE DEF F, e, r
<1> QED BY <1>4, <1>5, <1>7, <1>8, <1>9

\* A sum of natural numbers over part of a set is no more than that over the set.
LEMMA SumSubset ==
    ASSUME NEW S, IsFiniteSet(S), NEW T \in SUBSET S, NEW f, \A x \in S : f[x] \in Nat
    PROVE  SumFunctionOnSet(f, T) <= SumFunctionOnSet(f, S)
<1> DEFINE g == [x \in S |-> IF x \in T THEN f[x] ELSE 0]
           h == [x \in S |-> IF x \in T THEN 0 ELSE f[x]]
<1>1. /\ \A x \in S : g[x] \in Int /\ h[x] \in Nat /\ f[x] = g[x] + h[x]
      /\ \A x \in T : g[x] = f[x]
      /\ \A x \in S \ T : g[x] = 0
  OBVIOUS
<1> HIDE DEF g, h
<1>2. IsFiniteSet(T) /\ IsFiniteSet(S \ T) /\ T \cup (S \ T) = S /\ T \cap (S \ T) = {}
  BY FS_Subset
<1>3. SumFunctionOnSet(f, S) = SumFunctionOnSet(g, S) + SumFunctionOnSet(h, S)
  <2>1. \A x \in S : h[x] \in Int
    BY <1>1
  <2> QED BY <1>1, <2>1, SumPlus
<1>4. SumFunctionOnSet(h, S) \in Nat /\ SumFunctionOnSet(g, S) \in Int
  BY <1>1, SumType
<1>5. SumFunctionOnSet(g, S) = SumFunctionOnSet(g, T)
  BY <1>1, SumOutside
<1>6. SumFunctionOnSet(g, T) = SumFunctionOnSet(f, T)
  BY <1>1, <1>2, SumSame
<1> QED BY <1>3, <1>4, <1>5, <1>6

\* What grows everywhere grows in sum.
LEMMA SumGrows ==
    ASSUME NEW S, IsFiniteSet(S), NEW f, NEW g,
           \A x \in S : f[x] \in Nat /\ g[x] \in Nat /\ f[x] <= g[x]
    PROVE  SumFunctionOnSet(f, S) <= SumFunctionOnSet(g, S)
<1> DEFINE h == [x \in S |-> g[x] - f[x]]
<1>1. \A x \in S : h[x] \in Nat /\ g[x] = f[x] + h[x] /\ f[x] \in Int /\ h[x] \in Int
  OBVIOUS
<1> HIDE DEF h
<1>2. SumFunctionOnSet(g, S) = SumFunctionOnSet(f, S) + SumFunctionOnSet(h, S)
  BY <1>1, SumPlus
<1>3. SumFunctionOnSet(f, S) \in Nat /\ SumFunctionOnSet(h, S) \in Nat
  BY <1>1, SumType
<1> QED BY <1>2, <1>3

-----------------------------------------------------------------------------
(* Counting.                                                                *)

\* One element joins, leaves or stays: so much the count changes.
LEMMA CountChange ==
    ASSUME NEW S, IsFiniteSet(S), NEW T, NEW e, S \ {e} = T \ {e}
    PROVE  /\ IsFiniteSet(T) /\ Cardinality(S) \in Nat /\ Cardinality(T) \in Nat
           /\ (e \in S <=> e \in T) => Cardinality(T) = Cardinality(S)
           /\ e \in T /\ e \notin S => Cardinality(T) = Cardinality(S) + 1
           /\ e \in S /\ e \notin T => Cardinality(T) = Cardinality(S) - 1
<1>1. T \in {S, S \cup {e}, S \ {e}}
  OBVIOUS
<1>2. /\ IsFiniteSet(S \cup {e}) /\ IsFiniteSet(S \ {e})
      /\ Cardinality(S \cup {e}) = IF e \in S THEN Cardinality(S) ELSE Cardinality(S) + 1
      /\ Cardinality(S \ {e}) = IF e \in S THEN Cardinality(S) - 1 ELSE Cardinality(S)
  BY FS_AddElement, FS_RemoveElement
<1>3. IsFiniteSet(T)
  BY <1>1, <1>2
<1>4. Cardinality(S) \in Nat /\ Cardinality(T) \in Nat
  BY <1>3, FS_CardinalityType
<1>5. e \in T /\ e \notin S => T = S \cup {e}
  OBVIOUS
<1>6. e \in S /\ e \notin T => T = S \ {e}
  OBVIOUS
<1>7. (e \in S <=> e \in T) => T = S
  OBVIOUS
<1> QED BY <1>2, <1>3, <1>4, <1>5, <1>6, <1>7
===============================================================================
