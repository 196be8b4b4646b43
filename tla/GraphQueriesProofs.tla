-------------------------- MODULE GraphQueriesProofs --------------------------
(***************************************************************************)
(* What widest_path() returns on every valid graph, between any two nodes. *)
(***************************************************************************)
EXTENDS GraphQueries, FiniteSetTheorems, WellFoundedInduction, TLAPS

LEMMA LeastElement ==
  ASSUME NEW T \in SUBSET Nat, T # {}
  PROVE  \E x \in T : \A y \in T : x <= y
<1> DEFINE R == {p \in Nat \X Nat : p[1] < p[2]}
<1>1. IsWellFoundedOn(R, Nat)
  BY NatLessThanWellFounded DEF OpToRel
<1> HIDE DEF R
<1>2. PICK x \in T : \A y \in T : ~(<<y, x>> \in R)
  BY <1>1, WFMin
<1>3. \A y \in T : ~(y < x)
  BY <1>2 DEF R
<1> QED
  BY <1>3

LEMMA MinOf ==
  ASSUME NEW S \in SUBSET Nat, S # {}
  PROVE  Min(S) \in S /\ \A y \in S : Min(S) <= y
<1>1. \E x \in S : \A y \in S : x <= y
  BY LeastElement
<1> QED
  BY <1>1 DEF Min

LEMMA MinIs ==
  ASSUME NEW S \in SUBSET Nat, NEW m \in S, \A y \in S : m <= y
  PROVE  Min(S) = m
<1>1. Min(S) \in S /\ Min(S) <= m
  BY MinOf
<1> HIDE DEF Min
<1>2. m <= Min(S) /\ Min(S) \in Nat /\ m \in Nat
  BY <1>1
<1> QED
  BY <1>1, <1>2

LEMMA MaxIs ==
  ASSUME NEW S \in SUBSET Int, NEW m \in S, \A y \in S : y <= m
  PROVE  Max(S) = m
<1>1. Max(S) \in S /\ \A y \in S : Max(S) >= y
  BY DEF Max
<1>2. Max(S) \in Int /\ m \in Int /\ Max(S) >= m /\ Max(S) <= m
  BY <1>1
<1> HIDE DEF Max
<1> QED
  BY <1>2

\* A bounded set of naturals has a greatest.
LEMMA MaxOf ==
  ASSUME NEW S \in SUBSET Nat, S # {}, NEW b \in Nat, \A y \in S : y <= b
  PROVE  Max(S) \in S /\ \A y \in S : y <= Max(S)
<1> DEFINE T == {b - y : y \in S}
<1>1. T \in SUBSET Nat /\ T # {}
  <2>1. ASSUME NEW y \in S PROVE b - y \in Nat
    <3>1. y \in Nat /\ y <= b
      OBVIOUS
    <3> QED
      BY <3>1
  <2> QED
    BY <2>1
<1>2. PICK t \in T : \A y \in T : t <= y
  <2> HIDE DEF T
  <2> QED
    BY <1>1, LeastElement
<1>3. PICK m \in S : t = b - m
  OBVIOUS
<1>4. ASSUME NEW y \in S PROVE y <= m
  <2>1. b - m <= b - y
    BY <1>2, <1>3
  <2> QED
    BY <2>1
<1> QED
  BY <1>4, MaxIs

------------------------------------------------------------------------------
(***************************************************************************)
(* The sum over a set, which the community modules define by picking its   *)
(* elements one by one: it exists, and the order does not matter.          *)
(***************************************************************************)
Pick(s) == CHOOSE x \in s : TRUE

SumsUp(it, f, S) ==
  it = [s \in SUBSET S |-> IF s = {} THEN 0
                           ELSE f[Pick(s)] + it[s \ {Pick(s)}]]

Total(f, S) == (CHOOSE it : SumsUp(it, f, S))[S]

\* The sums of the sets with at most m elements.
SumsTo(it, f, S, m) ==
  /\ DOMAIN it = SUBSET S
  /\ \A s \in SUBSET S : Cardinality(s) <= m =>
       it[s] = IF s = {} THEN 0
               ELSE f[Pick(s)] + it[s \ {Pick(s)}]

LEMMA Smaller ==
  ASSUME NEW S, IsFiniteSet(S), NEW s \in SUBSET S, s # {}, NEW x \in s
  PROVE  /\ s \ {x} \in SUBSET S /\ Cardinality(s) \in Nat /\ Cardinality(s \ {x}) \in Nat
         /\ Cardinality(s \ {x}) = Cardinality(s) - 1 /\ Cardinality(s) > 0
<1>1. IsFiniteSet(s) /\ IsFiniteSet(s \ {x})
  BY FS_Subset
<1>2. Cardinality(s) \in Nat /\ Cardinality(s \ {x}) \in Nat
  BY <1>1, FS_CardinalityType
<1>3. Cardinality(s \ {x}) = Cardinality(s) - 1
  BY <1>1, FS_RemoveElement
<1> QED
  BY <1>2, <1>3

LEMMA SumsStep ==
  ASSUME NEW S, IsFiniteSet(S), NEW f, NEW m \in Nat, NEW it, SumsTo(it, f, S, m)
  PROVE  \E jt : SumsTo(jt, f, S, m + 1)
<1> DEFINE next(s) == IF s = {} THEN 0 ELSE f[Pick(s)] + it[s \ {Pick(s)}]
           jt == [s \in SUBSET S |-> next(s)]
<1>1. ASSUME NEW s \in SUBSET S, Cardinality(s) <= m + 1
      PROVE  jt[s] = IF s = {} THEN 0 ELSE f[Pick(s)] + jt[s \ {Pick(s)}]
  <2>1. CASE s = {}
    BY <2>1
  <2>2. CASE s # {}
    <3> DEFINE r == s \ {Pick(s)}
    <3>1. Pick(s) \in s
      BY <2>2 DEF Pick
    <3>2. r \in SUBSET S /\ Cardinality(r) <= m
      BY <1>1, <2>2, <3>1, Smaller
    <3>3. it[r] = next(r)
      BY <3>2 DEF SumsTo
    <3>4. jt[r] = it[r] /\ jt[s] = next(s)
      BY <3>2, <3>3
    <3> QED
      BY <2>2, <3>4
  <2> QED
    BY <2>1, <2>2
<1>2. DOMAIN jt = SUBSET S
  OBVIOUS
<1> HIDE DEF jt
<1>3. SumsTo(jt, f, S, m + 1)
  BY <1>1, <1>2 DEF SumsTo
<1> QED
  BY <1>3

LEMMA SumsExist ==
  ASSUME NEW S, IsFiniteSet(S), NEW f
  PROVE  \E it : SumsUp(it, f, S)
<1> DEFINE T == {m \in Nat : ~ \E it : SumsTo(it, f, S, m)}
<1>1. T = {}
  <2> SUFFICES ASSUME T # {} PROVE FALSE
    OBVIOUS
  <2>1. PICK m \in T : \A j \in T : m <= j
    BY LeastElement
  <2>2. CASE m = 0
    <3> DEFINE it == [s \in SUBSET S |-> 0]
    <3>1. ASSUME NEW s \in SUBSET S, Cardinality(s) <= 0 PROVE s = {}
      <4>1. IsFiniteSet(s) /\ Cardinality(s) \in Nat
        BY FS_Subset, FS_CardinalityType
      <4>2. Cardinality(s) = 0
        BY <3>1, <4>1
      <4> QED
        BY <4>1, <4>2, FS_EmptySet
    <3>2. SumsTo(it, f, S, m)
      BY <2>2, <3>1 DEF SumsTo
    <3> QED
      BY <3>2
  <2>3. CASE m # 0
    <3>1. m - 1 \in Nat /\ m - 1 \notin T /\ (m - 1) + 1 = m
      BY <2>1, <2>3
    <3>2. PICK it : SumsTo(it, f, S, m - 1)
      BY <3>1
    <3>3. \E jt : SumsTo(jt, f, S, m)
      BY <3>1, <3>2, SumsStep
    <3> QED
      BY <3>3
  <2> QED
    BY <2>2, <2>3
<1>2. Cardinality(S) \in Nat
  BY FS_CardinalityType
<1>3. PICK it : SumsTo(it, f, S, Cardinality(S))
  BY <1>1, <1>2
<1> DEFINE jt == [s \in SUBSET S |-> it[s]]
<1>4. \A s \in SUBSET S : Cardinality(s) <= Cardinality(S)
  BY FS_Subset
<1>5. ASSUME NEW s \in SUBSET S
      PROVE  jt[s] = IF s = {} THEN 0
                     ELSE f[Pick(s)] + jt[s \ {Pick(s)}]
  BY <1>3, <1>4 DEF SumsTo
<1>6. jt = [s \in SUBSET S |-> jt[s]]
  OBVIOUS
<1> HIDE DEF jt
<1>7. SumsUp(jt, f, S)
  BY <1>5, <1>6 DEF SumsUp
<1> QED
  BY <1>7

LEMMA TotalUnfold ==
  ASSUME NEW S, IsFiniteSet(S), NEW f
  PROVE  \E it : SumsUp(it, f, S) /\ Total(f, S) = it[S]
<1> DEFINE it == CHOOSE jt : SumsUp(jt, f, S)
<1>1. SumsUp(it, f, S)
  BY SumsExist
<1>2. Total(f, S) = it[S]
  BY DEF Total
<1> QED
  BY <1>1, <1>2

LEMMA SumsAt ==
  ASSUME NEW S, NEW f, NEW it, SumsUp(it, f, S), NEW s \in SUBSET S
  PROVE  it[s] = IF s = {} THEN 0
                 ELSE f[Pick(s)] + it[s \ {Pick(s)}]
BY DEF SumsUp

\* The sums are numbers, and any element may be taken out first.
SumsRight(it, f, s) ==
  /\ it[s] \in Int
  /\ \A x \in s : it[s] = f[x] + it[s \ {x}]

LEMMA SumsRightStep ==
  ASSUME NEW S, IsFiniteSet(S), NEW f, NEW it, SumsUp(it, f, S),
         \A x \in S : f[x] \in Int, NEW s \in SUBSET S,
         \A r \in SUBSET s : r # s => SumsRight(it, f, r)
  PROVE  SumsRight(it, f, s)
<1>1. CASE s = {}
  <2>1. it[s] = 0
    BY <1>1, SumsAt
  <2> QED
    BY <1>1, <2>1 DEF SumsRight
<1>2. CASE s # {}
  <2> DEFINE p == Pick(s)
  <2>1. p \in s
    BY <1>2 DEF Pick
  <2>2. it[s] = f[p] + it[s \ {p}]
    <3>1. it[s] = IF s = {} THEN 0 ELSE f[p] + it[s \ {p}]
      BY SumsAt
    <3> HIDE DEF p
    <3> QED
      BY <1>2, <3>1
  <2> HIDE DEF p
  <2>3. \A x \in s : f[x] \in Int /\ SumsRight(it, f, s \ {x}) /\ it[s \ {x}] \in Int
    <3> SUFFICES ASSUME NEW x \in s
                 PROVE  f[x] \in Int /\ SumsRight(it, f, s \ {x}) /\ it[s \ {x}] \in Int
      OBVIOUS
    <3>1. s \ {x} \in SUBSET s /\ s \ {x} # s
      OBVIOUS
    <3> QED
      BY <3>1 DEF SumsRight
  <2>4. ASSUME NEW x \in s, x # p PROVE it[s] = f[x] + it[s \ {x}]
    <3> DEFINE r == (s \ {p}) \ {x}
    <3>1. r = (s \ {x}) \ {p} /\ x \in s \ {p} /\ p \in s \ {x}
      BY <2>1, <2>4
    <3>2. it[s \ {p}] = f[x] + it[r]
      BY <2>1, <2>3, <3>1 DEF SumsRight
    <3>3. it[s \ {x}] = f[p] + it[r]
      <4>1. it[s \ {x}] = f[p] + it[(s \ {x}) \ {p}]
        BY <2>3, <2>4, <3>1 DEF SumsRight
      <4> QED
        BY <3>1, <4>1
    <3>4. it[r] \in Int
      <4>1. r \in SUBSET s /\ r # s
        BY <2>1
      <4> HIDE DEF r
      <4> QED
        BY <4>1 DEF SumsRight
    <3> QED
      BY <2>1, <2>2, <2>3, <3>2, <3>3, <3>4
  <2>5. it[s] \in Int
    BY <2>1, <2>2, <2>3
  <2> QED
    BY <2>2, <2>4, <2>5 DEF SumsRight
<1> QED
  BY <1>1, <1>2

LEMMA SumsAreRight ==
  ASSUME NEW S, IsFiniteSet(S), NEW f, NEW it, SumsUp(it, f, S),
         \A x \in S : f[x] \in Int, NEW s \in SUBSET S
  PROVE  SumsRight(it, f, s)
<1> DEFINE W == {r \in SUBSET S : ~SumsRight(it, f, r)}
           T == {Cardinality(r) : r \in W}
<1> SUFFICES ASSUME W # {} PROVE FALSE
  OBVIOUS
<1>1. \A r \in SUBSET S : IsFiniteSet(r) /\ Cardinality(r) \in Nat
  BY FS_Subset, FS_CardinalityType
<1>2. T \in SUBSET Nat /\ T # {}
  BY <1>1
<1>3. PICK m \in T : \A j \in T : m <= j
  <2> HIDE DEF T
  <2> QED
    BY <1>2, LeastElement
<1>4. PICK r \in W : m = Cardinality(r)
  OBVIOUS
<1>5. ASSUME NEW q \in SUBSET r, q # r PROVE SumsRight(it, f, q)
  <2>1. q \in SUBSET S /\ r \in SUBSET S
    OBVIOUS
  <2>2. Cardinality(q) <= Cardinality(r) /\ Cardinality(q) # Cardinality(r)
    BY <1>1, <1>5, <2>1, FS_Subset
  <2>3. Cardinality(q) \in Nat /\ Cardinality(r) \in Nat
    BY <1>1, <2>1
  <2>4. ~(m <= Cardinality(q))
    BY <1>4, <2>2, <2>3
  <2> QED
    BY <1>3, <2>1, <2>4
<1>6. SumsRight(it, f, r)
  BY <1>5, SumsRightStep
<1> QED
  BY <1>6

\* One element more adds its value, and the sum of none is 0.
LEMMA TotalEmpty ==
  ASSUME NEW f
  PROVE  Total(f, {}) = 0
<1>1. PICK it : SumsUp(it, f, {}) /\ Total(f, {}) = it[{}]
  BY TotalUnfold, FS_EmptySet
<1> QED
  BY <1>1, SumsAt

LEMMA TotalSame ==
  ASSUME NEW R, IsFiniteSet(R), NEW S, IsFiniteSet(S), NEW f, NEW g,
         NEW it, SumsUp(it, f, R), NEW jt, SumsUp(jt, g, S),
         \A x \in R : f[x] \in Int, \A x \in S : g[x] \in Int,
         NEW s \in SUBSET (R \cap S), \A x \in s : f[x] = g[x]
  PROVE  it[s] = jt[s]
<1> DEFINE W == {r \in SUBSET s : it[r] # jt[r]}
           T == {Cardinality(r) : r \in W}
<1> SUFFICES ASSUME W # {} PROVE FALSE
  OBVIOUS
<1>1. \A r \in SUBSET s : /\ IsFiniteSet(r) /\ Cardinality(r) \in Nat
                          /\ r \in SUBSET R /\ r \in SUBSET S
  BY FS_Subset, FS_CardinalityType
<1>2. T \in SUBSET Nat /\ T # {}
  BY <1>1
<1>3. PICK m \in T : \A j \in T : m <= j
  <2> HIDE DEF T
  <2> QED
    BY <1>2, LeastElement
<1>4. PICK r \in W : m = Cardinality(r)
  OBVIOUS
<1>5. r \in SUBSET R /\ r \in SUBSET S /\ r \in SUBSET s
  BY <1>1
<1>6. CASE r = {}
  BY <1>5, <1>6, SumsAt
<1>7. CASE r # {}
  <2>1. PICK x \in r : TRUE
    BY <1>7
  <2>2. it[r] = f[x] + it[r \ {x}] /\ jt[r] = g[x] + jt[r \ {x}]
    BY <1>5, SumsAreRight DEF SumsRight
  <2>3. /\ Cardinality(r \ {x}) \in Nat /\ Cardinality(r) \in Nat
        /\ Cardinality(r \ {x}) = Cardinality(r) - 1
    BY <1>5, <1>7, Smaller
  <2>4. ~(m <= Cardinality(r \ {x}))
    BY <1>4, <2>3
  <2>5. it[r \ {x}] = jt[r \ {x}]
    BY <1>3, <1>5, <2>4
  <2> QED
    BY <1>5, <2>2, <2>5
<1> QED
  BY <1>6, <1>7

LEMMA TotalAdd ==
  ASSUME NEW S, IsFiniteSet(S), NEW x, x \notin S, NEW f, NEW g,
         \A y \in S \cup {x} : f[y] \in Int, \A y \in S : g[y] = f[y]
  PROVE  /\ Total(g, S) \in Int
         /\ Total(f, S \cup {x}) = Total(g, S) + f[x]
<1> DEFINE R == S \cup {x}
<1>1. IsFiniteSet(R)
  BY FS_AddElement
<1>2. PICK it : SumsUp(it, g, S) /\ Total(g, S) = it[S]
  BY TotalUnfold
<1>3. PICK jt : SumsUp(jt, f, R) /\ Total(f, R) = jt[R]
  BY <1>1, TotalUnfold
<1>4. jt[R] = f[x] + jt[S]
  <2>1. SumsRight(jt, f, R)
    BY <1>1, <1>3, SumsAreRight
  <2>2. jt[R] = f[x] + jt[R \ {x}]
    BY <2>1 DEF SumsRight
  <2>3. R \ {x} = S
    OBVIOUS
  <2> QED
    BY <2>2, <2>3
<1>5. it[S] \in Int
  BY <1>2, SumsAreRight DEF SumsRight
<1>6. it[S] = jt[S]
  BY <1>1, <1>2, <1>3, TotalSame
<1>7. f[x] \in Int
  OBVIOUS
<1> HIDE DEF R
<1>8. Total(g, S) \in Int /\ Total(f, R) = Total(g, S) + f[x]
  BY <1>2, <1>3, <1>4, <1>5, <1>6, <1>7
<1> QED
  BY <1>8 DEF R

LEMMA TotalNat ==
  ASSUME NEW S, IsFiniteSet(S), NEW f, \A x \in S : f[x] \in Nat
  PROVE  Total(f, S) \in Nat
<1> DEFINE W == {r \in SUBSET S : Total(f, r) \notin Nat}
           T == {Cardinality(r) : r \in W}
<1> SUFFICES ASSUME W # {} PROVE FALSE
  OBVIOUS
<1>1. \A r \in SUBSET S : IsFiniteSet(r) /\ Cardinality(r) \in Nat
  BY FS_Subset, FS_CardinalityType
<1>2. T \in SUBSET Nat /\ T # {}
  BY <1>1
<1>3. PICK m \in T : \A j \in T : m <= j
  <2> HIDE DEF T
  <2> QED
    BY <1>2, LeastElement
<1>4. PICK r \in W : m = Cardinality(r)
  OBVIOUS
<1>5. r # {}
  BY TotalEmpty
<1>6. PICK x \in r : TRUE
  BY <1>5
<1>7. /\ Cardinality(r \ {x}) \in Nat /\ Cardinality(r) \in Nat
      /\ Cardinality(r \ {x}) = Cardinality(r) - 1 /\ r \ {x} \in SUBSET S
  BY <1>5, Smaller
<1>8. Total(f, r \ {x}) \in Nat
  BY <1>3, <1>4, <1>7
<1>9. r = (r \ {x}) \cup {x} /\ x \notin r \ {x}
  OBVIOUS
<1>10. /\ IsFiniteSet(r \ {x}) /\ \A y \in (r \ {x}) \cup {x} : f[y] \in Int
       /\ f[x] \in Nat
  BY <1>1, <1>7
<1>11. Total(f, (r \ {x}) \cup {x}) = Total(f, r \ {x}) + f[x]
  BY <1>9, <1>10, TotalAdd
<1>12. Total(f, r) = Total(f, r \ {x}) + f[x]
  BY <1>9, <1>11
<1>13. Total(f, r) \in Nat
  BY <1>8, <1>10, <1>12
<1> QED
  BY <1>13

\* The sums of the model, as sums of a function.
LEMMA SumOfLatencies ==
  ASSUME NEW S, IsFiniteSet(S), NEW f, \A n \in S : f[n] = n.latency /\ f[n] \in Int
  PROVE  MapThenSumSet(LAMBDA n : n.latency, S) = Total(f, S)
<1> DEFINE step(it) == [s \in SUBSET S |-> IF s = {} THEN 0
                                           ELSE Pick(s).latency + it[s \ {Pick(s)}]]
           it == CHOOSE jt : jt = step(jt)
<1>1. MapThenSumSet(LAMBDA n : n.latency, S) = it[S]
  BY DEF MapThenSumSet, MapThenFoldSet, Pick
<1>2. ASSUME NEW jt, NEW s \in SUBSET S
      PROVE  (IF s = {} THEN 0 ELSE Pick(s).latency + jt[s \ {Pick(s)}])
               = IF s = {} THEN 0 ELSE f[Pick(s)] + jt[s \ {Pick(s)}]
  <2>1. s # {} => Pick(s) \in S
    BY DEF Pick
  <2> QED
    BY <2>1
<1>3. ASSUME NEW jt PROVE jt = step(jt) <=> SumsUp(jt, f, S)
  BY <1>2 DEF SumsUp
<1>4. \E jt : jt = step(jt)
  BY <1>3, SumsExist
<1>5. it = step(it)
  <2> HIDE DEF step
  <2> QED
    BY <1>4
<1> HIDE DEF it, step
<1>6. SumsUp(it, f, S)
  BY <1>3, <1>5
<1>7. PICK jt : SumsUp(jt, f, S) /\ Total(f, S) = jt[S]
  BY TotalUnfold
<1>8. it[S] = jt[S]
  BY <1>6, <1>7, TotalSame
<1> QED
  BY <1>1, <1>7, <1>8

EdgeSum(g, taken, S) == MapThenSumSet(LAMBDA i : g.edges[taken[i]].latency, S)

LEMMA SumOfEdgeLatencies ==
  ASSUME NEW S, IsFiniteSet(S), NEW g, NEW taken, NEW f,
         \A i \in S : f[i] = g.edges[taken[i]].latency /\ f[i] \in Int
  PROVE  EdgeSum(g, taken, S) = Total(f, S)
<1> DEFINE step(it) == [s \in SUBSET S |-> IF s = {} THEN 0
                                           ELSE g.edges[taken[Pick(s)]].latency
                                                  + it[s \ {Pick(s)}]]
           it == CHOOSE jt : jt = step(jt)
<1>1. EdgeSum(g, taken, S) = it[S]
  BY DEF EdgeSum, MapThenSumSet, MapThenFoldSet, Pick
<1>2. ASSUME NEW jt, NEW s \in SUBSET S
      PROVE  (IF s = {} THEN 0 ELSE g.edges[taken[Pick(s)]].latency + jt[s \ {Pick(s)}])
               = IF s = {} THEN 0 ELSE f[Pick(s)] + jt[s \ {Pick(s)}]
  <2>1. s # {} => Pick(s) \in S
    BY DEF Pick
  <2> QED
    BY <2>1
<1>3. ASSUME NEW jt PROVE jt = step(jt) <=> SumsUp(jt, f, S)
  <2>1. step(jt) = [s \in SUBSET S |-> IF s = {} THEN 0 ELSE f[Pick(s)] + jt[s \ {Pick(s)}]]
    BY <1>2
  <2> HIDE DEF step
  <2> QED
    BY <2>1 DEF SumsUp
<1>4. \E jt : jt = step(jt)
  BY <1>3, SumsExist
<1>5. it = step(it)
  <2> HIDE DEF step
  <2> QED
    BY <1>4
<1> HIDE DEF it, step
<1>6. SumsUp(it, f, S)
  BY <1>3, <1>5
<1>7. PICK jt : SumsUp(jt, f, S) /\ Total(f, S) = jt[S]
  BY TotalUnfold
<1>8. it[S] = jt[S]
  BY <1>6, <1>7, TotalSame
<1> QED
  BY <1>1, <1>7, <1>8

LEMMA SumOfDerates ==
  ASSUME NEW n
  PROVE  MapThenSumSet(LAMBDA i : Derates(n)[i], DOMAIN Derates(n))
           = Total(Derates(n), DOMAIN Derates(n))
BY DEF MapThenSumSet, MapThenFoldSet, SumsUp, Total, Pick

------------------------------------------------------------------------------
(***************************************************************************)
(* A graph that validate() accepts, with limits and latencies in naturals, *)
(* and what is read off it.                                                *)
(***************************************************************************)
GoodNode(n) ==
  /\ ValidNode(n)
  /\ n.count \in Nat /\ n.bandwidth \in Nat /\ n.latency \in Nat

GoodEdge(g, e) ==
  /\ ValidEdge(g, e)
  /\ e.bandwidth \in Nat /\ e.count \in Nat /\ e.latency \in Nat
  /\ \A end \in {e.src, e.dst} : Selector(end) \in Seq(Nat) /\ Len(Selector(end)) <= 2

GoodGraph(g) ==
  /\ Len(g.nodes) \in Nat /\ DOMAIN g.nodes = 1 .. Len(g.nodes)
  /\ Len(g.edges) \in Nat /\ DOMAIN g.edges = 1 .. Len(g.edges)
  /\ \A i, j \in DOMAIN g.nodes : g.nodes[i].name = g.nodes[j].name => i = j
  /\ \A i \in DOMAIN g.nodes : GoodNode(g.nodes[i])
  /\ \A i \in DOMAIN g.edges : GoodEdge(g, g.edges[i])

LEMMA NodeAt ==
  ASSUME NEW g, GoodGraph(g), NEW v \in Names(g)
  PROVE  \E i \in DOMAIN g.nodes : g.nodes[i].name = v /\ NodeOf(g, v) = g.nodes[i]
<1> DEFINE I == {i \in 1 .. Len(g.nodes) : g.nodes[i].name = v}
<1>1. NodeOf(g, v) = g.nodes[IF I # {} THEN Min(I) ELSE 0]
  BY DEF NodeOf, SelectInSeq
<1>2. I # {} /\ I \in SUBSET Nat
  BY DEF Names, GoodGraph
<1>3. Min(I) \in I
  <2> HIDE DEF I
  <2> QED
    BY <1>2, MinOf
<1> QED
  BY <1>1, <1>2, <1>3 DEF GoodGraph

LEMMA NodeIs ==
  ASSUME NEW g, GoodGraph(g), NEW v \in Names(g)
  PROVE  /\ NodeOf(g, v).name = v /\ GoodNode(NodeOf(g, v))
         /\ NodeOf(g, v) \in Range(g.nodes)
<1>1. PICK i \in DOMAIN g.nodes : g.nodes[i].name = v /\ NodeOf(g, v) = g.nodes[i]
  BY NodeAt
<1> QED
  BY <1>1 DEF GoodGraph, Range

LEMMA AggWidthNat ==
  ASSUME NEW n, GoodNode(n)
  PROVE  AggBandwidth(n) \in Nat
<1> DEFINE D == DOMAIN Derates(n)
           t == Total(Derates(n), D)
<1>1. D = 0 .. n.count - 1 /\ IsFiniteSet(D)
  <2>1. D = 0 .. n.count - 1
    BY DEF Derates
  <2>2. n.count - 1 \in Int
    BY DEF GoodNode
  <2> QED
    BY <2>1, <2>2, FS_Interval
<1>2. \A i \in D : Derates(n)[i] \in Nat
  BY DEF Derates, GoodNode, ValidNode, Whole
<1>3. t \in Nat
  BY <1>1, <1>2, TotalNat
<1>4. AggBandwidth(n) = IF n.bandwidth = Unlimited THEN Unlimited
                        ELSE (n.bandwidth * t) \div Whole
  BY SumOfDerates DEF AggBandwidth, AggRate
<1> HIDE DEF t
<1>5. n.bandwidth * t \in Nat
  BY <1>3 DEF GoodNode
<1>6. (n.bandwidth * t) \div Whole \in Nat
  BY <1>5 DEF Whole
<1> QED
  BY <1>4, <1>6 DEF Unlimited

LEMMA EndAt ==
  ASSUME NEW g, GoodGraph(g), NEW end, ValidEnd(g, end),
         Selector(end) \in Seq(Nat), Len(Selector(end)) <= 2
  PROVE  EndpointBase(g, end) \in Names(g) /\ EndpointWidth(g, end) \in Nat
<1>1. CASE HasNode(g, end)
  <2>1. GoodNode(NodeOf(g, end))
    BY <1>1, NodeIs DEF HasNode
  <2> QED
    BY <1>1, <2>1 DEF EndpointBase, EndpointWidth, HasNode, GoodNode
<1>2. CASE ~HasNode(g, end)
  <2> DEFINE n == NodeOf(g, Base(end))
             sel == Selector(end)
  <2>1. Base(end) \in Names(g) /\ InRange(sel, n.count)
    BY <1>2 DEF ValidEnd, HasNode
  <2>2. n.count \in Nat
    BY <2>1, NodeIs DEF GoodNode
  <2> HIDE DEF n
  <2>3. sel \in Seq(Nat) /\ Len(sel) \in {0, 1, 2}
    <3>1. sel \in Seq(Nat) /\ Len(sel) \in Nat /\ Len(sel) <= 2
      OBVIOUS
    <3>2. \A l \in Nat : l <= 2 => l \in {0, 1, 2}
      OBVIOUS
    <3> HIDE DEF sel
    <3> QED
      BY <3>1, <3>2
  <2> HIDE DEF sel
  <2>4. Len(Selected(sel, n.count)) \in Nat
    <3>1. CASE Len(sel) = 0
      <4>1. Selected(sel, n.count) = [i \in 1 .. n.count |-> i - 1]
        BY <3>1 DEF Selected
      <4> QED
        BY <2>2, <4>1
    <3>2. CASE Len(sel) = 1
      BY <2>3, <3>2 DEF Selected
    <3>3. CASE Len(sel) = 2
      <4>1. Selected(sel, n.count) = [i \in 1 .. sel[2] - sel[1] |-> sel[1] + i - 1]
        BY <3>3 DEF Selected
      <4>2. sel[1] < sel[2] /\ sel[1] \in Nat /\ sel[2] \in Nat
        <5>1. sel[1] \in Nat /\ sel[2] \in Nat
          <6>1. sel \in [1 .. Len(sel) -> Nat] /\ 1 \in 1 .. 2 /\ 2 \in 1 .. 2
            BY <2>3
          <6> QED
            BY <3>3, <6>1
        <5>2. 0 <= sel[1] /\ sel[1] < sel[2] /\ sel[2] <= n.count
          BY <2>1, <3>3 DEF InRange
        <5> QED
          BY <5>1, <5>2
      <4>3. sel[2] - sel[1] \in Nat
        BY <4>2
      <4> QED
        BY <4>1, <4>3
    <3> QED
      BY <2>3, <3>1, <3>2, <3>3
  <2> QED
    BY <1>2, <2>1, <2>4 DEF EndpointBase, EndpointWidth, n, sel
<1> QED
  BY <1>1, <1>2

LEMMA EdgeAt ==
  ASSUME NEW g, GoodGraph(g), NEW i \in DOMAIN g.edges
  PROVE  /\ EndpointBase(g, g.edges[i].src) \in Names(g)
         /\ EndpointBase(g, g.edges[i].dst) \in Names(g)
         /\ EdgeCapacity(g, g.edges[i]) \in Nat /\ g.edges[i].latency \in Nat
<1> DEFINE e == g.edges[i]
           ns == EndpointWidth(g, e.src)
           nd == EndpointWidth(g, e.dst)
<1>1. GoodEdge(g, e)
  BY DEF GoodGraph
<1> HIDE DEF e
<1>2. /\ EndpointBase(g, e.src) \in Names(g) /\ ns \in Nat
      /\ EndpointBase(g, e.dst) \in Names(g) /\ nd \in Nat
  BY <1>1, EndAt DEF GoodEdge, ValidEdge
<1> HIDE DEF ns, nd
<1>3. NLinks(e.pattern, ns, nd) \in Nat
  <2>1. Max({ns, nd}) \in {ns, nd}
    <3>1. \E x \in {ns, nd} : \A y \in {ns, nd} : x >= y
      BY <1>2
    <3> QED
      BY <3>1 DEF Max
  <2> HIDE DEF Max
  <2>2. ns * nd \in Nat /\ Max({ns, nd}) \in Nat
    BY <1>2, <2>1
  <2> QED
    BY <2>2 DEF NLinks
<1>4. e.bandwidth * e.count * NLinks(e.pattern, ns, nd) \in Nat
  <2> DEFINE k == NLinks(e.pattern, ns, nd)
             b == e.bandwidth * e.count
  <2>1. k \in Nat /\ b \in Nat
    BY <1>1, <1>3 DEF GoodEdge
  <2> HIDE DEF k, b
  <2>2. b * k \in Nat
    BY <2>1
  <2> QED
    BY <2>2 DEF k, b
<1> QED
  BY <1>1, <1>2, <1>4 DEF EdgeCapacity, Unlimited, GoodEdge, e, ns, nd

------------------------------------------------------------------------------
(***************************************************************************)
(* Routes: paths without a node twice, with one choice of edges.           *)
(***************************************************************************)
Beside(g, u) ==
  {n \in (DOMAIN g.edges) \X Names(g) :
     {u, n[2]} = {EndpointBase(g, g.edges[n[1]].src), EndpointBase(g, g.edges[n[1]].dst)}}

NodeWidth(g, v) == AggBandwidth(NodeOf(g, v))
EdgeWidth(g, i) == EdgeCapacity(g, g.edges[i])

Hops(p) == 1 .. Len(p) - 1
Through(g, p) == {NodeOf(g, p[i]) : i \in DOMAIN p}
Joins(g, p, taken) ==
  /\ taken \in [Hops(p) -> DOMAIN g.edges]
  /\ \A i \in Hops(p) : <<taken[i], p[i + 1]>> \in Beside(g, p[i])
Widths(g, p, taken) ==
  {AggBandwidth(n) : n \in Through(g, p)} \cup {EdgeWidth(g, taken[i]) : i \in Hops(p)}

NodeTimes(g, p) == [n \in Through(g, p) |-> n.latency]
EdgeTimes(g, p, taken) == [i \in Hops(p) |-> g.edges[taken[i]].latency]
Latency(g, p, taken) == Total(NodeTimes(g, p), Through(g, p))
                          + Total(EdgeTimes(g, p, taken), Hops(p))

NoneTwice(p) == \A i, j \in DOMAIN p : p[i] = p[j] => i = j

Goes(g, x, taken) ==
  /\ Joins(g, x.path, taken)
  /\ x.width \in Widths(g, x.path, taken)
  /\ \A w \in Widths(g, x.path, taken) : x.width <= w
  /\ x.latency = Latency(g, x.path, taken)

Route(g, x, from) ==
  /\ x.path \in Seq(Names(g)) /\ Len(x.path) >= 1 /\ x.path[1] = from
  /\ NoneTwice(x.path)
  /\ x.width \in Nat /\ x.latency \in Nat
  /\ \E taken : Goes(g, x, taken)

LEMMA NodeNat ==
  ASSUME NEW g, GoodGraph(g), NEW v \in Names(g)
  PROVE  NodeWidth(g, v) \in Nat /\ NodeOf(g, v).latency \in Nat /\ NodeOf(g, v).name = v
<1>1. GoodNode(NodeOf(g, v)) /\ NodeOf(g, v).name = v
  BY NodeIs
<1> QED
  BY <1>1, AggWidthNat DEF NodeWidth, GoodNode

LEMMA BesideNat ==
  ASSUME NEW g, GoodGraph(g), NEW u, NEW n \in Beside(g, u)
  PROVE  n[1] \in DOMAIN g.edges /\ n[2] \in Names(g) /\ EdgeWidth(g, n[1]) \in Nat
         /\ g.edges[n[1]].latency \in Nat
BY EdgeAt DEF Beside, EdgeWidth

LEMMA RouteStart ==
  ASSUME NEW g, GoodGraph(g), NEW v \in Names(g)
  PROVE  Route(g, [width |-> NodeWidth(g, v), latency |-> NodeOf(g, v).latency,
                   path |-> <<v>>], v)
<1> DEFINE p == <<v>>
           x == [width |-> NodeWidth(g, v), latency |-> NodeOf(g, v).latency, path |-> p]
<1>1. NodeWidth(g, v) \in Nat /\ NodeOf(g, v).latency \in Nat
  BY NodeNat
<1>2. Hops(p) = {} /\ Through(g, p) = {NodeOf(g, v)}
  BY DEF Hops, Through
<1>3. Joins(g, p, << >>)
  BY <1>2 DEF Joins
<1>4. Widths(g, p, << >>) = {NodeWidth(g, v)}
  BY <1>2 DEF Widths, NodeWidth
<1>5. Total(NodeTimes(g, p), Through(g, p)) = NodeOf(g, v).latency
  <2> DEFINE N == NodeOf(g, v)
             f == NodeTimes(g, p)
  <2>1. \A y \in {} \cup {N} : f[y] \in Int
    BY <1>1, <1>2 DEF NodeTimes
  <2>2. f[N] = N.latency /\ Through(g, p) = {} \cup {N}
    BY <1>2 DEF NodeTimes
  <2>3. f[N] \in Int
    BY <2>1
  <2> HIDE DEF f, N
  <2>4. Total(f, {}) \in Int /\ Total(f, {} \cup {N}) = Total(f, {}) + f[N]
    BY <2>1, TotalAdd, FS_EmptySet
  <2>5. Total(f, {}) = 0
    BY TotalEmpty
  <2>6. Total(f, {} \cup {N}) = f[N]
    BY <2>3, <2>4, <2>5
  <2>7. Total(f, Through(g, p)) = N.latency
    BY <2>2, <2>6
  <2> QED
    BY <2>7 DEF f, N
<1>6. Latency(g, p, << >>) = NodeOf(g, v).latency
  <2>1. Total(EdgeTimes(g, p, << >>), Hops(p)) = 0
    BY <1>2, TotalEmpty
  <2>2. Latency(g, p, << >>) = NodeOf(g, v).latency + 0
    BY <1>5, <2>1 DEF Latency
  <2> QED
    BY <1>1, <2>2
<1>7. Goes(g, x, << >>)
  BY <1>1, <1>3, <1>4, <1>6 DEF Goes
<1>8. p \in Seq(Names(g)) /\ Len(p) = 1 /\ p[1] = v /\ NoneTwice(p)
  BY DEF NoneTwice
<1> QED
  BY <1>1, <1>7, <1>8 DEF Route

LEMMA HopsFinite ==
  ASSUME NEW V, NEW p \in Seq(V)
  PROVE  IsFiniteSet(Hops(p)) /\ IsFiniteSet(DOMAIN p)
<1>1. Len(p) \in Nat /\ DOMAIN p = 1 .. Len(p)
  OBVIOUS
<1>2. Len(p) - 1 \in Int /\ 1 \in Int /\ Len(p) \in Int
  BY <1>1
<1> QED
  BY <1>1, <1>2, FS_Interval DEF Hops

LEMMA ThroughFinite ==
  ASSUME NEW V, NEW g, NEW p \in Seq(V)
  PROVE  IsFiniteSet(Through(g, p))
<1>1. IsFiniteSet(DOMAIN p)
  BY HopsFinite
<1>2. [i \in DOMAIN p |-> NodeOf(g, p[i])] \in Surjection(DOMAIN p, Through(g, p))
  BY DEF Surjection, Through
<1> QED
  BY <1>1, <1>2, FS_Surjection

\* A path that goes on over edge e to v.
Longer(p, v) == Append(p, v)
Extended(p, taken, e) == [i \in 1 .. Len(p) |-> IF i < Len(p) THEN taken[i] ELSE e]

GoesOn(g, p, taken, e, v) ==
  /\ p \in Seq(Names(g)) /\ Len(p) >= 1 /\ Joins(g, p, taken)
  /\ v \in Names(g) /\ <<e, v>> \in Beside(g, p[Len(p)])
  /\ \A i \in DOMAIN p : p[i] # v

LEMMA JoinsOn ==
  ASSUME NEW g, NEW p, NEW taken, NEW e, NEW v, GoesOn(g, p, taken, e, v),
         NEW q, q = Longer(p, v), NEW on, on = Extended(p, taken, e)
  PROVE  /\ Joins(g, q, on)
         /\ Len(p) \in Nat /\ Len(p) \notin Hops(p) /\ Hops(q) = Hops(p) \cup {Len(p)}
         /\ \A i \in Hops(p) : on[i] = taken[i]
         /\ on[Len(p)] = e
<1> USE DEF GoesOn, Longer
<1> DEFINE l == Len(p)
<1>1. l \in Nat /\ l >= 1 /\ Len(q) = l + 1 /\ DOMAIN p = 1 .. l
  OBVIOUS
<1>2. \A i \in 1 .. l : q[i] = p[i]
  OBVIOUS
<1>3. q[l + 1] = v
  OBVIOUS
<1>4. e \in DOMAIN g.edges
  BY DEF Beside
<1> HIDE DEF l
<1>5. Hops(q) = 1 .. l /\ Hops(p) = 1 .. l - 1
  BY <1>1 DEF Hops, l
<1>6. \A i \in 1 .. l - 1 : i \in 1 .. l /\ i < l /\ i + 1 \in 1 .. l
  BY <1>1
<1>7. \A i \in 1 .. l : i \in 1 .. l - 1 \/ i = l
  BY <1>1
<1>8. \A i \in 1 .. l - 1 : on[i] = taken[i]
  BY <1>6 DEF l, Extended
<1>9. on[l] = e
  BY <1>1 DEF l, Extended
<1>10. on \in [Hops(q) -> DOMAIN g.edges]
  <2>1. \A i \in 1 .. l : on[i] \in DOMAIN g.edges
    BY <1>4, <1>5, <1>7, <1>8, <1>9 DEF Joins
  <2> QED
    BY <1>5, <2>1 DEF l, Extended
<1>11. ASSUME NEW i \in Hops(q) PROVE <<on[i], q[i + 1]>> \in Beside(g, q[i])
  <2>1. CASE i \in 1 .. l - 1
    <3>1. <<taken[i], p[i + 1]>> \in Beside(g, p[i])
      BY <1>5, <2>1 DEF Joins
    <3> QED
      BY <1>2, <1>6, <1>8, <2>1, <3>1
  <2>2. CASE i = l
    <3>1. q[l] = p[l]
      BY <1>1, <1>2
    <3> QED
      BY <1>3, <1>9, <2>2, <3>1 DEF l
  <2> QED
    BY <1>5, <1>7, <1>11, <2>1, <2>2
<1>12. l \notin 1 .. l - 1 /\ 1 .. l = (1 .. l - 1) \cup {l}
  BY <1>1
<1> QED
  BY <1>1, <1>5, <1>6, <1>8, <1>9, <1>10, <1>11, <1>12 DEF Joins, l

LEMMA ThroughOn ==
  ASSUME NEW g, GoodGraph(g), NEW p \in Seq(Names(g)), NEW v \in Names(g),
         \A i \in DOMAIN p : p[i] # v, NEW q, q = Longer(p, v)
  PROVE  /\ Through(g, q) = Through(g, p) \cup {NodeOf(g, v)}
         /\ NodeOf(g, v) \notin Through(g, p)
         /\ \A n \in Through(g, p) : n.latency \in Nat /\ AggBandwidth(n) \in Nat
<1>1. /\ Len(p) \in Nat /\ DOMAIN p = 1 .. Len(p) /\ DOMAIN q = 1 .. Len(p) + 1
      /\ \A i \in 1 .. Len(p) : q[i] = p[i] /\ p[i] \in Names(g)
      /\ q[Len(p) + 1] = v
  BY DEF Longer
<1>2. Through(g, q) = Through(g, p) \cup {NodeOf(g, v)}
  <2>1. 1 .. Len(p) + 1 = (1 .. Len(p)) \cup {Len(p) + 1}
    BY <1>1
  <2> QED
    BY <1>1, <2>1 DEF Through
<1>3. NodeOf(g, v) \notin Through(g, p)
  BY <1>1, NodeNat DEF Through
<1>4. \A n \in Through(g, p) : n.latency \in Nat /\ AggBandwidth(n) \in Nat
  BY <1>1, NodeNat DEF Through, NodeWidth
<1> QED
  BY <1>2, <1>3, <1>4

LEMMA LatencyOn ==
  ASSUME NEW g, GoodGraph(g), NEW p, NEW taken, NEW e, NEW v, GoesOn(g, p, taken, e, v),
         NEW q, q = Longer(p, v), NEW on, on = Extended(p, taken, e)
  PROVE  Latency(g, q, on) = Latency(g, p, taken) + g.edges[e].latency + NodeOf(g, v).latency
<1> DEFINE N == NodeOf(g, v)
           T == Through(g, p)
           H == Hops(p)
           l == Len(p)
           a == Total(NodeTimes(g, p), T)
           b == Total(EdgeTimes(g, p, taken), H)
<1>1. /\ Through(g, q) = T \cup {N} /\ N \notin T
      /\ \A n \in T : n.latency \in Nat
  BY ThroughOn DEF GoesOn
<1>2. /\ Hops(q) = H \cup {l} /\ l \notin H
      /\ \A i \in H : on[i] = taken[i]
      /\ on[l] = e
  BY JoinsOn
<1>3. N.latency \in Nat /\ g.edges[e].latency \in Nat
  BY NodeNat, BesideNat DEF GoesOn
<1>4. IsFiniteSet(T) /\ IsFiniteSet(H)
  BY ThroughFinite, HopsFinite DEF GoesOn
<1>5. a \in Int /\ Total(NodeTimes(g, q), Through(g, q)) = a + N.latency
  <2> DEFINE f == NodeTimes(g, q)
             k == NodeTimes(g, p)
  <2>1. \A n \in T \cup {N} : f[n] = n.latency
    BY <1>1 DEF NodeTimes
  <2>2. \A n \in T : k[n] = n.latency
    BY DEF NodeTimes
  <2> HIDE DEF f, k, N, T
  <2>3. (\A n \in T \cup {N} : f[n] \in Int) /\ \A n \in T : k[n] = f[n]
    BY <1>1, <1>3, <2>1, <2>2
  <2>4. Total(k, T) \in Int /\ Total(f, T \cup {N}) = Total(k, T) + f[N]
    BY <1>1, <1>4, <2>3, TotalAdd
  <2>5. f[N] = N.latency
    BY <2>1
  <2> QED
    BY <1>1, <2>4, <2>5 DEF f, k
<1>6. b \in Int /\ Total(EdgeTimes(g, q, on), Hops(q)) = b + g.edges[e].latency
  <2> DEFINE f == EdgeTimes(g, q, on)
             k == EdgeTimes(g, p, taken)
  <2>1. \A i \in H \cup {l} : f[i] = g.edges[on[i]].latency
    BY <1>2 DEF EdgeTimes
  <2>2. \A i \in H : k[i] = g.edges[taken[i]].latency
    BY DEF EdgeTimes
  <2>3. \A i \in H : taken[i] \in DOMAIN g.edges
    BY DEF Joins, GoesOn
  <2> HIDE DEF f, k, H, l
  <2>4. f[l] = g.edges[e].latency
    BY <1>2, <2>1
  <2>5. ASSUME NEW i \in H PROVE k[i] = f[i]
    <3>1. i \in H \cup {l} /\ on[i] = taken[i]
      BY <1>2
    <3> QED
      BY <2>1, <2>2, <3>1
  <2>6. \A i \in H : k[i] \in Int
    BY <2>2, <2>3, EdgeAt
  <2>7. \A i \in H \cup {l} : f[i] \in Int
    BY <1>3, <2>4, <2>5, <2>6
  <2>8. Total(k, H) \in Int /\ Total(f, H \cup {l}) = Total(k, H) + f[l]
    <3>1. l \notin H /\ IsFiniteSet(H) /\ \A i \in H : f[i] = k[i]
      BY <1>2, <1>4, <2>5
    <3> QED
      BY <2>7, <3>1, TotalAdd
  <2> QED
    BY <1>2, <2>4, <2>8 DEF f, k
<1>7. /\ Latency(g, p, taken) = a + b
      /\ Latency(g, q, on) = Total(NodeTimes(g, q), Through(g, q))
                               + Total(EdgeTimes(g, q, on), Hops(q))
  BY DEF Latency
<1> DEFINE c == g.edges[e].latency
           d == N.latency
<1> HIDE DEF a, b, N
<1>8. Latency(g, q, on) = (a + d) + (b + c)
  BY <1>5, <1>6, <1>7
<1>9. c \in Int /\ d \in Int
  BY <1>3
<1> HIDE DEF c, d
<1>10. Latency(g, q, on) = a + b + c + d
  BY <1>5, <1>6, <1>8, <1>9
<1> QED
  BY <1>7, <1>10 DEF N, c, d

LEMMA WidthsOn ==
  ASSUME NEW g, GoodGraph(g), NEW p, NEW taken, NEW e, NEW v, GoesOn(g, p, taken, e, v),
         NEW q, q = Longer(p, v), NEW on, on = Extended(p, taken, e)
  PROVE  Widths(g, q, on) = Widths(g, p, taken) \cup {EdgeWidth(g, e), NodeWidth(g, v)}
<1>1. Through(g, q) = Through(g, p) \cup {NodeOf(g, v)}
  BY ThroughOn DEF GoesOn
<1>2. /\ Hops(q) = Hops(p) \cup {Len(p)}
      /\ \A i \in Hops(p) : on[i] = taken[i]
      /\ on[Len(p)] = e
  BY JoinsOn
<1>3. {EdgeWidth(g, on[i]) : i \in Hops(q)}
        = {EdgeWidth(g, taken[i]) : i \in Hops(p)} \cup {EdgeWidth(g, e)}
  BY <1>2
<1>4. {AggBandwidth(n) : n \in Through(g, q)}
        = {AggBandwidth(n) : n \in Through(g, p)} \cup {NodeWidth(g, v)}
  BY <1>1 DEF NodeWidth
<1> QED
  BY <1>3, <1>4 DEF Widths

\* The path x once it goes on over edge e to v.
Onward(g, x, e, v) ==
  [width |-> Min({x.width, EdgeWidth(g, e), NodeWidth(g, v)}), path |-> Append(x.path, v),
   latency |-> x.latency + g.edges[e].latency + NodeOf(g, v).latency]

\* It is a route again, as wide and as long as its parts: what is entered in the heap.
LEMMA RouteOn ==
  ASSUME NEW g, GoodGraph(g), NEW x, NEW from, Route(g, x, from),
         NEW e, NEW v \in Names(g), <<e, v>> \in Beside(g, x.path[Len(x.path)]),
         \A i \in DOMAIN x.path : x.path[i] # v
  PROVE  Route(g, Onward(g, x, e, v), from)
<1> DEFINE p == x.path
           q == Longer(p, v)
           y == Onward(g, x, e, v)
<1>1. PICK taken : Goes(g, x, taken)
  BY DEF Route
<1> DEFINE on == Extended(p, taken, e)
<1>2. GoesOn(g, p, taken, e, v)
  BY <1>1 DEF GoesOn, Goes, Route
<1>3. /\ EdgeWidth(g, e) \in Nat /\ g.edges[e].latency \in Nat
      /\ NodeWidth(g, v) \in Nat /\ NodeOf(g, v).latency \in Nat
  BY NodeNat, BesideNat
<1>4. /\ p \in Seq(Names(g)) /\ Len(p) >= 1 /\ p[1] = from /\ NoneTwice(p)
      /\ x.width \in Nat /\ x.latency \in Nat
  BY DEF Route
<1>5. /\ y.path = q /\ y.width = Min({x.width, EdgeWidth(g, e), NodeWidth(g, v)})
      /\ y.latency = x.latency + g.edges[e].latency + NodeOf(g, v).latency
  BY DEF Onward, Longer
<1>6. /\ y.width \in {x.width, EdgeWidth(g, e), NodeWidth(g, v)}
      /\ y.width <= x.width /\ y.width <= EdgeWidth(g, e) /\ y.width <= NodeWidth(g, v)
  BY <1>3, <1>4, <1>5, MinOf
<1>7. /\ q \in Seq(Names(g)) /\ Len(q) >= 1 /\ q[1] = from /\ NoneTwice(q)
  <2>1. /\ q \in Seq(Names(g)) /\ Len(q) = Len(p) + 1 /\ Len(p) \in Nat
        /\ DOMAIN p = 1 .. Len(p) /\ DOMAIN q = 1 .. Len(p) + 1
        /\ \A i \in 1 .. Len(p) : q[i] = p[i]
        /\ q[Len(p) + 1] = v
    BY <1>4 DEF Longer
  <2> HIDE DEF p, q
  <2>2. NoneTwice(q)
    <3>1. \A i \in 1 .. Len(p) + 1 : i \in 1 .. Len(p) \/ i = Len(p) + 1
      BY <2>1
    <3>2. \A i \in 1 .. Len(p) : q[i] # v
      BY <2>1 DEF p
    <3> QED
      BY <1>4, <2>1, <3>1, <3>2 DEF NoneTwice
  <2> QED
    BY <1>4, <2>1, <2>2
<1> HIDE DEF q, y, on
<1>8. Joins(g, q, on)
  BY <1>2, JoinsOn DEF q, on
<1>9. Latency(g, q, on) = Latency(g, p, taken) + g.edges[e].latency + NodeOf(g, v).latency
  BY <1>2, LatencyOn DEF q, on
<1>10. Widths(g, q, on) = Widths(g, p, taken) \cup {EdgeWidth(g, e), NodeWidth(g, v)}
  BY <1>2, WidthsOn DEF q, on
<1>11. Widths(g, p, taken) \in SUBSET Nat
  <2>1. \A n \in Through(g, p) : AggBandwidth(n) \in Nat
    BY NodeNat, <1>4 DEF Through, NodeWidth
  <2>2. \A i \in Hops(p) : EdgeWidth(g, taken[i]) \in Nat
    BY <1>2, EdgeAt DEF GoesOn, Joins, EdgeWidth
  <2> QED
    BY <2>1, <2>2 DEF Widths
<1>12. Goes(g, y, on)
  <2>1. y.width \in Widths(g, q, on)
    BY <1>1, <1>6, <1>10 DEF Goes
  <2>2. ASSUME NEW w \in Widths(g, p, taken) PROVE y.width <= w
    <3>1. x.width <= w /\ y.width <= x.width /\ w \in Nat /\ x.width \in Nat /\ y.width \in Nat
      BY <1>1, <1>3, <1>4, <1>6, <1>11 DEF Goes
    <3> QED
      BY <3>1
  <2>3. \A w \in Widths(g, q, on) : y.width <= w
    BY <1>6, <1>10, <2>2
  <2>4. y.latency = Latency(g, q, on)
    BY <1>1, <1>5, <1>9 DEF Goes
  <2> QED
    BY <1>5, <1>8, <2>1, <2>3, <2>4 DEF Goes
<1>13. y.width \in Nat /\ y.latency \in Nat
  <2>1. y.width \in Nat
    BY <1>3, <1>4, <1>6
  <2>2. y.latency = x.latency + g.edges[e].latency + NodeOf(g, v).latency
    BY <1>5
  <2> DEFINE b == g.edges[e].latency
             c == NodeOf(g, v).latency
             d == x.latency
  <2>3. b \in Nat /\ c \in Nat /\ d \in Nat
    BY <1>3, <1>4
  <2> HIDE DEF b, c, d
  <2>4. d + b + c \in Nat
    BY <2>3
  <2> QED
    BY <2>1, <2>2, <2>4 DEF b, c, d
<1>14. \E tt : Goes(g, y, tt)
  BY <1>12
<1>15. Route(g, y, from)
  BY <1>5, <1>7, <1>13, <1>14 DEF Route
<1> QED
  BY <1>15 DEF y

------------------------------------------------------------------------------
(***************************************************************************)
(* The search.  What is in the heap are routes over settled nodes.  What   *)
(* is not settled has a path of its greatest known width in the heap; what *)
(* is settled is at least as wide as all that is still in the heap, and    *)
(* has passed its width on over each of its edges.                         *)
(***************************************************************************)
OnRoutes(g, from, h, b, s) ==
  \A x \in h : /\ Route(g, x, from)
               /\ x.width <= b[Last(x.path)]
               /\ \A i \in 1 .. Len(x.path) - 1 : x.path[i] \in s
Frontier(g, from, h, b, s) ==
  \A v \in Names(g) \ s : b[v] > 0 \/ v = from =>
    \E y \in h : Last(y.path) = v /\ y.width = b[v]
Ahead(h, b, s) == \A v \in s : \A y \in h : y.width <= b[v]
PassedOn(g, b, s) ==
  \A u \in s : \A n \in Beside(g, u) : \A w \in Nat :
    w <= b[u] /\ w <= EdgeWidth(g, n[1]) /\ w <= NodeWidth(g, n[2]) => w <= b[n[2]]

Search(g, from, to, h, b, s) ==
  /\ from \in Names(g) /\ to \in Names(g)
  /\ b \in [Names(g) -> Nat] /\ s \in SUBSET Names(g)
  /\ OnRoutes(g, from, h, b, s)
  /\ Frontier(g, from, h, b, s)
  /\ Ahead(h, b, s)
  /\ PassedOn(g, b, s)
  /\ NodeWidth(g, from) <= b[from]
  /\ to \notin s

Widest(h, x) == x \in h /\ \A y \in h : y.width <= x.width

\* A step to n, an edge and a node.
Wide(g, x, n) == Min({x.width, EdgeWidth(g, n[1]), NodeWidth(g, n[2])})
Near(g, u, s) == {n \in Beside(g, u) : n[2] \notin s \cup {u}}
Entered(g, x, b, near) ==
  {n \in near : /\ Wide(g, x, n) > b[n[2]]
                /\ \A m \in near : m[2] = n[2] /\ m[1] < n[1] => Wide(g, x, m) < Wide(g, x, n)}
Better(g, x, b, near) ==
  [v \in Names(g) |-> Max({b[v]} \cup {Wide(g, x, n) : n \in {m \in near : m[2] = v}})]
HeapAfter(g, x, h, b, near) ==
  (h \ {x}) \cup {Onward(g, x, n[1], n[2]) : n \in Entered(g, x, b, near)}

LEMMA SearchStart ==
  ASSUME NEW g, GoodGraph(g), NEW from \in Names(g), NEW to \in Names(g),
         NEW x, x = [width |-> NodeWidth(g, from), latency |-> NodeOf(g, from).latency,
                     path |-> <<from>>],
         NEW b, b = [n \in Names(g) |-> IF n = from THEN x.width ELSE 0]
  PROVE  Search(g, from, to, {x}, b, {})
<1>1. NodeWidth(g, from) \in Nat /\ Route(g, x, from)
  BY NodeNat, RouteStart
<1>2. b \in [Names(g) -> Nat] /\ b[from] = NodeWidth(g, from)
  BY <1>1
<1>3. Len(x.path) = 1 /\ Last(x.path) = from /\ x.width = b[from]
  BY <1>2 DEF Last
<1>4. OnRoutes(g, from, {x}, b, {})
  <2>1. \A i \in 1 .. Len(x.path) - 1 : x.path[i] \in {}
    BY <1>3
  <2>2. x.width <= b[Last(x.path)]
    BY <1>1, <1>2, <1>3
  <2> QED
    BY <1>1, <2>1, <2>2 DEF OnRoutes
<1>5. Frontier(g, from, {x}, b, {})
  BY <1>3 DEF Frontier
<1> QED
  BY <1>1, <1>2, <1>4, <1>5 DEF Search, Ahead, PassedOn

LEMMA WideNat ==
  ASSUME NEW g, GoodGraph(g), NEW x, x.width \in Nat, NEW u, NEW n \in Beside(g, u)
  PROVE  /\ Wide(g, x, n) \in Nat
         /\ Wide(g, x, n) \in {x.width, EdgeWidth(g, n[1]), NodeWidth(g, n[2])}
         /\ Wide(g, x, n) <= x.width
         /\ Wide(g, x, n) <= EdgeWidth(g, n[1]) /\ Wide(g, x, n) <= NodeWidth(g, n[2])
<1>1. EdgeWidth(g, n[1]) \in Nat /\ NodeWidth(g, n[2]) \in Nat
  BY BesideNat, NodeNat
<1> QED
  BY <1>1, MinOf DEF Wide

IsNear(g, u, near) == near \subseteq Beside(g, u)

LEMMA BetterIs ==
  ASSUME NEW g, GoodGraph(g), NEW x, x.width \in Nat, NEW u, NEW near,
         IsNear(g, u, near), NEW b \in [Names(g) -> Nat],
         NEW c, c = Better(g, x, b, near), NEW v \in Names(g)
  PROVE  /\ c[v] \in Nat /\ b[v] <= c[v]
         /\ c[v] = b[v] \/ \E n \in near : n[2] = v /\ c[v] = Wide(g, x, n)
         /\ \A n \in near : n[2] = v => Wide(g, x, n) <= c[v]
<1> DEFINE S == {b[v]} \cup {Wide(g, x, n) : n \in {m \in near : m[2] = v}}
<1>1. c[v] = Max(S)
  BY DEF Better
<1>2. \A n \in near : Wide(g, x, n) \in Nat /\ Wide(g, x, n) <= x.width
  BY WideNat DEF IsNear
<1>3. S \in SUBSET Nat /\ S # {} /\ b[v] \in Nat
  BY <1>2
<1>4. \A y \in S : y <= x.width + b[v]
  BY <1>2, <1>3
<1>5. x.width + b[v] \in Nat
  BY <1>3
<1>6. \A y \in S : y = b[v] \/ \E n \in near : n[2] = v /\ y = Wide(g, x, n)
  OBVIOUS
<1>7. b[v] \in S /\ \A n \in near : n[2] = v => Wide(g, x, n) \in S
  OBVIOUS
<1> HIDE DEF S
<1>8. Max(S) \in S /\ \A y \in S : y <= Max(S)
  BY <1>3, <1>4, <1>5, MaxOf
<1> HIDE DEF Max
<1> QED
  BY <1>1, <1>3, <1>6, <1>7, <1>8

\* Taking the widest path from the heap and settling its end keeps the search right.
LEMMA SettleKeeps ==
  ASSUME NEW g, GoodGraph(g), NEW from, NEW to, NEW h, NEW b, NEW s,
         Search(g, from, to, h, b, s),
         NEW x, Widest(h, x), NEW u, u = Last(x.path), u \notin s, u # to,
         NEW near, near = Near(g, u, s),
         NEW c, c = Better(g, x, b, near), NEW k, k = HeapAfter(g, x, h, b, near)
  PROVE  Search(g, from, to, k, c, s \cup {u})
<1>1. /\ from \in Names(g) /\ to \in Names(g) /\ to \notin s
      /\ b \in [Names(g) -> Nat] /\ s \in SUBSET Names(g)
      /\ NodeWidth(g, from) <= b[from]
  BY DEF Search
<1>2. \A y \in h : /\ Route(g, y, from) /\ y.width <= b[Last(y.path)]
                   /\ \A i \in 1 .. Len(y.path) - 1 : y.path[i] \in s
  BY DEF Search, OnRoutes
<1>3. \A y \in h : /\ y.path \in Seq(Names(g)) /\ Len(y.path) >= 1 /\ y.width \in Nat
                   /\ Last(y.path) = y.path[Len(y.path)] /\ Last(y.path) \in Names(g)
  <2> SUFFICES ASSUME NEW y \in h
               PROVE  /\ y.path \in Seq(Names(g)) /\ Len(y.path) >= 1 /\ y.width \in Nat
                      /\ Last(y.path) = y.path[Len(y.path)] /\ Last(y.path) \in Names(g)
    OBVIOUS
  <2>1. y.path \in Seq(Names(g)) /\ Len(y.path) >= 1 /\ y.width \in Nat
    BY <1>2 DEF Route
  <2>2. Last(y.path) = y.path[Len(y.path)]
    BY DEF Last
  <2>3. y.path[Len(y.path)] \in Names(g)
    BY <2>1
  <2> QED
    BY <2>1, <2>2, <2>3
<1>4. x \in h /\ \A y \in h : y.width <= x.width
  BY DEF Widest
<1>5. u \in Names(g) /\ x.width \in Nat /\ u = x.path[Len(x.path)]
  BY <1>3, <1>4
<1>6. x.width = b[u]
  <2>1. b[u] \in Nat /\ x.width <= b[u]
    BY <1>1, <1>2, <1>4, <1>5
  <2>2. CASE b[u] > 0
    <3>1. PICK y \in h : y.width = b[u]
      BY <1>5, <2>2 DEF Search, Frontier
    <3> QED
      BY <1>4, <1>5, <2>1, <3>1
  <2>3. CASE ~(b[u] > 0)
    BY <1>5, <2>1, <2>3
  <2> QED
    BY <2>2, <2>3
<1>7. near \subseteq Beside(g, u) /\ \A n \in near : n[2] \notin s /\ n[2] # u
  BY DEF Near
<1>8. \A n \in near : /\ Wide(g, x, n) \in Nat /\ Wide(g, x, n) <= x.width
                      /\ n[2] \in Names(g) /\ n[1] \in DOMAIN g.edges
  BY <1>5, <1>7, WideNat, BesideNat
<1>9. \A v \in Names(g) :
        /\ c[v] \in Nat /\ b[v] \in Nat /\ b[v] <= c[v]
        /\ c[v] = b[v] \/ \E n \in near : n[2] = v /\ c[v] = Wide(g, x, n)
        /\ \A n \in near : n[2] = v => Wide(g, x, n) <= c[v]
  <2> SUFFICES ASSUME NEW v \in Names(g)
               PROVE  /\ c[v] \in Nat /\ b[v] \in Nat /\ b[v] <= c[v]
                      /\ c[v] = b[v] \/ \E n \in near : n[2] = v /\ c[v] = Wide(g, x, n)
                      /\ \A n \in near : n[2] = v => Wide(g, x, n) <= c[v]
    OBVIOUS
  <2>1. b[v] \in Nat
    BY <1>1
  <2>2. /\ c[v] \in Nat /\ b[v] <= c[v]
        /\ c[v] = b[v] \/ \E n \in near : n[2] = v /\ c[v] = Wide(g, x, n)
        /\ \A n \in near : n[2] = v => Wide(g, x, n) <= c[v]
    <3>1. IsNear(g, u, near)
      BY <1>7 DEF IsNear
    <3> QED
      BY <1>1, <1>5, <3>1, BetterIs
  <2> QED
    BY <2>1, <2>2
<1>10. \A v \in s \cup {u} : v \in Names(g) /\ c[v] = b[v] /\ b[v] >= x.width /\ b[v] \in Nat
  <2> SUFFICES ASSUME NEW v \in s \cup {u}
               PROVE  v \in Names(g) /\ c[v] = b[v] /\ b[v] >= x.width /\ b[v] \in Nat
    OBVIOUS
  <2>1. v \in Names(g)
    BY <1>1, <1>5
  <2>2. c[v] = b[v] /\ b[v] \in Nat
    BY <1>7, <1>9, <2>1
  <2>3. x.width <= b[v]
    <3>1. CASE v \in s
      BY <1>4, <3>1 DEF Search, Ahead
    <3>2. CASE v = u
      BY <1>5, <1>6, <3>2
    <3> QED
      BY <3>1, <3>2
  <2> QED
    BY <1>5, <2>1, <2>2, <2>3
<1>11. c \in [Names(g) -> Nat]
  <2>1. c = [v \in Names(g) |-> c[v]]
    BY DEF Better
  <2> QED
    BY <1>9, <2>1
<1>12. \A n \in near : Onward(g, x, n[1], n[2]).width = Wide(g, x, n)
                       /\ Onward(g, x, n[1], n[2]).path = Append(x.path, n[2])
  BY DEF Onward, Wide
<1>13. \A n \in Entered(g, x, b, near) : n \in near /\ Onward(g, x, n[1], n[2]) \in k
  BY DEF Entered, HeapAfter
<1>14. \A y \in k : y \in h \/ \E n \in near : y = Onward(g, x, n[1], n[2])
  BY DEF HeapAfter, Entered
<1>15. \A n \in near : LET y == Onward(g, x, n[1], n[2]) IN
         /\ Len(y.path) = Len(x.path) + 1 /\ Last(y.path) = n[2]
         /\ \A i \in 1 .. Len(x.path) : y.path[i] = x.path[i]
  <2> SUFFICES ASSUME NEW n \in near
               PROVE  LET y == Onward(g, x, n[1], n[2]) IN
                      /\ Len(y.path) = Len(x.path) + 1 /\ Last(y.path) = n[2]
                      /\ \A i \in 1 .. Len(x.path) : y.path[i] = x.path[i]
    OBVIOUS
  <2>1. x.path \in Seq(Names(g)) /\ n[2] \in Names(g)
    BY <1>3, <1>4, <1>8
  <2> DEFINE p == x.path
             q == Append(p, n[2])
  <2>2. Len(q) = Len(p) + 1 /\ q[Len(q)] = n[2] /\ \A i \in 1 .. Len(p) : q[i] = p[i]
    BY <2>1
  <2>3. Onward(g, x, n[1], n[2]).path = q
    BY <1>12
  <2> HIDE DEF p, q
  <2> QED
    BY <2>2, <2>3 DEF p, Last
<1>16. OnRoutes(g, from, k, c, s \cup {u})
  <2> SUFFICES ASSUME NEW y \in k
               PROVE  /\ Route(g, y, from) /\ y.width <= c[Last(y.path)]
                      /\ \A i \in 1 .. Len(y.path) - 1 : y.path[i] \in s \cup {u}
    BY DEF OnRoutes
  <2>1. CASE y \in h
    <3>1. Last(y.path) \in Names(g) /\ y.width \in Nat
      BY <1>3, <2>1
    <3>2. y.width <= b[Last(y.path)] /\ b[Last(y.path)] <= c[Last(y.path)]
          /\ b[Last(y.path)] \in Nat /\ c[Last(y.path)] \in Nat
      BY <1>2, <1>9, <2>1, <3>1
    <3> QED
      BY <1>2, <2>1, <3>1, <3>2
  <2>2. CASE \E n \in near : y = Onward(g, x, n[1], n[2])
    <3>1. PICK n \in near : y = Onward(g, x, n[1], n[2])
      BY <2>2
    <3>2. /\ Len(y.path) = Len(x.path) + 1 /\ Last(y.path) = n[2]
          /\ \A i \in 1 .. Len(x.path) : y.path[i] = x.path[i]
      BY <1>15, <3>1
    <3>3. \A i \in 1 .. Len(x.path) : x.path[i] \in s \cup {u}
      <4>1. Len(x.path) \in Nat /\ Len(x.path) >= 1
        BY <1>3, <1>4
      <4>2. \A i \in 1 .. Len(x.path) : i \in 1 .. Len(x.path) - 1 \/ i = Len(x.path)
        BY <4>1
      <4>3. \A i \in 1 .. Len(x.path) - 1 : x.path[i] \in s
        BY <1>2, <1>4
      <4> QED
        BY <1>5, <4>2, <4>3
    <3>4. Route(g, y, from)
      <4>1. DOMAIN x.path = 1 .. Len(x.path)
        BY <1>3, <1>4
      <4>2. \A i \in DOMAIN x.path : x.path[i] # n[2]
        BY <1>7, <3>3, <4>1
      <4>3. <<n[1], n[2]>> \in Beside(g, x.path[Len(x.path)])
        BY <1>5, <1>7 DEF Beside
      <4> QED
        BY <1>2, <1>4, <1>8, <3>1, <4>2, <4>3, RouteOn
    <3>5. y.width <= c[Last(y.path)]
      BY <1>8, <1>9, <1>12, <3>1, <3>2
    <3>6. \A i \in 1 .. Len(y.path) - 1 : i \in 1 .. Len(x.path)
      BY <1>3, <1>4, <3>2
    <3> QED
      BY <3>2, <3>3, <3>4, <3>5, <3>6
  <2> QED
    BY <1>14, <2>1, <2>2
<1>17. Frontier(g, from, k, c, s \cup {u})
  <2> SUFFICES ASSUME NEW v \in Names(g) \ (s \cup {u}), c[v] > 0 \/ v = from
               PROVE  \E y \in k : Last(y.path) = v /\ y.width = c[v]
    BY DEF Frontier
  <2>1. CASE c[v] = b[v]
    <3>1. PICK y \in h : Last(y.path) = v /\ y.width = b[v]
      BY <2>1 DEF Search, Frontier
    <3>2. y \in k
      BY <3>1 DEF HeapAfter
    <3> QED
      BY <2>1, <3>1, <3>2
  <2>2. CASE c[v] # b[v]
    <3> DEFINE T == {j \in DOMAIN g.edges : <<j, v>> \in near /\ Wide(g, x, <<j, v>>) = c[v]}
    <3>1. PICK n \in near : n[2] = v /\ c[v] = Wide(g, x, n)
      BY <1>9, <2>2
    <3>2. n = <<n[1], v>>
      BY <1>7, <3>1 DEF Beside
    <3>3. T # {} /\ T \in SUBSET Nat
      <4>1. n[1] \in T
        BY <1>8, <3>1, <3>2
      <4>2. DOMAIN g.edges \subseteq Nat
        BY DEF GoodGraph
      <4> QED
        BY <4>1, <4>2
    <3>4. PICK j \in T : \A i \in T : j <= i
      <4> HIDE DEF T
      <4> QED
        BY <3>3, LeastElement
    <3> DEFINE m == <<j, v>>
    <3>5. m \in near /\ Wide(g, x, m) = c[v] /\ j \in Nat
      BY <3>3, <3>4
    <3>6. m \in Entered(g, x, b, near)
      <4>1. Wide(g, x, m) > b[m[2]]
        BY <1>9, <2>2, <3>5
      <4>2. ASSUME NEW a \in near, a[2] = m[2], a[1] < m[1]
            PROVE  Wide(g, x, a) < Wide(g, x, m)
        <5>1. a = <<a[1], v>> /\ a[1] \in DOMAIN g.edges
          BY <1>7, <1>8, <4>2 DEF Beside
        <5>2. Wide(g, x, a) <= c[v] /\ Wide(g, x, a) \in Nat /\ c[v] \in Nat
          BY <1>8, <1>9, <4>2
        <5>3. a[1] \notin T
          <6> DEFINE i == a[1]
          <6> SUFFICES ASSUME i \in T PROVE FALSE
            OBVIOUS
          <6>1. i \in Nat
            BY <3>3
          <6>2. j <= i
            BY <3>4
          <6>3. i < j
            BY <4>2
          <6> HIDE DEF T, i
          <6> QED
            BY <3>5, <6>1, <6>2, <6>3
        <5>4. Wide(g, x, a) # c[v]
          <6> SUFFICES ASSUME Wide(g, x, a) = c[v] PROVE FALSE
            OBVIOUS
          <6> DEFINE i == a[1]
          <6>1. i \in DOMAIN g.edges
            BY <5>1
          <6>2. a = <<i, v>>
            BY <5>1
          <6> HIDE DEF i
          <6>3. <<i, v>> \in near
            BY <4>2, <6>2
          <6>4. Wide(g, x, <<i, v>>) = c[v]
            BY <6>2
          <6>5. i \in T
            BY <6>1, <6>3, <6>4
          <6> QED
            BY <5>3, <6>5 DEF i
        <5> QED
          BY <3>5, <5>2, <5>4
      <4> QED
        BY <3>5, <4>1, <4>2 DEF Entered
    <3> HIDE DEF T, m
    <3>7. Onward(g, x, m[1], m[2]) \in k
      BY <1>13, <3>6
    <3>8. Last(Onward(g, x, m[1], m[2]).path) = v
      BY <1>15, <3>5 DEF m
    <3>9. Onward(g, x, m[1], m[2]).width = c[v]
      BY <1>12, <3>5
    <3> QED
      BY <3>7, <3>8, <3>9
  <2> QED
    BY <2>1, <2>2
<1>18. Ahead(k, c, s \cup {u})
  <2> SUFFICES ASSUME NEW v \in s \cup {u}, NEW y \in k PROVE y.width <= c[v]
    BY DEF Ahead
  <2>1. y.width <= x.width /\ y.width \in Nat
    BY <1>3, <1>4, <1>8, <1>12, <1>14
  <2> QED
    BY <1>5, <1>10, <2>1
<1>19. PassedOn(g, c, s \cup {u})
  <2> SUFFICES ASSUME NEW a \in s \cup {u}, NEW n \in Beside(g, a), NEW w \in Nat,
                      w <= c[a], w <= EdgeWidth(g, n[1]), w <= NodeWidth(g, n[2])
               PROVE  w <= c[n[2]]
    BY DEF PassedOn
  <2>1. n[2] \in Names(g) /\ c[n[2]] \in Nat /\ b[n[2]] \in Nat /\ b[n[2]] <= c[n[2]]
    BY <1>9, BesideNat
  <2>2. CASE a \in s
    <3>1. w <= b[a]
      BY <1>10, <2>2
    <3>2. w <= b[n[2]]
      BY <2>2, <3>1 DEF Search, PassedOn
    <3> QED
      BY <2>1, <3>2
  <2>3. CASE a = u
    <3>1. w <= x.width
      BY <1>5, <1>6, <1>10, <2>3
    <3>2. CASE n[2] \in s \cup {u}
      BY <1>5, <1>10, <3>1, <3>2
    <3>3. CASE n[2] \notin s \cup {u}
      <4>1. n \in near
        BY <2>3, <3>3 DEF Near
      <4>2. Wide(g, x, n) \in {x.width, EdgeWidth(g, n[1]), NodeWidth(g, n[2])}
        BY <1>5, WideNat
      <4>3. w <= Wide(g, x, n)
        BY <3>1, <4>2
      <4>4. Wide(g, x, n) <= c[n[2]] /\ Wide(g, x, n) \in Nat
        BY <1>8, <1>9, <2>1, <4>1
      <4> QED
        BY <2>1, <4>3, <4>4
    <3> QED
      BY <3>2, <3>3
  <2> QED
    BY <2>2, <2>3
<1>20. NodeWidth(g, from) <= c[from]
  <2>1. NodeWidth(g, from) \in Nat
    BY <1>1, NodeNat
  <2> QED
    BY <1>1, <1>9, <2>1
<1> QED
  BY <1>1, <1>5, <1>11, <1>16, <1>17, <1>18, <1>19, <1>20 DEF Search

\* A path to a settled node may be dropped.
LEMMA AgainKeeps ==
  ASSUME NEW g, NEW from, NEW to, NEW h, NEW b, NEW s, Search(g, from, to, h, b, s),
         NEW x \in h, Last(x.path) \in s
  PROVE  Search(g, from, to, h \ {x}, b, s)
<1>1. OnRoutes(g, from, h \ {x}, b, s) /\ Ahead(h \ {x}, b, s)
  BY DEF Search, OnRoutes, Ahead
<1>2. Frontier(g, from, h \ {x}, b, s)
  BY DEF Search, Frontier
<1> QED
  BY <1>1, <1>2 DEF Search

------------------------------------------------------------------------------
(***************************************************************************)
(* What a width joins to a node: the recursive function of the property    *)
(* exists, stays in each set that is closed under wide edges, and holds    *)
(* the end of each wide route.                                             *)
(***************************************************************************)
WideNames(g, w) == {n.name : n \in {m \in Range(g.nodes) : AggBandwidth(m) >= w}}
Spread(g, w, near) ==
  near \cup ({n[2] : n \in {m \in UNION {Beside(g, u) : u \in near} : EdgeWidth(g, m[1]) >= w}}
               \cap WideNames(g, w))
Spreads(r, g, from, w) ==
  r = [k \in 0 .. Len(g.nodes) |-> IF k = 0 THEN {from} \cap WideNames(g, w)
                                   ELSE Spread(g, w, r[k - 1])]
ReachOf(g, from, w) == (CHOOSE r : Spreads(r, g, from, w))[Len(g.nodes)]

SpreadsTo(r, g, from, w, m) ==
  /\ r[0] = {from} \cap WideNames(g, w)
  /\ \A k \in 1 .. m : r[k] = Spread(g, w, r[k - 1])

LEMMA SpreadStep ==
  ASSUME NEW g, NEW from, NEW w, NEW m \in Nat, NEW r, SpreadsTo(r, g, from, w, m)
  PROVE  \E q : SpreadsTo(q, g, from, w, m + 1)
<1> DEFINE q == [k \in 0 .. m + 1 |-> IF k <= m THEN r[k] ELSE Spread(g, w, r[m])]
<1>1. q[0] = r[0]
  OBVIOUS
<1>2. ASSUME NEW k \in 1 .. m + 1 PROVE q[k] = Spread(g, w, q[k - 1])
  <2>1. q[k - 1] = r[k - 1]
    OBVIOUS
  <2>2. CASE k <= m
    <3>1. k \in 1 .. m /\ q[k] = r[k]
      BY <2>2
    <3>2. r[k] = Spread(g, w, r[k - 1])
      BY <3>1 DEF SpreadsTo
    <3> QED
      BY <2>1, <3>1, <3>2
  <2>3. CASE ~(k <= m)
    <3>1. k = m + 1 /\ q[k] = Spread(g, w, r[m]) /\ k - 1 = m
      BY <2>3
    <3> QED
      BY <2>1, <3>1
  <2> QED
    BY <2>2, <2>3
<1>3. SpreadsTo(q, g, from, w, m + 1)
  <2> HIDE DEF q
  <2> QED
    BY <1>1, <1>2 DEF SpreadsTo
<1> QED
  BY <1>3

LEMMA ReachExists ==
  ASSUME NEW g, GoodGraph(g), NEW from, NEW w
  PROVE  \E r : Spreads(r, g, from, w)
<1> DEFINE W == {m \in Nat : ~(\E r : SpreadsTo(r, g, from, w, m))}
<1>1. W = {}
  <2> SUFFICES ASSUME W # {} PROVE FALSE
    OBVIOUS
  <2>1. PICK m \in W : \A n \in W : m <= n
    <3>1. W \in SUBSET Nat
      OBVIOUS
    <3> HIDE DEF W
    <3> QED
      BY <3>1, LeastElement
  <2>2. CASE m = 0
    <3> DEFINE q == [k \in {0} |-> {from} \cap WideNames(g, w)]
    <3>1. SpreadsTo(q, g, from, w, 0)
      BY DEF SpreadsTo
    <3> QED
      BY <2>2, <3>1
  <2>3. CASE m # 0
    <3>1. m - 1 \in Nat /\ ~(m <= m - 1) /\ (m - 1) + 1 = m
      BY <2>3
    <3>2. PICK r : SpreadsTo(r, g, from, w, m - 1)
      BY <2>1, <3>1
    <3>3. \E q : SpreadsTo(q, g, from, w, m)
      BY <3>1, <3>2, SpreadStep
    <3> QED
      BY <3>3
  <2> QED
    BY <2>2, <2>3
<1>2. Len(g.nodes) \in Nat
  BY DEF GoodGraph
<1>3. PICK r : SpreadsTo(r, g, from, w, Len(g.nodes))
  BY <1>1, <1>2
<1> DEFINE l == Len(g.nodes)
           q == [k \in 0 .. l |-> r[k]]
<1>4. Spreads(q, g, from, w)
  <2>1. ASSUME NEW k \in 0 .. l
        PROVE  r[k] = IF k = 0 THEN {from} \cap WideNames(g, w) ELSE Spread(g, w, q[k - 1])
    <3>1. CASE k = 0
      BY <1>3, <3>1 DEF SpreadsTo
    <3>2. CASE k # 0
      <4>1. k \in 1 .. l /\ k - 1 \in 0 .. l
        BY <1>2, <3>2
      <4>2. q[k - 1] = r[k - 1]
        BY <4>1
      <4>3. r[k] = Spread(g, w, r[k - 1])
        BY <1>3, <4>1 DEF SpreadsTo
      <4> QED
        BY <3>2, <4>2, <4>3
    <3> QED
      BY <3>1, <3>2
  <2>2. q = [k \in 0 .. l |-> IF k = 0 THEN {from} \cap WideNames(g, w)
                              ELSE Spread(g, w, q[k - 1])]
    BY <2>1
  <2> HIDE DEF q
  <2> QED
    BY <2>2 DEF Spreads
<1> QED
  BY <1>4

LEMMA ReachUnfold ==
  ASSUME NEW g, GoodGraph(g), NEW from, NEW w
  PROVE  \E r : SpreadsTo(r, g, from, w, Len(g.nodes)) /\ ReachOf(g, from, w) = r[Len(g.nodes)]
<1> DEFINE r == CHOOSE q : Spreads(q, g, from, w)
           l == Len(g.nodes)
<1>1. Spreads(r, g, from, w)
  BY ReachExists
<1>2. ReachOf(g, from, w) = r[l] /\ l \in Nat
  BY DEF ReachOf, GoodGraph
<1> HIDE DEF r
<1>3. \A k \in 0 .. l : r[k] = IF k = 0 THEN {from} \cap WideNames(g, w)
                               ELSE Spread(g, w, r[k - 1])
  BY <1>1 DEF Spreads
<1>4. 0 \in 0 .. l /\ \A k \in 1 .. l : k \in 0 .. l /\ k # 0
  BY <1>2
<1> HIDE DEF l
<1>5. SpreadsTo(r, g, from, w, l)
  BY <1>3, <1>4 DEF SpreadsTo
<1> QED
  BY <1>2, <1>5 DEF l

LEMMA WideName ==
  ASSUME NEW g, GoodGraph(g), NEW w, NEW v
  PROVE  v \in WideNames(g, w) <=> v \in Names(g) /\ NodeWidth(g, v) >= w
<1>1. ASSUME v \in WideNames(g, w) PROVE v \in Names(g) /\ NodeWidth(g, v) >= w
  <2>1. PICK i \in DOMAIN g.nodes : g.nodes[i].name = v /\ AggBandwidth(g.nodes[i]) >= w
    BY <1>1 DEF WideNames, Range
  <2>2. v \in Names(g)
    BY <2>1 DEF Names
  <2>3. PICK j \in DOMAIN g.nodes : g.nodes[j].name = v /\ NodeOf(g, v) = g.nodes[j]
    BY <2>2, NodeAt
  <2>4. i = j
    BY <2>1, <2>3 DEF GoodGraph
  <2> QED
    BY <2>1, <2>2, <2>3, <2>4 DEF NodeWidth
<1>2. ASSUME v \in Names(g), NodeWidth(g, v) >= w PROVE v \in WideNames(g, w)
  BY <1>2, NodeIs DEF WideNames, NodeWidth
<1> QED
  BY <1>1, <1>2

\* A set that holds the first node, if it is wide, and with a node all that wide
\* edges join it to.
Closed(g, from, w, P) ==
  /\ NodeWidth(g, from) >= w => from \in P
  /\ \A u \in P : \A n \in Beside(g, u) :
       EdgeWidth(g, n[1]) >= w /\ NodeWidth(g, n[2]) >= w => n[2] \in P

LEMMA ReachWithin ==
  ASSUME NEW g, GoodGraph(g), NEW from, NEW w, NEW P, Closed(g, from, w, P)
  PROVE  ReachOf(g, from, w) \subseteq P
<1> DEFINE l == Len(g.nodes)
<1>1. PICK r : SpreadsTo(r, g, from, w, l) /\ ReachOf(g, from, w) = r[l]
  BY ReachUnfold
<1>2. l \in Nat
  BY DEF GoodGraph
<1> DEFINE W == {k \in 0 .. l : ~(r[k] \subseteq P)}
<1>3. W = {}
  <2> SUFFICES ASSUME W # {} PROVE FALSE
    OBVIOUS
  <2>1. PICK m \in W : \A n \in W : m <= n
    <3>1. W \in SUBSET Nat
      BY <1>2
    <3> HIDE DEF W
    <3> QED
      BY <3>1, LeastElement
  <2>2. CASE m = 0
    <3>1. r[0] \subseteq P
      BY <1>1, WideName DEF SpreadsTo, Closed
    <3> QED
      BY <2>2, <3>1
  <2>3. CASE m # 0
    <3>1. m \in 1 .. l /\ m - 1 \in 0 .. l /\ ~(m <= m - 1)
      BY <1>2, <2>3
    <3>2. r[m - 1] \subseteq P
      BY <2>1, <3>1
    <3>3. r[m] = Spread(g, w, r[m - 1])
      BY <1>1, <3>1 DEF SpreadsTo
    <3> DEFINE near == r[m - 1]
    <3> HIDE DEF near
    <3>4. Spread(g, w, near) \subseteq P
      <4> SUFFICES ASSUME NEW v \in Spread(g, w, near), v \notin near PROVE v \in P
        BY <3>2 DEF near
      <4>1. PICK u \in near : \E n \in Beside(g, u) : /\ EdgeWidth(g, n[1]) >= w /\ n[2] = v
                                                     /\ v \in WideNames(g, w)
        BY DEF Spread
      <4> QED
        BY <3>2, <4>1, WideName DEF Closed, near
    <3> QED
      BY <3>3, <3>4 DEF near
  <2> QED
    BY <2>2, <2>3
<1>4. l \in 0 .. l
  BY <1>2
<1> QED
  BY <1>1, <1>3, <1>4

LEMMA ReachGrows ==
  ASSUME NEW g, NEW from, NEW w, NEW l \in Nat, NEW r, SpreadsTo(r, g, from, w, l),
         NEW j \in 0 .. l, NEW v \in r[j]
  PROVE  v \in r[l]
<1> DEFINE W == {k \in Nat : k >= j /\ k <= l /\ v \notin r[k]}
<1>1. W = {}
  <2> SUFFICES ASSUME W # {} PROVE FALSE
    OBVIOUS
  <2>1. PICK m \in W : \A n \in W : m <= n
    <3>1. W \in SUBSET Nat
      OBVIOUS
    <3> HIDE DEF W
    <3> QED
      BY <3>1, LeastElement
  <2>2. m # j /\ m \in 1 .. l /\ m - 1 \in Nat /\ m - 1 >= j /\ ~(m <= m - 1)
    OBVIOUS
  <2>3. v \in r[m - 1]
    BY <2>1, <2>2
  <2>4. r[m] = Spread(g, w, r[m - 1])
    BY <2>2 DEF SpreadsTo
  <2> DEFINE near == r[m - 1]
  <2> HIDE DEF near
  <2>5. v \in Spread(g, w, near)
    BY <2>3 DEF Spread, near
  <2>6. v \in r[m]
    BY <2>4, <2>5 DEF near
  <2> QED
    BY <2>6
<1>2. l >= j /\ l <= l
  OBVIOUS
<1> QED
  BY <1>1, <1>2

\* A path without a node twice has no more nodes than the graph.
LEMMA PathShort ==
  ASSUME NEW g, GoodGraph(g), NEW p \in Seq(Names(g)), NoneTwice(p)
  PROVE  Len(p) <= Len(g.nodes)
<1>1. Len(p) \in Nat /\ Len(g.nodes) \in Nat /\ DOMAIN p = 1 .. Len(p)
      /\ DOMAIN g.nodes = 1 .. Len(g.nodes)
  BY DEF GoodGraph
<1>2. /\ IsFiniteSet(1 .. Len(p)) /\ Cardinality(1 .. Len(p)) = Len(p)
      /\ IsFiniteSet(1 .. Len(g.nodes)) /\ Cardinality(1 .. Len(g.nodes)) = Len(g.nodes)
  <2>1. ASSUME NEW n \in Nat PROVE IsFiniteSet(1 .. n) /\ Cardinality(1 .. n) = n
    <3>1. IsFiniteSet(1 .. n) /\ Cardinality(1 .. n) = IF 1 > n THEN 0 ELSE n - 1 + 1
      BY FS_Interval
    <3> QED
      BY <3>1
  <2> QED
    BY <1>1, <2>1
<1>3. [i \in 1 .. Len(g.nodes) |-> g.nodes[i].name] \in Surjection(1 .. Len(g.nodes), Names(g))
  BY <1>1 DEF Surjection, Names
<1>4. IsFiniteSet(Names(g)) /\ Cardinality(Names(g)) <= Len(g.nodes)
  BY <1>2, <1>3, FS_Surjection
<1>5. p \in Injection(1 .. Len(p), Names(g))
  <2>1. p \in [1 .. Len(p) -> Names(g)]
    OBVIOUS
  <2>2. \A i, j \in 1 .. Len(p) : p[i] = p[j] => i = j
    BY <1>1 DEF NoneTwice
  <2> DEFINE D == 1 .. Len(p)
  <2> HIDE DEF D
  <2>3. p \in Injection(D, Names(g))
    BY <2>1, <2>2 DEF Injection, IsInjective, D
  <2> QED
    BY <2>3 DEF D
<1>6. Len(p) <= Cardinality(Names(g))
  BY <1>2, <1>4, <1>5, FS_Injection
<1>7. Cardinality(Names(g)) \in Nat
  BY <1>4, FS_CardinalityType
<1> QED
  BY <1>1, <1>4, <1>6, <1>7

LEMMA RouteReaches ==
  ASSUME NEW g, GoodGraph(g), NEW x, NEW from, Route(g, x, from)
  PROVE  Last(x.path) \in ReachOf(g, from, x.width)
<1> DEFINE p == x.path
           l == Len(g.nodes)
           w == x.width
<1>1. PICK taken : Goes(g, x, taken)
  BY DEF Route
<1>2. /\ p \in Seq(Names(g)) /\ Len(p) >= 1 /\ p[1] = from /\ NoneTwice(p) /\ w \in Nat
      /\ Len(p) \in Nat /\ DOMAIN p = 1 .. Len(p)
  BY DEF Route
<1>3. PICK r : SpreadsTo(r, g, from, w, l) /\ ReachOf(g, from, w) = r[l]
  BY ReachUnfold
<1>4. l \in Nat /\ Len(p) <= l
  BY <1>2, PathShort DEF GoodGraph
<1>5. \A i \in 1 .. Len(p) : p[i] \in WideNames(g, w)
  <2> SUFFICES ASSUME NEW i \in 1 .. Len(p) PROVE p[i] \in WideNames(g, w)
    OBVIOUS
  <2>1. p[i] \in Names(g)
    BY <1>2
  <2>2. NodeWidth(g, p[i]) \in Widths(g, p, taken)
    BY <1>2 DEF Widths, Through, NodeWidth
  <2>3. w <= NodeWidth(g, p[i]) /\ NodeWidth(g, p[i]) \in Nat
    BY <1>1, <2>1, <2>2, NodeNat DEF Goes
  <2> QED
    BY <1>2, <2>1, <2>3, WideName
<1>6. \A i \in Hops(p) : /\ <<taken[i], p[i + 1]>> \in Beside(g, p[i])
                         /\ EdgeWidth(g, taken[i]) >= w
  <2> SUFFICES ASSUME NEW i \in Hops(p)
               PROVE  <<taken[i], p[i + 1]>> \in Beside(g, p[i]) /\ EdgeWidth(g, taken[i]) >= w
    OBVIOUS
  <2>1. <<taken[i], p[i + 1]>> \in Beside(g, p[i])
    BY <1>1 DEF Goes, Joins
  <2>2. EdgeWidth(g, taken[i]) \in Widths(g, p, taken)
    BY DEF Widths
  <2>3. w <= EdgeWidth(g, taken[i])
    BY <1>1, <2>2 DEF Goes
  <2>4. EdgeWidth(g, taken[i]) \in Nat
    <3>1. taken[i] \in DOMAIN g.edges
      BY <1>1 DEF Goes, Joins
    <3> QED
      BY <3>1, EdgeAt DEF EdgeWidth
  <2> QED
    BY <1>2, <2>1, <2>3, <2>4
<1> HIDE DEF p, w, l
<1> DEFINE W == {i \in 1 .. Len(p) : p[i] \notin r[i - 1]}
<1>7. W = {}
  <2> SUFFICES ASSUME W # {} PROVE FALSE
    OBVIOUS
  <2>1. PICK m \in W : \A n \in W : m <= n
    <3>1. W \in SUBSET Nat
      OBVIOUS
    <3> HIDE DEF W
    <3> QED
      BY <3>1, LeastElement
  <2>2. CASE m = 1
    <3>1. p[1] \in r[0]
      BY <1>2, <1>3, <1>5, <2>2 DEF SpreadsTo
    <3> QED
      BY <2>2, <3>1
  <2>3. CASE m # 1
    <3> DEFINE k == m - 1
    <3>1. k \in 1 .. Len(p) /\ k \in Hops(p) /\ k + 1 = m /\ k \in 1 .. l /\ ~(m <= k)
          /\ m \in 1 .. Len(p)
      BY <1>2, <1>4, <2>3 DEF Hops
    <3>2. p[k] \in r[k - 1]
      BY <2>1, <3>1
    <3> HIDE DEF k
    <3>3. r[k] = Spread(g, w, r[k - 1])
      BY <1>3, <3>1 DEF SpreadsTo
    <3> DEFINE near == r[k - 1]
    <3> HIDE DEF near
    <3>4. <<taken[k], p[m]>> \in Beside(g, p[k]) /\ EdgeWidth(g, taken[k]) >= w
      BY <1>6, <3>1
    <3>5. p[m] \in Spread(g, w, near)
      <4> DEFINE n == <<taken[k], p[m]>>
      <4>1. n \in Beside(g, p[k]) /\ EdgeWidth(g, n[1]) >= w /\ n[2] = p[m]
        BY <3>4
      <4>2. p[m] \in WideNames(g, w)
        BY <1>5, <3>1
      <4>3. p[k] \in near
        BY <3>2 DEF near
      <4> HIDE DEF n
      <4> QED
        BY <4>1, <4>2, <4>3 DEF Spread
    <3>6. p[m] \in r[m - 1]
      BY <3>3, <3>5 DEF near, k
    <3> QED
      BY <3>6
  <2> QED
    BY <2>2, <2>3
<1>8. p[Len(p)] \in r[Len(p) - 1] /\ Len(p) - 1 \in 0 .. l
  <2>1. Len(p) \in 1 .. Len(p)
    BY <1>2
  <2>2. p[Len(p)] \in r[Len(p) - 1]
    BY <1>7, <2>1
  <2> QED
    BY <1>2, <1>4, <2>2
<1>9. p[Len(p)] \in r[l]
  BY <1>3, <1>4, <1>8, ReachGrows
<1> QED
  BY <1>3, <1>9 DEF Last, p, w

------------------------------------------------------------------------------
(***************************************************************************)
(* The answer.                                                             *)
(***************************************************************************)
BreadthsOf(g) == {AggBandwidth(n) : n \in Range(g.nodes)}
                   \cup {EdgeWidth(g, i) : i \in DOMAIN g.edges}
Carried(g, from, to) == {0} \cup {w \in BreadthsOf(g) : to \in ReachOf(g, from, w)}

Best(g, from, to, x) ==
  /\ x.width = Max(Carried(g, from, to))
  /\ x # NoPath => Route(g, x, from) /\ Last(x.path) = to

LEMMA BreadthsNat ==
  ASSUME NEW g, GoodGraph(g)
  PROVE  BreadthsOf(g) \in SUBSET Nat
<1>1. \A n \in Range(g.nodes) : AggBandwidth(n) \in Nat
  BY AggWidthNat DEF GoodGraph, Range
<1>2. \A i \in DOMAIN g.edges : EdgeWidth(g, i) \in Nat
  BY EdgeAt DEF EdgeWidth
<1> QED
  BY <1>1, <1>2 DEF BreadthsOf

\* No width above all that is in the heap joins the two nodes.
LEMMA NoneWider ==
  ASSUME NEW g, GoodGraph(g), NEW from, NEW to, NEW h, NEW b, NEW s,
         Search(g, from, to, h, b, s), NEW w \in Nat, w > 0, \A y \in h : y.width < w
  PROVE  to \notin ReachOf(g, from, w)
<1> DEFINE P == {v \in Names(g) : b[v] >= w}
<1>1. /\ from \in Names(g) /\ b \in [Names(g) -> Nat] /\ to \notin s
      /\ NodeWidth(g, from) <= b[from]
  BY DEF Search
<1>2. P \subseteq s
  <2> SUFFICES ASSUME NEW v \in Names(g), b[v] >= w, v \notin s PROVE FALSE
    OBVIOUS
  <2>1. b[v] \in Nat /\ b[v] > 0
    BY <1>1
  <2>2. PICK y \in h : y.width = b[v]
    BY <2>1 DEF Search, Frontier
  <2>3. b[v] < w
    BY <2>2
  <2> QED
    BY <2>1, <2>3
<1>3. Closed(g, from, w, P)
  <2>1. NodeWidth(g, from) >= w => from \in P
    <3>1. NodeWidth(g, from) \in Nat /\ b[from] \in Nat
      BY <1>1, NodeNat
    <3> QED
      BY <1>1, <3>1
  <2>2. ASSUME NEW u \in P, NEW n \in Beside(g, u),
               EdgeWidth(g, n[1]) >= w, NodeWidth(g, n[2]) >= w
        PROVE  n[2] \in P
    <3>1. u \in s /\ b[u] \in Nat /\ b[u] >= w
      BY <1>1, <1>2
    <3>2. n[2] \in Names(g) /\ EdgeWidth(g, n[1]) \in Nat /\ NodeWidth(g, n[2]) \in Nat
          /\ b[n[2]] \in Nat
      BY <1>1, BesideNat, NodeNat
    <3>3. w <= b[u] /\ w <= EdgeWidth(g, n[1]) /\ w <= NodeWidth(g, n[2])
      BY <2>2, <3>1, <3>2
    <3>4. w <= b[n[2]]
      BY <3>1, <3>3 DEF Search, PassedOn
    <3> QED
      BY <3>2, <3>4
  <2> HIDE DEF P
  <2> QED
    BY <2>1, <2>2 DEF Closed
<1>4. ReachOf(g, from, w) \subseteq P
  <2> HIDE DEF P
  <2> QED
    BY <1>3, ReachWithin
<1> QED
  BY <1>1, <1>2, <1>4

LEMMA ArriveBest ==
  ASSUME NEW g, GoodGraph(g), NEW from, NEW to, NEW h, NEW b, NEW s,
         Search(g, from, to, h, b, s), NEW x, Widest(h, x), Last(x.path) = to
  PROVE  Best(g, from, to, x)
<1>1. x \in h /\ Route(g, x, from) /\ \A y \in h : y.width <= x.width
  BY DEF Search, OnRoutes, Widest
<1>2. x.width \in Nat /\ \A y \in h : y.width \in Nat
  BY <1>1 DEF Route, Search, OnRoutes
<1>3. Carried(g, from, to) \in SUBSET Nat
  BY BreadthsNat DEF Carried
<1>4. x.width \in Carried(g, from, to)
  <2>1. PICK taken : Goes(g, x, taken)
    BY <1>1 DEF Route
  <2>2. x.width \in Widths(g, x.path, taken)
    BY <2>1 DEF Goes
  <2>3. \A n \in Through(g, x.path) : n \in Range(g.nodes)
    BY <1>1, NodeIs DEF Through, Route
  <2>4. \A i \in Hops(x.path) : taken[i] \in DOMAIN g.edges
    BY <2>1 DEF Goes, Joins
  <2>5. x.width \in BreadthsOf(g)
    BY <2>2, <2>3, <2>4 DEF Widths, BreadthsOf
  <2> QED
    BY <1>1, <2>5, RouteReaches DEF Carried
<1>5. ASSUME NEW w \in Carried(g, from, to) PROVE w <= x.width
  <2> SUFFICES ASSUME ~(w <= x.width) PROVE FALSE
    OBVIOUS
  <2>1. w \in Nat /\ w > 0 /\ x.width < w
    BY <1>2, <1>3
  <2>2. \A y \in h : y.width < w
    BY <1>1, <1>2, <2>1
  <2>3. to \in ReachOf(g, from, w)
    BY <2>1 DEF Carried
  <2> QED
    BY <2>1, <2>2, <2>3, NoneWider
<1>6. Max(Carried(g, from, to)) = x.width
  BY <1>3, <1>4, <1>5, MaxIs
<1> QED
  BY <1>1, <1>6 DEF Best

LEMMA UnreachableBest ==
  ASSUME NEW g, GoodGraph(g), NEW from, NEW to, NEW b, NEW s, Search(g, from, to, {}, b, s)
  PROVE  Best(g, from, to, NoPath)
<1>1. Carried(g, from, to) \in SUBSET Nat
  BY BreadthsNat DEF Carried
<1>2. ASSUME NEW w \in Carried(g, from, to) PROVE w <= 0
  <2> SUFFICES ASSUME ~(w <= 0) PROVE FALSE
    OBVIOUS
  <2>1. w \in Nat /\ w > 0
    BY <1>1
  <2>2. to \in ReachOf(g, from, w)
    BY <2>1 DEF Carried
  <2> QED
    BY <2>1, <2>2, NoneWider
<1>3. 0 \in Carried(g, from, to)
  BY DEF Carried
<1>4. Max(Carried(g, from, to)) = 0
  BY <1>1, <1>2, <1>3, MaxIs
<1> QED
  BY <1>4 DEF Best, NoPath

------------------------------------------------------------------------------
(***************************************************************************)
(* Questions, one after the other, to any valid graph between any sets of  *)
(* its nodes; a question may come before the last one is answered.         *)
(***************************************************************************)
Askable(g, srcs, dsts) ==
  GoodGraph(g) /\ srcs \in SUBSET Names(g) /\ dsts \in SUBSET Names(g)

QueryInit == \E g, srcs, dsts : Askable(g, srcs, dsts) /\ InitQuery(g, srcs, dsts)
Ask == \E g, srcs, dsts : Askable(g, srcs, dsts) /\ BeginQuery(g, srcs, dsts)
QuerySpec == QueryInit /\ [][Query \/ Ask]_queryVars

QueryOk ==
  /\ query \in {"flow", "widest", "answered"}
  /\ Askable(hw, ends.srcs, ends.dsts)
  /\ best = << >> => heap = {} /\ settled = {} /\ widest = NoPath
  /\ query = "flow" => best = << >>
  /\ query = "widest" => widest = NoPath
  /\ query = "widest" /\ best # << >> => Search(hw, From, To, heap, best, settled)
  /\ query = "answered" /\ best # << >> => Best(hw, From, To, widest)

LEMMA HeadIsWidest ==
  ASSUME NEW g, NEW from, NEW to, NEW h, NEW b, NEW s, Search(g, from, to, h, b, s),
         NEW x \in h,
         \A y \in h : x.width > y.width \/ (x.width = y.width /\ x.latency <= y.latency)
  PROVE  Widest(h, x)
<1>1. \A y \in h : y.width \in Nat
  BY DEF Search, OnRoutes, Route
<1> QED
  BY <1>1 DEF Widest

LEMMA QueryOkInit == QueryInit => QueryOk
<1> SUFFICES ASSUME NEW g, NEW srcs, NEW dsts,
                    Askable(g, srcs, dsts), InitQuery(g, srcs, dsts)
             PROVE  QueryOk
  BY DEF QueryInit
<1> QED
  BY DEF InitQuery, QueryOk

LEMMA StartOk == QueryOk /\ StartSearch => QueryOk'
<1> SUFFICES ASSUME QueryOk, StartSearch PROVE QueryOk'
  OBVIOUS
<1>1. /\ query = "widest" /\ best = << >> /\ settled = {} /\ widest = NoPath
      /\ Askable(hw, ends.srcs, ends.dsts)
      /\ Cardinality(ends.srcs) = 1 /\ Cardinality(ends.dsts) = 1
      /\ heap' = {Start(From)}
      /\ best' = [n \in Names(hw) |-> IF n = From THEN Start(From).width ELSE 0]
      /\ hw' = hw /\ ends' = ends /\ settled' = settled /\ widest' = widest /\ query' = query
  BY DEF StartSearch, QueryOk
<1>2. From \in Names(hw) /\ To \in Names(hw)
  <2>1. ends.srcs # {} /\ ends.dsts # {}
    <3>1. Cardinality({}) = 0
      BY FS_EmptySet
    <3>2. ASSUME ends.srcs = {} \/ ends.dsts = {} PROVE FALSE
      <4>1. Cardinality(ends.srcs) = 0 \/ Cardinality(ends.dsts) = 0
        BY <3>1, <3>2
      <4> QED
        BY <1>1, <4>1
    <3> QED
      BY <3>2
  <2>2. From \in ends.srcs /\ To \in ends.dsts
    BY <2>1 DEF From, To
  <2> QED
    BY <1>1, <2>2 DEF Askable
<1>3. From' = From /\ To' = To
  BY <1>1 DEF From, To
<1> DEFINE x == [width |-> NodeWidth(hw, From), latency |-> NodeOf(hw, From).latency,
                 path |-> <<From>>]
<1>4. Start(From) = x
  BY DEF Start, NodeWidth
<1> HIDE DEF x
<1>5. heap' = {x} /\ best' = [n \in Names(hw) |-> IF n = From THEN x.width ELSE 0]
  BY <1>1, <1>4
<1>6. GoodGraph(hw)
  BY <1>1 DEF Askable
<1> DEFINE b == [n \in Names(hw) |-> IF n = From THEN x.width ELSE 0]
<1>7. Search(hw, From, To, {x}, b, {})
  <2>1. x = [width |-> NodeWidth(hw, From), latency |-> NodeOf(hw, From).latency,
             path |-> <<From>>]
    BY DEF x
  <2>2. b = [n \in Names(hw) |-> IF n = From THEN x.width ELSE 0]
    OBVIOUS
  <2> HIDE DEF b
  <2> QED
    BY <1>2, <1>6, <2>1, <2>2, SearchStart
<1> HIDE DEF b
<1>8. Search(hw, From, To, heap, best, settled)'
  <2>1. best' = b
    BY <1>5 DEF b
  <2> QED
    BY <1>1, <1>3, <1>5, <1>7, <2>1
<1>9. best' # << >>
  <2>1. From \in DOMAIN best'
    BY <1>2, <1>5
  <2> QED
    BY <2>1
<1> QED
  BY <1>1, <1>8, <1>9 DEF QueryOk

LEMMA SettleOk == QueryOk /\ Settle => QueryOk'
<1> SUFFICES ASSUME QueryOk, Settle PROVE QueryOk'
  OBVIOUS
<1> DEFINE u(x) == Last(x.path)
           near(x) == Near(hw, u(x), settled)
<1>1. PICK x \in Heads :
        /\ u(x) \notin settled /\ u(x) # To
        /\ settled' = settled \cup {u(x)}
        /\ best' = [v \in DOMAIN best |->
                      Max({best[v]} \cup {Wide(hw, x, n) : n \in {m \in near(x) : m[2] = v}})]
        /\ heap' = HeapAfter(hw, x, heap, best, near(x))
  BY DEF Settle, Near, Neighbours, Beside, Width, Wide, NodeWidth, EdgeWidth, HeapAfter,
         Entered, Onward
<1>2. /\ query = "widest" /\ widest = NoPath /\ Askable(hw, ends.srcs, ends.dsts)
      /\ hw' = hw /\ ends' = ends /\ widest' = widest /\ query' = query
  BY DEF Settle, QueryOk
<1>3. From' = From /\ To' = To
  BY <1>2 DEF From, To
<1>4. best # << >>
  <2>1. x \in heap
    BY DEF Heads
  <2> QED
    BY <2>1 DEF QueryOk
<1>5. Search(hw, From, To, heap, best, settled)
  BY <1>2, <1>4 DEF QueryOk
<1>6. Widest(heap, x)
  BY <1>5, HeadIsWidest DEF Heads
<1>7. best' = Better(hw, x, best, near(x))
  <2>1. DOMAIN best = Names(hw)
    BY <1>5 DEF Search
  <2> QED
    BY <1>1, <2>1 DEF Better
<1>8. GoodGraph(hw)
  BY <1>2 DEF Askable
<1>9. Search(hw, From, To, heap', best', settled \cup {u(x)})
  BY <1>1, <1>5, <1>6, <1>7, <1>8, SettleKeeps
<1>10. Search(hw, From, To, heap, best, settled)'
  BY <1>1, <1>2, <1>3, <1>9
<1>11. best' # << >>
  <2>1. From \in Names(hw) /\ best' \in [Names(hw) -> Nat]
    BY <1>9 DEF Search
  <2>2. From \in DOMAIN best'
    BY <2>1
  <2> QED
    BY <2>2
<1> QED
  BY <1>2, <1>10, <1>11 DEF QueryOk

LEMMA AgainOk == QueryOk /\ Again => QueryOk'
<1> SUFFICES ASSUME QueryOk, Again PROVE QueryOk'
  OBVIOUS
<1>1. PICK x \in Heads : Last(x.path) \in settled /\ heap' = heap \ {x}
  BY DEF Again
<1>2. /\ query = "widest" /\ widest = NoPath
      /\ hw' = hw /\ ends' = ends /\ widest' = widest /\ query' = query
      /\ best' = best /\ settled' = settled
  BY DEF Again, QueryOk
<1>3. From' = From /\ To' = To
  BY <1>2 DEF From, To
<1>4. x \in heap /\ best # << >>
  BY <1>1 DEF Heads, QueryOk
<1>5. Search(hw, From, To, heap, best, settled)
  BY <1>2, <1>4 DEF QueryOk
<1>6. Search(hw, From, To, heap \ {x}, best, settled)
  BY <1>1, <1>4, <1>5, AgainKeeps
<1>7. Search(hw, From, To, heap, best, settled)'
  BY <1>1, <1>2, <1>3, <1>6
<1> QED
  BY <1>2, <1>4, <1>7 DEF QueryOk

LEMMA ArriveOk == QueryOk /\ Arrive => QueryOk'
<1> SUFFICES ASSUME QueryOk, Arrive PROVE QueryOk'
  OBVIOUS
<1>1. PICK x \in Heads : Last(x.path) = To /\ To \notin settled /\ widest' = x
  BY DEF Arrive
<1>2. /\ query = "widest" /\ query' = "answered" /\ hw' = hw /\ ends' = ends
      /\ best' = best /\ settled' = settled /\ heap' = heap
  BY DEF Arrive
<1>3. From' = From /\ To' = To
  BY <1>2 DEF From, To
<1>4. x \in heap
  BY DEF Heads
<1>5. CASE best = << >>
  <2>1. FALSE
    BY <1>4, <1>5 DEF QueryOk
  <2> QED
    BY <2>1
<1>6. CASE best # << >>
  <2>1. Search(hw, From, To, heap, best, settled) /\ GoodGraph(hw)
    BY <1>2, <1>6 DEF QueryOk, Askable
  <2>2. Widest(heap, x)
    BY <2>1, HeadIsWidest DEF Heads
  <2>3. Best(hw, From, To, x)
    BY <1>1, <2>1, <2>2, ArriveBest
  <2>4. Best(hw, From, To, widest)'
    BY <1>1, <1>2, <1>3, <2>3
  <2> QED
    BY <1>2, <1>6, <2>4 DEF QueryOk
<1> QED
  BY <1>5, <1>6

LEMMA UnreachableOk == QueryOk /\ Unreachable => QueryOk'
<1> SUFFICES ASSUME QueryOk, Unreachable PROVE QueryOk'
  OBVIOUS
<1>1. /\ query = "widest" /\ query' = "answered" /\ best # << >> /\ heap = {}
      /\ hw' = hw /\ ends' = ends /\ best' = best /\ settled' = settled
      /\ widest' = widest /\ widest = NoPath
  BY DEF Unreachable, QueryOk
<1>2. From' = From /\ To' = To
  BY <1>1 DEF From, To
<1>3. Search(hw, From, To, {}, best, settled) /\ GoodGraph(hw)
  BY <1>1 DEF QueryOk, Askable
<1>4. Best(hw, From, To, NoPath)
  BY <1>3, UnreachableBest
<1>5. Best(hw, From, To, widest)'
  BY <1>1, <1>2, <1>4
<1> QED
  BY <1>1, <1>5 DEF QueryOk

LEMMA QueryOkStep == QueryOk /\ [Query \/ Ask]_queryVars => QueryOk'
<1> SUFFICES ASSUME QueryOk, [Query \/ Ask]_queryVars PROVE QueryOk'
  OBVIOUS
<1>1. CASE Ask
  <2>1. PICK g, srcs, dsts : Askable(g, srcs, dsts) /\ BeginQuery(g, srcs, dsts)
    BY <1>1 DEF Ask
  <2> QED
    BY <2>1 DEF BeginQuery, QueryOk
<1>2. CASE Augment
  <2>1. /\ query = "flow" /\ query' \in {"flow", "widest"} /\ hw' = hw /\ ends' = ends
        /\ heap' = heap /\ best' = best /\ settled' = settled /\ widest' = widest
    BY <1>2 DEF Augment
  <2> QED
    BY <2>1 DEF QueryOk
<1>3. CASE FlowFound
  BY <1>3 DEF FlowFound, QueryOk
<1>4. CASE NoSearch
  BY <1>4 DEF NoSearch, QueryOk
<1>5. CASE UNCHANGED queryVars
  <2>1. From' = From /\ To' = To
    BY <1>5 DEF From, To, queryVars
  <2> QED
    BY <1>5, <2>1 DEF QueryOk, queryVars
<1> QED
  BY <1>1, <1>2, <1>3, <1>4, <1>5, StartOk, SettleOk, AgainOk, ArriveOk, UnreachableOk
     DEF Query

\* What the property reads of the graph is what the search was judged by.
LEMMA JoinedIs ==
  ASSUME NEW w
  PROVE  Joined(w) = ReachOf(hw, From, w)
BY DEF Joined, ReachOf, Spreads, Spread, WideNames, Neighbours, Beside, EdgeWidth

LEMMA BestIsBest ==
  ASSUME QueryOk
  PROVE  WidestIsBest
<1> SUFFICES ASSUME query = "answered", best # << >> PROVE WidestIsBest
  BY DEF WidestIsBest
<1>1. GoodGraph(hw) /\ Best(hw, From, To, widest)
  BY DEF QueryOk, Askable
<1>2. Breadths = BreadthsOf(hw)
  BY DEF Breadths, BreadthsOf, EdgeWidth, Range
<1>3. {0} \cup {w \in Breadths : To \in Joined(w)} = Carried(hw, From, To)
  BY <1>2, JoinedIs DEF Carried
<1>4. widest.width = Max({0} \cup {w \in Breadths : To \in Joined(w)})
  BY <1>1, <1>3 DEF Best
<1> DEFINE path == widest.path
           hops == 1 .. Len(path) - 1
           through == {NodeOf(hw, path[i]) : i \in DOMAIN path}
           Taken(taken) ==
             /\ \A i \in hops : <<taken[i], path[i + 1]>> \in Neighbours(path[i])
             /\ widest.width = Min({AggBandwidth(n) : n \in through}
                                     \cup {EdgeCapacity(hw, hw.edges[taken[i]]) : i \in hops})
             /\ widest.latency = MapThenSumSet(LAMBDA n : n.latency, through)
                                   + MapThenSumSet(LAMBDA i : hw.edges[taken[i]].latency, hops)
<1>5. ASSUME widest # NoPath
      PROVE  path[1] = From /\ Last(path) = To /\ \E taken \in [hops -> DOMAIN hw.edges] : Taken(taken)
  <2>1. Route(hw, widest, From) /\ Last(path) = To
    BY <1>1, <1>5 DEF Best
  <2>2. PICK taken : Goes(hw, widest, taken)
    BY <2>1 DEF Route
  <2>3. path \in Seq(Names(hw)) /\ path[1] = From /\ widest.width \in Nat
    BY <2>1 DEF Route
  <2>4. hops = Hops(path) /\ through = Through(hw, path)
    BY DEF Hops, Through
  <2> HIDE DEF hops, through, path
  <2>5. taken \in [hops -> DOMAIN hw.edges]
        /\ \A i \in hops : <<taken[i], path[i + 1]>> \in Neighbours(path[i])
    BY <2>2, <2>4 DEF Goes, Joins, Neighbours, Beside, path
  <2>6. IsFiniteSet(through) /\ IsFiniteSet(hops)
    BY <2>3, <2>4, ThroughFinite, HopsFinite
  <2>7. \A n \in through : n.latency \in Nat /\ AggBandwidth(n) \in Nat
    BY <1>1, <2>3, <2>4, NodeNat DEF Through, NodeWidth
  <2>8. \A i \in hops : hw.edges[taken[i]].latency \in Nat /\ EdgeWidth(hw, taken[i]) \in Nat
    BY <1>1, <2>5, EdgeAt DEF EdgeWidth
  <2> DEFINE S == {AggBandwidth(n) : n \in through}
                    \cup {EdgeCapacity(hw, hw.edges[taken[i]]) : i \in hops}
  <2>9. widest.width = Min(S)
    <3>1. S = Widths(hw, path, taken)
      BY <2>4 DEF Widths, EdgeWidth
    <3>2. S \in SUBSET Nat
      BY <2>7, <2>8 DEF EdgeWidth
    <3>3. widest.width \in S /\ \A w \in S : widest.width <= w
      BY <2>2, <3>1 DEF Goes, path
    <3> HIDE DEF S
    <3> QED
      BY <3>2, <3>3, MinIs
  <2>10. MapThenSumSet(LAMBDA n : n.latency, through) = Total(NodeTimes(hw, path), through)
    <3> DEFINE f == NodeTimes(hw, path)
    <3>1. \A n \in through : f[n] = n.latency /\ f[n] \in Int
      BY <2>4, <2>7 DEF NodeTimes
    <3> HIDE DEF f
    <3>2. MapThenSumSet(LAMBDA n : n.latency, through) = Total(f, through)
      BY <2>6, <3>1, SumOfLatencies
    <3> QED
      BY <3>2 DEF f
  <2>11. MapThenSumSet(LAMBDA i : hw.edges[taken[i]].latency, hops)
           = Total(EdgeTimes(hw, path, taken), hops)
    <3> DEFINE f == EdgeTimes(hw, path, taken)
    <3>1. \A i \in hops : f[i] = hw.edges[taken[i]].latency /\ f[i] \in Int
      BY <2>4, <2>8 DEF EdgeTimes
    <3> HIDE DEF f
    <3>2. EdgeSum(hw, taken, hops) = Total(f, hops)
      BY <2>6, <3>1, SumOfEdgeLatencies
    <3> QED
      BY <3>2 DEF f, EdgeSum
  <2>12. widest.latency = Total(NodeTimes(hw, path), through)
                            + Total(EdgeTimes(hw, path, taken), hops)
    BY <2>2, <2>4 DEF Goes, Latency, path
  <2>13. Taken(taken)
    BY <2>5, <2>9, <2>10, <2>11, <2>12
  <2> QED
    BY <2>1, <2>3, <2>5, <2>13 DEF path
<1> QED
  BY <1>4, <1>5 DEF WidestIsBest

\* On every valid graph and for every question, what widest_path() returns is a path
\* between the two nodes, with the width and the latency of its parts, and no path is
\* wider; none is returned only where no path carries anything.
THEOREM WidestPath == QuerySpec => []WidestIsBest
<1>1. QueryInit => QueryOk
  BY QueryOkInit
<1>2. QueryOk /\ [Query \/ Ask]_queryVars => QueryOk'
  BY QueryOkStep
<1>3. QueryOk => WidestIsBest
  BY BestIsBest
<1> QED
  BY <1>1, <1>2, <1>3, PTL DEF QuerySpec
=============================================================================
