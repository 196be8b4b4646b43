---------------------------- MODULE KvCacheProofs ----------------------------
(***************************************************************************)
(* The laws of the KV accounting: kv_grow is the difference of kv_bytes,   *)
(* a footprint is a natural number that grows with the context, and Total  *)
(* is a sum over 1 .. n.  With them, what the proofs of both serving loops *)
(* need about their queues and about the choice of a request by idx.       *)
(*                                                                         *)
(* The library states induction for an operator P(_), which no installed   *)
(* prover can instantiate; LeastElement, a least counterexample, is used   *)
(* in its place.                                                           *)
(***************************************************************************)
EXTENDS KvCache, Sequences, FiniteSetsExt, FiniteSetTheorems, WellFoundedInduction, TLAPS

\* A non-empty set of naturals has a least element.
LEMMA LeastElement ==
  ASSUME NEW T \in SUBSET Nat, T # {}
  PROVE  \E x \in T : \A y \in T : x <= y
<1> DEFINE R == {p \in Nat \X Nat : p[1] < p[2]}
<1>1. IsWellFoundedOn(R, Nat)
  BY NatLessThanWellFounded DEF OpToRel
<1> HIDE DEF R
<1>2. PICK x \in T : \A y \in T : ~(<<y, x>> \in R)
  BY <1>1, WFMin
<1>3. \A y \in T : ~(y < x)
  BY <1>2 DEF R
<1> QED
  BY <1>3

\* The sizes of the sets the cells are made of.
LEMMA IntervalSize ==
  ASSUME NEW k \in Nat
  PROVE  IsFiniteSet(1 .. k) /\ Cardinality(1 .. k) = k
<1>1. IsFiniteSet(1 .. k) /\ Cardinality(1 .. k) = IF 1 > k THEN 0 ELSE k - 1 + 1
  BY FS_Interval
<1> QED
  BY <1>1

LEMMA SingletonSize ==
  ASSUME NEW x
  PROVE  IsFiniteSet({x}) /\ Cardinality({x}) = 1
BY FS_Singleton

LEMMA DisjointUnion ==
  ASSUME NEW S, NEW T, IsFiniteSet(S), IsFiniteSet(T), S \cap T = {}
  PROVE  IsFiniteSet(S \cup T) /\ Cardinality(S \cup T) = Cardinality(S) + Cardinality(T)
<1>1. IsFiniteSet(S \cup T) /\ Cardinality(S \cup T) = Cardinality(S) + Cardinality(T) - Cardinality(S \cap T)
  BY FS_Union
<1>2. Cardinality({}) = 0
  BY FS_EmptySet
<1>3. Cardinality(S) \in Nat /\ Cardinality(T) \in Nat
  BY FS_CardinalityType
<1>4. Cardinality(S \cap T) = 0
  BY <1>2
<1> QED
  BY <1>1, <1>3, <1>4

LEMMA ColumnSize ==
  ASSUME NEW x, NEW k \in Nat
  PROVE  IsFiniteSet({x} \X (1 .. k)) /\ Cardinality({x} \X (1 .. k)) = k
<1>1. IsFiniteSet({x}) /\ Cardinality({x}) = 1 /\ IsFiniteSet(1 .. k) /\ Cardinality(1 .. k) = k
  BY SingletonSize, IntervalSize
<1>2. IsFiniteSet({x} \X (1 .. k)) /\ Cardinality({x} \X (1 .. k)) = Cardinality({x}) * Cardinality(1 .. k)
  BY <1>1, FS_Product
<1>3. Cardinality({x}) * Cardinality(1 .. k) = 1 * k /\ 1 * k = k
  BY <1>1
<1> QED
  BY <1>2, <1>3

-----------------------------------------------------------------------------
\* What is in Cells(f, S).
LEMMA CellsMember ==
  ASSUME NEW f, NEW S
  PROVE  \A c : c \in Cells(f, S) <=> \E x \in S : \E u \in 1 .. f[x] : c = <<x, u>>
BY DEF Cells

LEMMA CellPick ==
  ASSUME NEW f, NEW S, NEW c \in Cells(f, S)
  PROVE  \E x, u : x \in S /\ u \in 1 .. f[x] /\ c = <<x, u>>
<1>1. \E x \in S : \E u \in 1 .. f[x] : c = <<x, u>>
  BY CellsMember
<1> QED
  BY <1>1

LEMMA CellPair ==
  ASSUME NEW f, NEW S, NEW x, NEW v
  PROVE  <<x, v>> \in Cells(f, S) <=> x \in S /\ v \in 1 .. f[x]
<1>1. ASSUME <<x, v>> \in Cells(f, S) PROVE x \in S /\ v \in 1 .. f[x]
  <2>1. PICK y, u : y \in S /\ u \in 1 .. f[y] /\ <<x, v>> = <<y, u>>
    BY <1>1, CellPick
  <2> QED
    BY <2>1
<1>2. ASSUME x \in S, v \in 1 .. f[x] PROVE <<x, v>> \in Cells(f, S)
  BY <1>2, CellsMember
<1> QED
  BY <1>1, <1>2

\* Finitely many requests with finite footprints have finitely many cells.
LEMMA CellsFinite ==
  ASSUME NEW n \in Nat, NEW f \in [1 .. n -> Nat], NEW S \in SUBSET (1 .. n)
  PROVE  IsFiniteSet(Cells(f, S))
<1> DEFINE Bad == {m \in 0 .. n : ~IsFiniteSet(Cells(f, 1 .. m))}
<1>1. Bad = {}
  <2> SUFFICES ASSUME Bad # {} PROVE FALSE
    OBVIOUS
  <2>1. PICK m \in Bad : \A k \in Bad : m <= k
    <3>1. Bad \in SUBSET Nat
      OBVIOUS
    <3> QED
      BY <3>1, LeastElement
  <2>2. CASE m = 0
    <3>1. Cells(f, 1 .. 0) = {}
      BY CellsMember
    <3> QED
      BY <2>1, <2>2, <3>1, FS_EmptySet
  <2>3. CASE m # 0
    <3>1. m \in 1 .. n /\ m - 1 \in 0 .. n /\ m - 1 \notin Bad
      BY <2>1, <2>3
    <3>2. IsFiniteSet(Cells(f, 1 .. m - 1))
      BY <3>1
    <3>3. IsFiniteSet({m} \X (1 .. f[m]))
      <4>1. f[m] \in Nat
        BY <3>1
      <4> QED
        BY <4>1, ColumnSize
    <3>4. Cells(f, 1 .. m) = Cells(f, 1 .. m - 1) \cup ({m} \X (1 .. f[m]))
      <4>1. 1 .. m = (1 .. m - 1) \cup {m}
        BY <3>1
      <4> QED
        BY <4>1 DEF Cells
    <3>5. IsFiniteSet(Cells(f, 1 .. m - 1) \cup ({m} \X (1 .. f[m])))
      BY <3>2, <3>3, FS_Union
    <3> QED
      BY <2>1, <3>4, <3>5
  <2> QED
    BY <2>2, <2>3
<1>2. IsFiniteSet(Cells(f, 1 .. n))
  BY <1>1
<1>3. Cells(f, S) \in SUBSET Cells(f, 1 .. n)
  BY DEF Cells
<1> QED
  BY <1>2, <1>3, FS_Subset

LEMMA TotalType ==
  ASSUME NEW n \in Nat, NEW f \in [1 .. n -> Nat], NEW S \in SUBSET (1 .. n)
  PROVE  Total(f, S) \in Nat
BY CellsFinite, FS_CardinalityType DEF Total

LEMMA TotalEmpty ==
  ASSUME NEW f
  PROVE  Total(f, {}) = 0
<1>1. Cells(f, {}) = {}
  BY CellsMember
<1> QED
  BY <1>1, FS_EmptySet DEF Total

LEMMA TotalOne ==
  ASSUME NEW n \in Nat, NEW f \in [1 .. n -> Nat], NEW x \in 1 .. n
  PROVE  Total(f, {x}) = f[x]
<1>1. f[x] \in Nat
  OBVIOUS
<1>2. Cardinality({x} \X (1 .. f[x])) = f[x]
  BY <1>1, ColumnSize
<1>3. Cells(f, {x}) = {x} \X (1 .. f[x])
  BY DEF Cells
<1> QED
  BY <1>2, <1>3 DEF Total

LEMMA TotalSplit ==
  ASSUME NEW n \in Nat, NEW f \in [1 .. n -> Nat],
         NEW S \in SUBSET (1 .. n), NEW T \in SUBSET (1 .. n), S \cap T = {}
  PROVE  Total(f, S \cup T) = Total(f, S) + Total(f, T)
<1>1. Cells(f, S \cup T) = Cells(f, S) \cup Cells(f, T)
  BY DEF Cells
<1>2. Cells(f, S) \cap Cells(f, T) = {}
  <2> SUFFICES ASSUME NEW c, c \in Cells(f, S), c \in Cells(f, T) PROVE FALSE
    OBVIOUS
  <2>1. PICK x, u : x \in S /\ c = <<x, u>>
    BY CellPick
  <2>2. PICK y, v : y \in T /\ c = <<y, v>>
    BY CellPick
  <2> QED
    BY <2>1, <2>2
<1>3. IsFiniteSet(Cells(f, S)) /\ IsFiniteSet(Cells(f, T))
  BY CellsFinite
<1>4. Cardinality(Cells(f, S) \cup Cells(f, T))
        = Cardinality(Cells(f, S)) + Cardinality(Cells(f, T))
  BY <1>2, <1>3, DisjointUnion
<1> QED
  BY <1>1, <1>4 DEF Total

\* Taking one request out of the sum.
LEMMA TotalRemove ==
  ASSUME NEW n \in Nat, NEW f \in [1 .. n -> Nat],
         NEW S \in SUBSET (1 .. n), NEW x \in S
  PROVE  Total(f, S) = Total(f, S \ {x}) + f[x]
<1>1. /\ S = (S \ {x}) \cup {x} /\ (S \ {x}) \cap {x} = {}
      /\ S \ {x} \in SUBSET (1 .. n) /\ {x} \in SUBSET (1 .. n)
  OBVIOUS
<1>2. Total(f, (S \ {x}) \cup {x}) = Total(f, S \ {x}) + Total(f, {x})
  BY <1>1, TotalSplit
<1>3. Total(f, {x}) = f[x]
  BY TotalOne
<1> QED
  BY <1>1, <1>2, <1>3

LEMMA TotalEqual ==
  ASSUME NEW f, NEW g, NEW S, \A x \in S : f[x] = g[x]
  PROVE  Total(f, S) = Total(g, S)
<1>1. Cells(f, S) = Cells(g, S)
  BY DEF Cells
<1> QED
  BY <1>1 DEF Total

LEMMA TotalLeq ==
  ASSUME NEW n \in Nat, NEW f \in [1 .. n -> Nat], NEW g \in [1 .. n -> Nat],
         NEW T \in SUBSET (1 .. n), NEW S \in SUBSET T,
         \A x \in S : f[x] <= g[x]
  PROVE  Total(f, S) <= Total(g, T)
<1>1. Cells(f, S) \in SUBSET Cells(g, T)
  <2> SUFFICES ASSUME NEW c, c \in Cells(f, S) PROVE c \in Cells(g, T)
    OBVIOUS
  <2>1. PICK x, u : x \in S /\ u \in 1 .. f[x] /\ c = <<x, u>>
    BY CellPick
  <2>2. u \in 1 .. g[x]
    <3>1. f[x] \in Nat /\ g[x] \in Nat /\ f[x] <= g[x]
      BY <2>1
    <3> QED
      BY <2>1, <3>1
  <2> QED
    BY <2>1, <2>2, CellPair
<1>2. IsFiniteSet(Cells(g, T))
  BY CellsFinite
<1> QED
  BY <1>1, <1>2, FS_Subset DEF Total

\* The sum of a sum: the cells of h above those of f are as many as g's.
LEMMA TotalPlus ==
  ASSUME NEW n \in Nat, NEW f \in [1 .. n -> Nat], NEW g \in [1 .. n -> Nat],
         NEW h \in [1 .. n -> Nat], NEW S \in SUBSET (1 .. n),
         \A x \in S : h[x] = f[x] + g[x]
  PROVE  Total(h, S) = Total(f, S) + Total(g, S)
<1> DEFINE Above == Cells(h, S) \ Cells(f, S)
           shift == [c \in Cells(g, S) |-> <<c[1], f[c[1]] + c[2]>>]
<1>1. \A c \in Above : \E x, u : x \in S /\ u \in 1 .. g[x] /\ c = <<x, f[x] + u>>
  <2> TAKE c \in Above
  <2>1. PICK x, v : x \in S /\ v \in 1 .. h[x] /\ c = <<x, v>>
    BY CellPick
  <2>2. v \notin 1 .. f[x]
    BY <2>1, CellPair
  <2>3. f[x] \in Nat /\ g[x] \in Nat /\ h[x] = f[x] + g[x]
    BY <2>1
  <2>4. v - f[x] \in 1 .. g[x] /\ v = f[x] + (v - f[x])
    BY <2>1, <2>2, <2>3
  <2> QED
    BY <2>1, <2>4
<1>2. shift \in [Cells(g, S) -> Above]
  <2> SUFFICES ASSUME NEW c \in Cells(g, S) PROVE <<c[1], f[c[1]] + c[2]>> \in Above
    OBVIOUS
  <2>1. PICK x, u : x \in S /\ u \in 1 .. g[x] /\ c = <<x, u>>
    BY CellPick
  <2>2. f[x] \in Nat /\ g[x] \in Nat /\ h[x] = f[x] + g[x]
    BY <2>1
  <2>3. f[x] + u \in 1 .. h[x] /\ f[x] + u \notin 1 .. f[x]
    BY <2>1, <2>2
  <2>4. <<x, f[x] + u>> \in Cells(h, S) /\ <<x, f[x] + u>> \notin Cells(f, S)
    BY <2>1, <2>3, CellPair
  <2> QED
    BY <2>1, <2>4
<1>3. shift \in Bijection(Cells(g, S), Above)
  <2>1. \A c, d \in Cells(g, S) : shift[c] = shift[d] => c = d
    <3> SUFFICES ASSUME NEW c \in Cells(g, S), NEW d \in Cells(g, S), shift[c] = shift[d]
                 PROVE  c = d
      OBVIOUS
    <3>0. c[1] = d[1] /\ f[c[1]] + c[2] = f[d[1]] + d[2]
      <4>1. <<c[1], f[c[1]] + c[2]>> = <<d[1], f[d[1]] + d[2]>>
        OBVIOUS
      <4> QED
        BY <4>1
    <3> HIDE DEF shift, Above
    <3>1. PICK x, u : x \in S /\ u \in 1 .. g[x] /\ c = <<x, u>>
      BY CellPick
    <3>2. PICK y, v : y \in S /\ v \in 1 .. g[y] /\ d = <<y, v>>
      BY CellPick
    <3>3. c[1] = x /\ c[2] = u /\ d[1] = y /\ d[2] = v
      BY <3>1, <3>2
    <3>4. x = y /\ f[x] + u = f[y] + v
      BY <3>0, <3>3
    <3>5. f[x] \in Nat /\ g[x] \in Nat /\ u \in Int /\ v \in Int
      BY <3>1, <3>2, <3>4
    <3> QED
      BY <3>1, <3>2, <3>4, <3>5
  <2>2. \A c \in Above : \E d \in Cells(g, S) : shift[d] = c
    <3> TAKE c \in Above
    <3>1. PICK x, u : x \in S /\ u \in 1 .. g[x] /\ c = <<x, f[x] + u>>
      BY <1>1
    <3>2. <<x, u>> \in Cells(g, S)
      BY <3>1, CellPair
    <3>3. shift[<<x, u>>] = c
      BY <3>1, <3>2
    <3> QED
      BY <3>2, <3>3
  <2> HIDE DEF shift, Above
  <2> QED
    BY <1>2, <2>1, <2>2 DEF Bijection, Injection, IsInjective, Surjection
<1>4. /\ IsFiniteSet(Cells(f, S)) /\ IsFiniteSet(Cells(g, S)) /\ IsFiniteSet(Cells(h, S))
      /\ IsFiniteSet(Above)
  BY CellsFinite, FS_Difference
<1>5. Cardinality(Above) = Cardinality(Cells(g, S))
  <2> HIDE DEF shift, Above
  <2>1. ExistsBijection(Cells(g, S), Above)
    BY <1>3 DEF ExistsBijection
  <2> QED
    BY <1>4, <2>1, FS_Bijection
<1>6. Cells(f, S) \in SUBSET Cells(h, S)
  <2> SUFFICES ASSUME NEW c \in Cells(f, S) PROVE c \in Cells(h, S)
    OBVIOUS
  <2>1. PICK x, u : x \in S /\ u \in 1 .. f[x] /\ c = <<x, u>>
    BY CellPick
  <2>2. f[x] \in Nat /\ g[x] \in Nat /\ h[x] = f[x] + g[x]
    BY <2>1
  <2>3. u \in 1 .. h[x]
    BY <2>1, <2>2
  <2> QED
    BY <2>1, <2>3, CellPair
<1>7. Cells(h, S) = Cells(f, S) \cup Above /\ Cells(f, S) \cap Above = {}
  BY <1>6
<1>8. Cardinality(Cells(h, S)) = Cardinality(Cells(f, S)) + Cardinality(Above)
  <2> HIDE DEF Above
  <2> QED
    BY <1>4, <1>7, DisjointUnion
<1> QED
  BY <1>5, <1>8 DEF Total

LEMMA TotalZero ==
  ASSUME NEW f, NEW S, \A x \in S : f[x] = 0
  PROVE  Total(f, S) = 0
<1>1. Cells(f, S) = {}
  <2> SUFFICES ASSUME NEW c \in Cells(f, S) PROVE FALSE
    OBVIOUS
  <2>1. PICK x, u : x \in S /\ u \in 1 .. f[x] /\ c = <<x, u>>
    BY CellPick
  <2> QED
    BY <2>1
<1> QED
  BY <1>1, FS_EmptySet DEF Total

\* A sum in which one term changes.
LEMMA TotalOneChanges ==
  ASSUME NEW n \in Nat, NEW f \in [1 .. n -> Nat], NEW g \in [1 .. n -> Nat],
         NEW S \in SUBSET (1 .. n), NEW x \in S,
         \A y \in S \ {x} : g[y] = f[y]
  PROVE  Total(g, S) = Total(f, S) - f[x] + g[x]
<1>1. Total(f, S) = Total(f, S \ {x}) + f[x]
  BY TotalRemove
<1>2. Total(g, S) = Total(g, S \ {x}) + g[x]
  BY TotalRemove
<1>3. Total(g, S \ {x}) = Total(f, S \ {x})
  BY TotalEqual
<1>4. Total(f, S \ {x}) \in Nat /\ f[x] \in Nat /\ g[x] \in Nat
  <2>1. S \ {x} \in SUBSET (1 .. n)
    OBVIOUS
  <2> QED
    BY <2>1, TotalType
<1> QED
  BY <1>1, <1>2, <1>3, <1>4

\* A sum of terms that are at most k each.
LEMMA TotalBounded ==
  ASSUME NEW n \in Nat, NEW f \in [1 .. n -> Nat], NEW S \in SUBSET (1 .. n),
         NEW k \in Nat, \A x \in S : f[x] <= k
  PROVE  /\ Cardinality(S) \in Nat
         /\ Total(f, S) <= Cardinality(S) * k
<1>1. IsFiniteSet(S) /\ IsFiniteSet(1 .. k) /\ Cardinality(1 .. k) = k
  <2>1. IsFiniteSet(1 .. n)
    BY IntervalSize
  <2> QED
    BY <2>1, FS_Subset, IntervalSize
<1>2. /\ IsFiniteSet(S \X (1 .. k))
      /\ Cardinality(S \X (1 .. k)) = Cardinality(S) * Cardinality(1 .. k)
  BY <1>1, FS_Product
<1>3. Cells(f, S) \in SUBSET (S \X (1 .. k))
  <2> SUFFICES ASSUME NEW c \in Cells(f, S) PROVE c \in S \X (1 .. k)
    OBVIOUS
  <2>1. PICK x, u : x \in S /\ u \in 1 .. f[x] /\ c = <<x, u>>
    BY CellPick
  <2>2. f[x] \in Nat /\ f[x] <= k
    BY <2>1
  <2> QED
    BY <2>1, <2>2
<1>4. Cardinality(Cells(f, S)) <= Cardinality(S \X (1 .. k))
  BY <1>2, <1>3, FS_Subset
<1> QED
  BY <1>1, <1>2, <1>4, FS_CardinalityType DEF Total

\* Two members of a set of at most one are the same.
LEMMA AtMostOne ==
  ASSUME NEW S, IsFiniteSet(S), Cardinality(S) <= 1, NEW p \in S, NEW q \in S
  PROVE  p = q
<1> SUFFICES ASSUME p # q PROVE FALSE
  OBVIOUS
<1>1. IsFiniteSet({p}) /\ IsFiniteSet({q}) /\ {p} \cap {q} = {}
  BY SingletonSize
<1>2. Cardinality({p} \cup {q}) = Cardinality({p}) + Cardinality({q})
  BY <1>1, DisjointUnion
<1>3. Cardinality({p} \cup {q}) <= Cardinality(S)
  <2>1. {p} \cup {q} \in SUBSET S
    OBVIOUS
  <2> QED
    BY <2>1, FS_Subset
<1>4. Cardinality({p}) = 1 /\ Cardinality({q}) = 1 /\ Cardinality(S) \in Nat
  BY SingletonSize, FS_CardinalityType
<1> QED
  BY <1>2, <1>3, <1>4

LEMMA OneAtMost ==
  ASSUME NEW S, \A p, q \in S : p = q
  PROVE  Cardinality(S) <= 1 /\ (S # {} => Cardinality(S) = 1)
<1>1. CASE S = {}
  BY <1>1, FS_EmptySet
<1>2. CASE S # {}
  <2>1. PICK p \in S : TRUE
    BY <1>2
  <2>2. S = {p}
    BY <2>1
  <2> QED
    BY <2>2, SingletonSize
<1> QED
  BY <1>1, <1>2

-----------------------------------------------------------------------------
LEMMA TimesMonotone ==
  ASSUME NEW a \in Nat, NEW b \in Nat, NEW k \in Nat, a <= b
  PROVE  a * k \in Nat /\ a * k <= b * k
OBVIOUS

\* kv_bytes, as the layers see it: the full layers grow with the context, the
\* windowed ones up to the window.
LEMMA KvBytesByLayer ==
  ASSUME NEW ctx \in Nat
  PROVE  KvBytes(ctx) = ctx * (KvPerToken - SwaShare)
                        + (IF ctx > SwaWindow THEN SwaWindow ELSE ctx) * SwaShare
BY KvAssumption DEF KvBytes

\* A footprint is a natural number of bytes, and never shrinks with the context.
LEMMA KvBytesType ==
  ASSUME NEW ctx \in Nat
  PROVE  KvBytes(ctx) \in Nat
<1> DEFINE kept == IF ctx > SwaWindow THEN SwaWindow ELSE ctx
<1>1. KvPerToken - SwaShare \in Nat /\ SwaShare \in Nat /\ kept \in Nat
  BY KvAssumption
<1>2. ctx * (KvPerToken - SwaShare) \in Nat /\ kept * SwaShare \in Nat
  BY <1>1, TimesMonotone
<1> QED
  BY <1>2, KvBytesByLayer

LEMMA KvBytesMonotone ==
  ASSUME NEW a \in Nat, NEW b \in Nat, a <= b
  PROVE  KvBytes(a) <= KvBytes(b)
<1> DEFINE kept(ctx) == IF ctx > SwaWindow THEN SwaWindow ELSE ctx
<1>1. KvPerToken - SwaShare \in Nat /\ SwaShare \in Nat
  BY KvAssumption
<1>2. kept(a) \in Nat /\ kept(b) \in Nat /\ kept(a) <= kept(b)
  BY KvAssumption
<1>3. /\ a * (KvPerToken - SwaShare) \in Nat
      /\ a * (KvPerToken - SwaShare) <= b * (KvPerToken - SwaShare)
  BY <1>1, TimesMonotone
<1>4. /\ kept(a) * SwaShare \in Nat
      /\ kept(a) * SwaShare <= kept(b) * SwaShare
  BY <1>1, <1>2, TimesMonotone
<1>5. b * (KvPerToken - SwaShare) \in Nat /\ kept(b) * SwaShare \in Nat
  BY <1>1, <1>2, TimesMonotone
<1>6. /\ KvBytes(a) = a * (KvPerToken - SwaShare) + kept(a) * SwaShare
      /\ KvBytes(b) = b * (KvPerToken - SwaShare) + kept(b) * SwaShare
  BY KvBytesByLayer
<1> HIDE DEF kept
<1> QED
  BY <1>3, <1>4, <1>5, <1>6

LEMMA KvBytesZero == KvBytes(0) = 0
BY KvAssumption DEF KvBytes

\* kv_grow(ctx) is what kv_bytes gains with one more token, at the window's
\* edge too: the increments of the loop add up to the footprint it releases.
THEOREM GrowIsDifference ==
  ASSUME NEW ctx \in Nat
  PROVE  /\ KvGrow(ctx) \in 0 .. KvPerToken
         /\ KvBytes(ctx + 1) = KvBytes(ctx) + KvGrow(ctx)
<1>1. KvGrow(ctx) \in 0 .. KvPerToken
  BY KvAssumption DEF KvGrow
<1>2. CASE ctx >= SwaWindow
  <2>1. KvBytes(ctx + 1) = (ctx + 1) * (KvPerToken - SwaShare) + SwaWindow * SwaShare
    BY <1>2, KvBytesByLayer, KvAssumption
  <2>2. KvBytes(ctx) = ctx * (KvPerToken - SwaShare) + SwaWindow * SwaShare
    <3>1. CASE ctx = SwaWindow
      BY <3>1, KvBytesByLayer, KvAssumption
    <3>2. CASE ctx > SwaWindow
      BY <3>2, KvBytesByLayer, KvAssumption
    <3> QED
      BY <1>2, <3>1, <3>2, KvAssumption
  <2>3. (ctx + 1) * (KvPerToken - SwaShare)
          = ctx * (KvPerToken - SwaShare) + (KvPerToken - SwaShare)
    BY KvAssumption
  <2> QED
    BY <1>1, <1>2, <2>1, <2>2, <2>3, KvAssumption DEF KvGrow
<1>3. CASE ctx < SwaWindow
  BY <1>1, <1>3, KvAssumption DEF KvGrow, KvBytes
<1> QED
  BY <1>2, <1>3, KvAssumption
-----------------------------------------------------------------------------
(***************************************************************************)
(* The queue: its elements and their distinctness under the three things   *)
(* the loop does to it.                                                    *)
(***************************************************************************)
SetOf(s) == {s[i] : i \in 1 .. Len(s)}

Distinct(s) == \A i, j \in 1 .. Len(s) : s[i] = s[j] => i = j

LEMMA TailQueue ==
  ASSUME NEW R, NEW s \in Seq(R), s # << >>, Distinct(s)
  PROVE  /\ Head(s) \in R /\ Head(s) \in SetOf(s)
         /\ Tail(s) \in Seq(R)
         /\ SetOf(Tail(s)) = SetOf(s) \ {Head(s)}
         /\ Distinct(Tail(s))
<1>1. /\ Len(s) \in Nat \ {0}
      /\ Head(s) = s[1]
      /\ Tail(s) \in Seq(R) /\ Len(Tail(s)) = Len(s) - 1
      /\ \A i \in 1 .. Len(s) - 1 : Tail(s)[i] = s[i + 1]
  OBVIOUS
<1>2. SetOf(Tail(s)) = SetOf(s) \ {Head(s)}
  <2>1. ASSUME NEW x \in SetOf(Tail(s)) PROVE x \in SetOf(s) \ {Head(s)}
    <3>1. PICK i \in 1 .. Len(s) - 1 : x = s[i + 1]
      BY <1>1 DEF SetOf
    <3>2. i + 1 \in 1 .. Len(s) /\ i + 1 # 1 /\ 1 \in 1 .. Len(s)
      BY <1>1
    <3>3. s[i + 1] # s[1]
      BY <3>2 DEF Distinct
    <3> QED
      BY <1>1, <3>1, <3>2, <3>3 DEF SetOf
  <2>2. ASSUME NEW x \in SetOf(s) \ {Head(s)} PROVE x \in SetOf(Tail(s))
    <3>1. PICK i \in 1 .. Len(s) : x = s[i]
      BY DEF SetOf
    <3>2. i - 1 \in 1 .. Len(s) - 1 /\ Tail(s)[i - 1] = s[(i - 1) + 1] /\ (i - 1) + 1 = i
      BY <1>1, <3>1
    <3> QED
      BY <1>1, <3>1, <3>2 DEF SetOf
  <2> QED
    BY <2>1, <2>2
<1>3. Distinct(Tail(s))
  <2> SUFFICES ASSUME NEW i \in 1 .. Len(s) - 1, NEW j \in 1 .. Len(s) - 1,
                      s[i + 1] = s[j + 1]
               PROVE  i = j
    BY <1>1 DEF Distinct
  <2>1. i + 1 \in 1 .. Len(s) /\ j + 1 \in 1 .. Len(s)
    BY <1>1
  <2>2. i + 1 = j + 1
    BY <2>1 DEF Distinct
  <2> QED
    BY <2>2
<1>4. Head(s) \in R /\ Head(s) \in SetOf(s)
  <2>1. 1 \in 1 .. Len(s)
    BY <1>1
  <2> QED
    BY <1>1, <2>1 DEF SetOf
<1> QED
  BY <1>1, <1>2, <1>3, <1>4

LEMMA ConcatQueue ==
  ASSUME NEW R, NEW s \in Seq(R), NEW t \in Seq(R),
         Distinct(s), Distinct(t), SetOf(s) \cap SetOf(t) = {}
  PROVE  /\ s \o t \in Seq(R)
         /\ SetOf(s \o t) = SetOf(s) \cup SetOf(t)
         /\ Distinct(s \o t)
<1>1. /\ Len(s) \in Nat /\ Len(t) \in Nat
      /\ s \o t \in Seq(R) /\ Len(s \o t) = Len(s) + Len(t)
      /\ \A i \in 1 .. Len(s) + Len(t) :
           (s \o t)[i] = IF i <= Len(s) THEN s[i] ELSE t[i - Len(s)]
  OBVIOUS
<1>2. \A i \in 1 .. Len(s) : (s \o t)[i] = s[i] /\ i \in 1 .. Len(s) + Len(t)
  BY <1>1
<1>3. \A i \in 1 .. Len(t) : /\ (s \o t)[Len(s) + i] = t[i]
                             /\ Len(s) + i \in 1 .. Len(s) + Len(t)
  <2> TAKE i \in 1 .. Len(t)
  <2>1. Len(s) + i \in 1 .. Len(s) + Len(t) /\ ~(Len(s) + i <= Len(s)) /\ (Len(s) + i) - Len(s) = i
    BY <1>1
  <2> QED
    BY <1>1, <2>1
<1>4. \A i \in 1 .. Len(s) + Len(t) :
        i \in 1 .. Len(s) \/ \E j \in 1 .. Len(t) : i = Len(s) + j
  <2> TAKE i \in 1 .. Len(s) + Len(t)
  <2>1. i \in 1 .. Len(s) \/ (i - Len(s) \in 1 .. Len(t) /\ i = Len(s) + (i - Len(s)))
    BY <1>1
  <2> QED
    BY <2>1
<1>5. SetOf(s \o t) = SetOf(s) \cup SetOf(t)
  <2>1. ASSUME NEW x \in SetOf(s \o t) PROVE x \in SetOf(s) \cup SetOf(t)
    <3>1. PICK i \in 1 .. Len(s) + Len(t) : x = (s \o t)[i]
      BY <1>1 DEF SetOf
    <3> QED
      BY <1>2, <1>3, <1>4, <3>1 DEF SetOf
  <2>2. ASSUME NEW x \in SetOf(s) PROVE x \in SetOf(s \o t)
    BY <1>1, <1>2 DEF SetOf
  <2>3. ASSUME NEW x \in SetOf(t) PROVE x \in SetOf(s \o t)
    BY <1>1, <1>3 DEF SetOf
  <2> QED
    BY <2>1, <2>2, <2>3
<1>6. Distinct(s \o t)
  <2> SUFFICES ASSUME NEW i \in 1 .. Len(s) + Len(t), NEW j \in 1 .. Len(s) + Len(t),
                      (s \o t)[i] = (s \o t)[j]
               PROVE  i = j
    BY <1>1 DEF Distinct
  <2>1. CASE i \in 1 .. Len(s) /\ j \in 1 .. Len(s)
    BY <1>2, <2>1 DEF Distinct
  <2>2. CASE i \in 1 .. Len(s) /\ j \notin 1 .. Len(s)
    <3>1. (s \o t)[i] \in SetOf(s)
      BY <1>2, <2>2 DEF SetOf
    <3>2. (s \o t)[j] \in SetOf(t)
      BY <1>3, <1>4, <2>2 DEF SetOf
    <3> QED
      BY <3>1, <3>2
  <2>3. CASE i \notin 1 .. Len(s) /\ j \in 1 .. Len(s)
    <3>1. (s \o t)[j] \in SetOf(s)
      BY <1>2, <2>3 DEF SetOf
    <3>2. (s \o t)[i] \in SetOf(t)
      BY <1>3, <1>4, <2>3 DEF SetOf
    <3> QED
      BY <3>1, <3>2
  <2>4. CASE i \notin 1 .. Len(s) /\ j \notin 1 .. Len(s)
    <3>1. PICK k \in 1 .. Len(t) : i = Len(s) + k
      BY <1>4, <2>4
    <3>2. PICK l \in 1 .. Len(t) : j = Len(s) + l
      BY <1>4, <2>4
    <3>3. t[k] = t[l]
      BY <1>3, <3>1, <3>2
    <3> QED
      BY <3>1, <3>2, <3>3 DEF Distinct
  <2> QED
    BY <2>1, <2>2, <2>3, <2>4
<1> QED
  BY <1>1, <1>5, <1>6

\* An element joins at the tail, or at the head.
LEMMA AppendQueue ==
  ASSUME NEW R, NEW s \in Seq(R), NEW x \in R, Distinct(s), x \notin SetOf(s)
  PROVE  /\ Append(s, x) \in Seq(R) /\ Distinct(Append(s, x))
         /\ SetOf(Append(s, x)) = SetOf(s) \cup {x}
<1> DEFINE t == <<x>>
<1>1. t \in Seq(R) /\ Len(t) = 1 /\ t[1] = x /\ Append(s, x) = s \o t
  OBVIOUS
<1>2. SetOf(t) = {x} /\ Distinct(t)
  BY <1>1 DEF SetOf, Distinct
<1> HIDE DEF t
<1> QED
  BY <1>1, <1>2, ConcatQueue

LEMMA PushQueue ==
  ASSUME NEW R, NEW s \in Seq(R), NEW x \in R, Distinct(s), x \notin SetOf(s)
  PROVE  /\ <<x>> \o s \in Seq(R) /\ Distinct(<<x>> \o s)
         /\ SetOf(<<x>> \o s) = {x} \cup SetOf(s)
<1> DEFINE t == <<x>>
<1>1. t \in Seq(R) /\ Len(t) = 1 /\ t[1] = x
  OBVIOUS
<1>2. SetOf(t) = {x} /\ Distinct(t)
  BY <1>1 DEF SetOf, Distinct
<1> HIDE DEF t
<1>3. t \o s \in Seq(R) /\ Distinct(t \o s) /\ SetOf(t \o s) = SetOf(t) \cup SetOf(s)
  BY <1>1, <1>2, ConcatQueue
<1> QED
  BY <1>2, <1>3 DEF t

-----------------------------------------------------------------------------
(***************************************************************************)
(* The choices by idx: min and max of a non-empty set of requests.         *)
(***************************************************************************)
LEMMA MinOf ==
  ASSUME NEW S \in SUBSET Nat, S # {}
  PROVE  Min(S) \in S /\ \A y \in S : Min(S) <= y
BY LeastElement DEF Min

LEMMA MaxOf ==
  ASSUME NEW n \in Nat, NEW S \in SUBSET (0 .. n), S # {}
  PROVE  Max(S) \in S /\ \A y \in S : Max(S) >= y
<1> DEFINE T == {n - y : y \in S}
<1>1. T \in SUBSET Nat /\ T # {}
  <2>1. ASSUME NEW y \in S PROVE n - y \in Nat
    <3>1. y \in 0 .. n
      OBVIOUS
    <3> QED
      BY <3>1
  <2> QED
    BY <2>1
<1>2. PICK x \in T : \A y \in T : x <= y
  BY <1>1, LeastElement
<1>3. PICK z \in S : x = n - z
  BY <1>2
<1>4. \A y \in S : z >= y
  <2> TAKE y \in S
  <2>1. n - y \in T /\ y \in Int /\ z \in Int
    BY <1>3
  <2>2. n - z <= n - y
    BY <1>2, <1>3, <2>1
  <2> QED
    BY <2>1, <2>2
<1> QED
  BY <1>4 DEF Max

LEMMA MinOfTwo ==
  ASSUME NEW a \in Nat, NEW b \in Nat
  PROVE  Min({a, b}) \in {a, b} /\ Min({a, b}) <= a /\ Min({a, b}) <= b
<1>1. {a, b} \in SUBSET Nat /\ {a, b} # {}
  OBVIOUS
<1>2. Min({a, b}) \in {a, b} /\ \A y \in {a, b} : Min({a, b}) <= y
  BY <1>1, MinOf
<1> QED
  BY <1>2
=============================================================================
