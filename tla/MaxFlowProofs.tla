---------------------------- MODULE MaxFlowProofs ----------------------------
(***************************************************************************)
(* What max_flow() returns on every valid graph, for any sources and       *)
(* destinations: the narrowest separation of the two.                      *)
(***************************************************************************)
EXTENDS GraphQueriesProofs

------------------------------------------------------------------------------
(***************************************************************************)
(* More laws of sums, by induction over the subsets of a finite set: what  *)
(* holds of the empty set, and of a set with one element more, holds of    *)
(* the whole.                                                              *)
(***************************************************************************)
LEMMA SetInduction ==
  ASSUME NEW S, IsFiniteSet(S), NEW W, {} \in W,
         \A r \in SUBSET S : \A x \in S : r \in W /\ x \notin r => r \cup {x} \in W
  PROVE  S \in W
<1> DEFINE T == {Cardinality(r) : r \in (SUBSET S) \ W}
<1> SUFFICES ASSUME S \notin W PROVE FALSE
  OBVIOUS
<1>1. \A r \in SUBSET S : IsFiniteSet(r) /\ Cardinality(r) \in Nat
  BY FS_Subset, FS_CardinalityType
<1>2. T \in SUBSET Nat /\ T # {}
  BY <1>1
<1>3. PICK t \in T : \A y \in T : t <= y
  <2> HIDE DEF T
  <2> QED
    BY <1>2, LeastElement
<1>4. PICK r \in (SUBSET S) \ W : t = Cardinality(r)
  OBVIOUS
<1>5. PICK x \in r : TRUE
  OBVIOUS
<1> DEFINE q == r \ {x}
<1>6. /\ q \in SUBSET S /\ Cardinality(q) \in Nat /\ Cardinality(r) \in Nat
      /\ Cardinality(q) = Cardinality(r) - 1
  BY Smaller
<1>7. q \in W
  <2> SUFFICES ASSUME q \notin W PROVE FALSE
    OBVIOUS
  <2>1. Cardinality(q) \in T
    BY <1>6
  <2>2. Cardinality(r) <= Cardinality(q)
    BY <1>3, <1>4, <2>1
  <2> HIDE DEF q
  <2> QED
    BY <1>6, <2>2
<1>8. x \in S /\ x \notin q /\ r = q \cup {x}
  OBVIOUS
<1> HIDE DEF q
<1> QED
  BY <1>6, <1>7, <1>8

LEMMA TotalOne ==
  ASSUME NEW S, IsFiniteSet(S), NEW f, \A y \in S : f[y] \in Int,
         NEW r \in SUBSET S, NEW x \in S, x \notin r
  PROVE  Total(f, r \cup {x}) = Total(f, r) + f[x] /\ Total(f, r) \in Int
<1>1. IsFiniteSet(r)
  BY FS_Subset
<1>2. \A y \in r \cup {x} : f[y] \in Int
  OBVIOUS
<1>3. \A y \in r : f[y] = f[y]
  OBVIOUS
<1> QED
  BY <1>1, <1>2, <1>3, TotalAdd

LEMMA TotalInt ==
  ASSUME NEW S, IsFiniteSet(S), NEW f, \A y \in S : f[y] \in Int
  PROVE  Total(f, S) \in Int
<1> DEFINE W == {r \in SUBSET S : Total(f, r) \in Int}
<1>1. {} \in W
  BY TotalEmpty
<1>2. ASSUME NEW r \in SUBSET S, NEW x \in S, r \in W, x \notin r PROVE r \cup {x} \in W
  <2>1. Total(f, r \cup {x}) = Total(f, r) + f[x] /\ Total(f, r) \in Int /\ f[x] \in Int
    BY <1>2, TotalOne
  <2>2. Total(f, r \cup {x}) \in Int
    BY <2>1
  <2> QED
    BY <2>2
<1>3. S \in W
  <2> HIDE DEF W
  <2> QED
    BY <1>1, <1>2, SetInduction
<1> QED
  BY <1>3

LEMMA TotalEq ==
  ASSUME NEW S, IsFiniteSet(S), NEW f, NEW g, \A y \in S : f[y] \in Int /\ f[y] = g[y]
  PROVE  Total(f, S) = Total(g, S)
<1> DEFINE W == {r \in SUBSET S : Total(f, r) = Total(g, r)}
<1>1. {} \in W
  BY TotalEmpty
<1>2. ASSUME NEW r \in SUBSET S, NEW x \in S, r \in W, x \notin r PROVE r \cup {x} \in W
  <2>1. \A y \in S : g[y] \in Int
    OBVIOUS
  <2>2. Total(f, r \cup {x}) = Total(f, r) + f[x] /\ Total(g, r \cup {x}) = Total(g, r) + g[x]
    BY <1>2, <2>1, TotalOne
  <2>3. Total(f, r \cup {x}) = Total(g, r \cup {x})
    BY <1>2, <2>2
  <2> QED
    BY <2>3
<1>3. S \in W
  <2> HIDE DEF W
  <2> QED
    BY <1>1, <1>2, SetInduction
<1> QED
  BY <1>3

\* The sum of two functions.
LEMMA TotalPlus ==
  ASSUME NEW S, IsFiniteSet(S), NEW f, NEW g, NEW h,
         \A y \in S : f[y] \in Int /\ g[y] \in Int /\ h[y] = f[y] + g[y]
  PROVE  Total(h, S) = Total(f, S) + Total(g, S)
<1> DEFINE W == {r \in SUBSET S : Total(h, r) = Total(f, r) + Total(g, r)}
<1>1. {} \in W
  BY TotalEmpty
<1>2. ASSUME NEW r \in SUBSET S, NEW x \in S, r \in W, x \notin r PROVE r \cup {x} \in W
  <2>1. /\ \A y \in S : f[y] \in Int
        /\ \A y \in S : g[y] \in Int
        /\ \A y \in S : h[y] \in Int
    OBVIOUS
  <2>2. /\ Total(f, r \cup {x}) = Total(f, r) + f[x] /\ Total(f, r) \in Int
        /\ Total(g, r \cup {x}) = Total(g, r) + g[x] /\ Total(g, r) \in Int
        /\ Total(h, r \cup {x}) = Total(h, r) + h[x] /\ Total(h, r) \in Int
    <3>1. Total(f, r \cup {x}) = Total(f, r) + f[x] /\ Total(f, r) \in Int
      BY <1>2, <2>1, TotalOne
    <3>2. Total(g, r \cup {x}) = Total(g, r) + g[x] /\ Total(g, r) \in Int
      BY <1>2, <2>1, TotalOne
    <3>3. Total(h, r \cup {x}) = Total(h, r) + h[x] /\ Total(h, r) \in Int
      BY <1>2, <2>1, TotalOne
    <3> QED
      BY <3>1, <3>2, <3>3
  <2>3. f[x] \in Int /\ g[x] \in Int /\ h[x] = f[x] + g[x]
    OBVIOUS
  <2>4. Total(h, r) = Total(f, r) + Total(g, r)
    BY <1>2
  <2>5. Total(h, r \cup {x}) = Total(f, r \cup {x}) + Total(g, r \cup {x})
    BY <2>2, <2>3, <2>4
  <2> QED
    BY <2>5
<1>3. S \in W
  <2> HIDE DEF W
  <2> QED
    BY <1>1, <1>2, SetInduction
<1> QED
  BY <1>3

LEMMA TotalMono ==
  ASSUME NEW S, IsFiniteSet(S), NEW f, NEW g,
         \A y \in S : f[y] \in Int /\ g[y] \in Int /\ f[y] <= g[y]
  PROVE  Total(f, S) <= Total(g, S)
<1> DEFINE h == [y \in S |-> g[y] - f[y]]
<1>1. \A y \in S : h[y] \in Nat /\ h[y] \in Int /\ f[y] \in Int /\ g[y] = f[y] + h[y]
  OBVIOUS
<1> HIDE DEF h
<1>2. Total(g, S) = Total(f, S) + Total(h, S)
  BY <1>1, TotalPlus
<1>3. Total(h, S) \in Nat /\ Total(f, S) \in Int
  BY <1>1, TotalNat, TotalInt
<1> QED
  BY <1>2, <1>3

LEMMA TotalZero ==
  ASSUME NEW S, IsFiniteSet(S), NEW f, \A y \in S : f[y] = 0
  PROVE  Total(f, S) = 0
<1> DEFINE t == Total(f, S)
<1>1. t = t + t
  BY TotalPlus
<1>2. t \in Int
  BY TotalInt
<1>3. t = 0
  <2> HIDE DEF t
  <2> QED
    BY <1>1, <1>2
<1> QED
  BY <1>3

\* All but one element counts nothing.
LEMMA TotalSingle ==
  ASSUME NEW S, IsFiniteSet(S), NEW x \in S, NEW f, f[x] \in Int,
         \A y \in S : y # x => f[y] = 0
  PROVE  Total(f, S) = f[x]
<1> DEFINE r == S \ {x}
<1>1. r \in SUBSET S /\ x \notin r /\ S = r \cup {x} /\ \A y \in S : f[y] \in Int
  OBVIOUS
<1>2. IsFiniteSet(r) /\ \A y \in r : f[y] = 0
  BY FS_Subset
<1> HIDE DEF r
<1>3. Total(f, r \cup {x}) = Total(f, r) + f[x]
  BY <1>1, TotalOne
<1>4. Total(f, r) = 0
  BY <1>2, TotalZero
<1> QED
  BY <1>1, <1>3, <1>4

LEMMA TotalAtLeast ==
  ASSUME NEW S, IsFiniteSet(S), NEW x \in S, NEW f, \A y \in S : f[y] \in Nat
  PROVE  f[x] <= Total(f, S)
<1> DEFINE r == S \ {x}
<1>1. r \in SUBSET S /\ x \notin r /\ S = r \cup {x} /\ \A y \in S : f[y] \in Int
  OBVIOUS
<1>2. IsFiniteSet(r) /\ \A y \in r : f[y] \in Nat
  BY FS_Subset
<1> HIDE DEF r
<1>3. Total(f, r \cup {x}) = Total(f, r) + f[x]
  BY <1>1, TotalOne
<1>4. Total(f, r) \in Nat /\ f[x] \in Nat
  BY <1>2, TotalNat
<1> QED
  BY <1>1, <1>3, <1>4

LEMMA TotalPart ==
  ASSUME NEW S, IsFiniteSet(S), NEW r \in SUBSET S, NEW f, \A y \in S : f[y] \in Nat
  PROVE  Total(f, r) <= Total(f, S)
<1> DEFINE W == {q \in SUBSET (S \ r) : Total(f, r) <= Total(f, r \cup q)}
           R == S \ r
<1>1. IsFiniteSet(r) /\ IsFiniteSet(R) /\ Total(f, r) \in Int /\ \A y \in S : f[y] \in Int
  BY FS_Subset, TotalInt
<1>2. {} \in W
  BY <1>1
<1>3. ASSUME NEW q \in SUBSET R, NEW x \in R, q \in W, x \notin q PROVE q \cup {x} \in W
  <2> DEFINE p == r \cup q
  <2>1. p \in SUBSET S /\ x \in S /\ x \notin p /\ r \cup (q \cup {x}) = p \cup {x}
    BY <1>3
  <2>2. Total(f, r) <= Total(f, p)
    BY <1>3
  <2> HIDE DEF p
  <2>3. Total(f, p \cup {x}) = Total(f, p) + f[x] /\ Total(f, p) \in Int
    <3>1. x \in S /\ p \in SUBSET S /\ x \notin p /\ \A y \in S : f[y] \in Int
      BY <1>1, <2>1
    <3> HIDE DEF R
    <3> QED
      BY <3>1, TotalOne
  <2>4. f[x] \in Nat
    BY <2>1
  <2> DEFINE a == Total(f, r)
             b == Total(f, p)
             c == f[x]
             d == Total(f, p \cup {x})
  <2>5. a <= d
    <3>1. a \in Int /\ a <= b /\ d = b + c /\ b \in Int /\ c \in Nat
      BY <1>1, <2>2, <2>3, <2>4
    <3> HIDE DEF a, b, c, d
    <3> QED
      BY <3>1
  <2>6. Total(f, r) <= Total(f, r \cup (q \cup {x}))
    BY <2>1, <2>5
  <2> QED
    BY <2>6
<1>4. R \in W
  <2> HIDE DEF W, R
  <2> QED
    BY <1>1, <1>2, <1>3, SetInduction
<1>5. r \cup R = S
  OBVIOUS
<1> QED
  BY <1>4, <1>5

\* A change at one element.
LEMMA TotalChange ==
  ASSUME NEW S, IsFiniteSet(S), NEW x \in S, NEW f, NEW g, NEW d \in Int,
         \A y \in S : f[y] \in Int, g[x] = f[x] + d, \A y \in S : y # x => g[y] = f[y]
  PROVE  Total(g, S) = Total(f, S) + d
<1> DEFINE h == [y \in S |-> IF y = x THEN d ELSE 0]
<1>1. \A y \in S : f[y] \in Int /\ h[y] \in Int /\ g[y] = f[y] + h[y]
  OBVIOUS
<1>2. h[x] = d /\ \A y \in S : y # x => h[y] = 0
  OBVIOUS
<1> HIDE DEF h
<1>3. Total(g, S) = Total(f, S) + Total(h, S)
  BY <1>1, TotalPlus
<1>4. Total(h, S) = d
  BY <1>2, TotalSingle
<1> QED
  BY <1>3, <1>4

\* A sum of sums, in either order.
Column(M, A, b) == [a \in A |-> M[<<a, b>>]]
Row(M, a, B) == [b \in B |-> M[<<a, b>>]]

Exchanges(A, B, M, p, q) ==
  /\ \A a \in A : \A b \in B : M[<<a, b>>] \in Int
  /\ \A a \in A : p[a] = Total(Row(M, a, B), B)
  /\ \A b \in B : q[b] = Total(Column(M, A, b), A)

LEMMA TotalExchange ==
  ASSUME NEW A, IsFiniteSet(A), NEW B, IsFiniteSet(B), NEW M, NEW p, NEW q,
         Exchanges(A, B, M, p, q)
  PROVE  Total(p, A) = Total(q, B)
<1> USE DEF Exchanges
<1> DEFINE part(r) == [b \in B |-> Total(Column(M, A, b), r)]
           W == {r \in SUBSET A : Total(p, r) = Total(part(r), B)}
<1>1. \A a \in A : \A b \in B : Column(M, A, b)[a] = M[<<a, b>>] /\ Row(M, a, B)[b] = M[<<a, b>>]
  BY DEF Column, Row
<1>2. \A a \in A : p[a] \in Int
  <2> SUFFICES ASSUME NEW a \in A PROVE Total(Row(M, a, B), B) \in Int
    OBVIOUS
  <2>1. \A b \in B : Row(M, a, B)[b] \in Int
    BY <1>1
  <2> QED
    BY <2>1, TotalInt
<1>3. {} \in W
  <2>1. \A b \in B : part({})[b] = 0
    BY TotalEmpty
  <2> HIDE DEF part
  <2>2. Total(part({}), B) = 0
    BY <2>1, TotalZero
  <2> QED
    BY <2>2, TotalEmpty
<1>4. ASSUME NEW r \in SUBSET A, NEW x \in A, r \in W, x \notin r PROVE r \cup {x} \in W
  <2> DEFINE f == part(r)
             h == part(r \cup {x})
             g == Row(M, x, B)
  <2>1. ASSUME NEW b \in B
        PROVE  f[b] \in Int /\ g[b] \in Int /\ h[b] = f[b] + g[b]
    <3> DEFINE k == Column(M, A, b)
    <3>1. \A y \in A : k[y] \in Int
      BY <1>1
    <3>2. f[b] = Total(k, r) /\ h[b] = Total(k, r \cup {x}) /\ g[b] = k[x]
      BY <1>1
    <3>3. k[x] \in Int
      BY <3>1
    <3> HIDE DEF k, f, g, h
    <3>4. Total(k, r \cup {x}) = Total(k, r) + k[x] /\ Total(k, r) \in Int
      BY <1>4, <3>1, TotalOne
    <3> QED
      BY <3>2, <3>3, <3>4
  <2>2. Total(p, r) = Total(f, B)
    BY <1>4
  <2>3. Total(p, r \cup {x}) = Total(p, r) + p[x]
    BY <1>2, <1>4, TotalOne
  <2>4. p[x] = Total(g, B)
    OBVIOUS
  <2>5. Total(p, r \cup {x}) = Total(h, B)
    <3> HIDE DEF f, g, h
    <3>1. Total(h, B) = Total(f, B) + Total(g, B)
      BY <2>1, TotalPlus
    <3> QED
      BY <2>2, <2>3, <2>4, <3>1
  <2> QED
    BY <2>5
<1>5. A \in W
  <2> HIDE DEF W
  <2> QED
    BY <1>3, <1>4, SetInduction
<1>6. \A b \in B : part(A)[b] = q[b] /\ part(A)[b] \in Int
  <2> SUFFICES ASSUME NEW b \in B PROVE q[b] \in Int
    OBVIOUS
  <2>1. \A a \in A : Column(M, A, b)[a] \in Int
    BY <1>1
  <2>2. Total(Column(M, A, b), A) \in Int
    BY <2>1, TotalInt
  <2> QED
    BY <2>2
<1>7. Total(p, A) = Total(part(A), B)
  BY <1>5
<1> HIDE DEF part
<1>8. Total(part(A), B) = Total(q, B)
  BY <1>6, TotalEq
<1> QED
  BY <1>7, <1>8

\* A sum over some elements, as one over all.
LEMMA TotalChosen ==
  ASSUME NEW D, IsFiniteSet(D), NEW C \in SUBSET D, NEW c, \A i \in D : c[i] \in Int,
         NEW f, \A i \in D : f[i] = IF i \in C THEN c[i] ELSE 0
  PROVE  Total(c, C) = Total(f, D)
<1> DEFINE W == {r \in SUBSET D : Total(c, r \cap C) = Total(f, r)}
<1>1. \A i \in D : f[i] \in Int
  OBVIOUS
<1>2. {} \in W
  <2>1. {} \cap C = {}
    OBVIOUS
  <2> QED
    BY <2>1, TotalEmpty
<1>3. ASSUME NEW r \in SUBSET D, NEW x \in D, r \in W, x \notin r PROVE r \cup {x} \in W
  <2>1. Total(f, r \cup {x}) = Total(f, r) + f[x] /\ Total(f, r) \in Int
    BY <1>1, <1>3, TotalOne
  <2>2. Total(c, r \cap C) = Total(f, r)
    BY <1>3
  <2> DEFINE q == r \cap C
  <2>3. q \in SUBSET D /\ x \notin q
    BY <1>3
  <2>4. CASE x \in C
    <3>1. (r \cup {x}) \cap C = q \cup {x} /\ f[x] = c[x]
      BY <2>4
    <3> HIDE DEF q
    <3>2. Total(c, q \cup {x}) = Total(c, q) + c[x]
      BY <2>3, TotalOne
    <3>3. Total(c, (r \cup {x}) \cap C) = Total(f, r \cup {x})
      BY <2>1, <2>2, <3>1, <3>2 DEF q
    <3> QED
      BY <3>3
  <2>5. CASE x \notin C
    <3>1. (r \cup {x}) \cap C = q /\ f[x] = 0
      BY <2>5
    <3>2. Total(c, (r \cup {x}) \cap C) = Total(f, r \cup {x})
      BY <2>1, <2>2, <3>1
    <3> QED
      BY <3>2
  <2> QED
    BY <2>4, <2>5
<1>4. D \in W
  <2> HIDE DEF W
  <2> QED
    BY <1>2, <1>3, SetInduction
<1>5. D \cap C = C
  OBVIOUS
<1> QED
  BY <1>4, <1>5

------------------------------------------------------------------------------
(***************************************************************************)
(* The folds of the model add up the limits of what is chosen: Unlimited   *)
(* if one of them is, and otherwise their sum, which has to stay below the *)
(* number that stands for no limit.                                        *)
(***************************************************************************)
Worth(c, base, s) ==
  IF base = Unlimited \/ \E i \in s : c[i] = Unlimited THEN Unlimited ELSE base + Total(c, s)

Finite(c, D) == [i \in D |-> IF c[i] = Unlimited THEN 0 ELSE c[i]]

Addable(c, base, D) ==
  /\ base \in Nat /\ \A i \in D : c[i] \in Nat
  /\ D \in SUBSET Nat /\ IsFiniteSet(D) /\ \E b \in Nat : \A i \in D : i <= b
  /\ base # Unlimited => base + Total(Finite(c, D), D) < Unlimited

AddsUp(it, c, C, base, D) ==
  it = [s \in SUBSET D |->
          IF s = {} THEN base
          ELSE IF Max(s) \in C THEN Plus(it[s \ {Max(s)}], c[Max(s)]) ELSE it[s \ {Max(s)}]]

LEMMA SomeBelow ==
  ASSUME NEW c, NEW base, NEW D, Addable(c, base, D), NEW s \in SUBSET D,
         base # Unlimited, \A i \in s : c[i] # Unlimited
  PROVE  Total(c, s) \in Nat /\ base + Total(c, s) < Unlimited
<1> DEFINE f == Finite(c, D)
<1>1. IsFiniteSet(D) /\ IsFiniteSet(s)
  BY FS_Subset DEF Addable
<1>2. \A i \in D : c[i] \in Nat /\ f[i] \in Nat
  BY DEF Addable, Finite
<1>3. \A i \in s : f[i] \in Int /\ f[i] = c[i]
  BY <1>2 DEF Finite
<1>4. s \in SUBSET D /\ base \in Nat /\ base + Total(f, D) < Unlimited
  BY DEF Addable
<1> HIDE DEF f
<1>5. Total(f, s) = Total(c, s)
  BY <1>1, <1>3, TotalEq
<1>6. Total(f, s) <= Total(f, D)
  BY <1>1, <1>2, <1>4, TotalPart
<1>7. Total(f, s) \in Nat /\ Total(f, D) \in Nat
  BY <1>1, <1>2, <1>4, TotalNat
<1> QED
  BY <1>4, <1>5, <1>6, <1>7 DEF Unlimited

LEMMA WorthStep ==
  ASSUME NEW c, NEW base, NEW D, Addable(c, base, D), NEW s \in SUBSET D,
         NEW m \in D, m \notin s
  PROVE  Worth(c, base, s \cup {m}) = Plus(Worth(c, base, s), c[m])
<1>1. IsFiniteSet(D) /\ (\A i \in D : c[i] \in Nat) /\ base \in Nat
  BY DEF Addable
<1>2. CASE base = Unlimited \/ \E i \in s : c[i] = Unlimited
  BY <1>2 DEF Worth, Plus
<1>3. CASE ~(base = Unlimited \/ \E i \in s : c[i] = Unlimited) /\ c[m] = Unlimited
  BY <1>3 DEF Worth, Plus
<1>4. CASE ~(base = Unlimited \/ \E i \in s : c[i] = Unlimited) /\ c[m] # Unlimited
  <2>1. Total(c, s) \in Nat /\ base + Total(c, s) < Unlimited
    BY <1>4, SomeBelow
  <2>2. Total(c, s \cup {m}) = Total(c, s) + c[m]
    <3>1. \A i \in D : c[i] \in Int
      BY <1>1
    <3> QED
      BY <1>1, <3>1, TotalOne
  <2>3. Worth(c, base, s) = base + Total(c, s)
    BY <1>4 DEF Worth
  <2>4. Worth(c, base, s \cup {m}) = base + Total(c, s \cup {m})
    BY <1>4 DEF Worth
  <2>5. base + Total(c, s) # Unlimited
    BY <1>1, <2>1 DEF Unlimited
  <2>6. Plus(Worth(c, base, s), c[m]) = (base + Total(c, s)) + c[m]
    BY <1>4, <2>3, <2>5 DEF Plus
  <2>7. c[m] \in Nat
    BY <1>1
  <2> QED
    BY <1>1, <2>1, <2>2, <2>4, <2>6, <2>7
<1> QED
  BY <1>2, <1>3, <1>4

LEMMA WorthNone ==
  ASSUME NEW c, NEW base \in Nat
  PROVE  Worth(c, base, {}) = base
BY TotalEmpty DEF Worth

LEMMA MaxIn ==
  ASSUME NEW c, NEW base, NEW D, Addable(c, base, D), NEW s \in SUBSET D, s # {}
  PROVE  Max(s) \in s
<1>1. PICK b \in Nat : \A i \in D : i <= b
  BY DEF Addable
<1>2. s \in SUBSET Nat /\ \A y \in s : y <= b
  BY <1>1 DEF Addable
<1> QED
  BY <1>2, MaxOf

\* One step of the fold, whatever it is that adds up.
OneMore(c, base, D, C, s, m) ==
  /\ m \in s /\ s \ {m} \in SUBSET D
  /\ Worth(c, base, s \cap C)
       = IF m \in C THEN Plus(Worth(c, base, (s \ {m}) \cap C), c[m])
         ELSE Worth(c, base, (s \ {m}) \cap C)

LEMMA WorthFolds ==
  ASSUME NEW c, NEW base, NEW D, Addable(c, base, D), NEW C \in SUBSET D,
         NEW s \in SUBSET D, s # {}
  PROVE  OneMore(c, base, D, C, s, Max(s))
<1> DEFINE m == Max(s)
<1>1. m \in s
  BY MaxIn
<1> HIDE DEF m
<1> DEFINE q == (s \ {m}) \cap C
<1>2. q \in SUBSET D /\ m \notin q /\ m \in D
  BY <1>1
<1>3. m \in C => s \cap C = q \cup {m}
  BY <1>1
<1>4. m \notin C => s \cap C = q
  BY <1>1
<1> HIDE DEF q
<1>5. Worth(c, base, q \cup {m}) = Plus(Worth(c, base, q), c[m])
  BY <1>2, WorthStep
<1>6. OneMore(c, base, D, C, s, m)
  BY <1>1, <1>3, <1>4, <1>5 DEF q, OneMore
<1> QED
  BY <1>6 DEF m

LEMMA AddsUpExists ==
  ASSUME NEW c, NEW base, NEW D, Addable(c, base, D), NEW C \in SUBSET D
  PROVE  \E it : AddsUp(it, c, C, base, D)
<1> DEFINE it == [s \in SUBSET D |-> Worth(c, base, s \cap C)]
<1>1. ASSUME NEW s \in SUBSET D
      PROVE  Worth(c, base, s \cap C)
               = IF s = {} THEN base
                 ELSE IF Max(s) \in C THEN Plus(it[s \ {Max(s)}], c[Max(s)])
                 ELSE it[s \ {Max(s)}]
  <2>1. CASE s = {}
    <3>1. s \cap C = {} /\ base \in Nat
      BY <2>1 DEF Addable
    <3> QED
      BY <2>1, <3>1, WorthNone
  <2>2. CASE s # {}
    <3> DEFINE m == Max(s)
    <3>0. OneMore(c, base, D, C, s, m)
      BY <2>2, WorthFolds
    <3> HIDE DEF m
    <3>1. /\ m \in s /\ s \ {m} \in SUBSET D
          /\ Worth(c, base, s \cap C)
               = IF m \in C THEN Plus(Worth(c, base, (s \ {m}) \cap C), c[m])
                 ELSE Worth(c, base, (s \ {m}) \cap C)
      BY <3>0 DEF OneMore
    <3>2. it[s \ {m}] = Worth(c, base, (s \ {m}) \cap C)
      BY <3>1
    <3> HIDE DEF it
    <3> QED
      BY <2>2, <3>1, <3>2 DEF m
  <2> QED
    BY <2>1, <2>2
<1>2. it = [s \in SUBSET D |->
              IF s = {} THEN base
              ELSE IF Max(s) \in C THEN Plus(it[s \ {Max(s)}], c[Max(s)]) ELSE it[s \ {Max(s)}]]
  BY <1>1
<1> HIDE DEF it
<1> QED
  BY <1>2 DEF AddsUp

LEMMA AddsUpIs ==
  ASSUME NEW c, NEW base, NEW D, Addable(c, base, D), NEW C \in SUBSET D,
         NEW it, AddsUp(it, c, C, base, D)
  PROVE  it[D] = Worth(c, base, C)
<1> DEFINE W == {s \in SUBSET D : it[s] # Worth(c, base, s \cap C)}
           T == {Cardinality(s) : s \in W}
<1>1. base \in Nat /\ IsFiniteSet(D)
  BY DEF Addable
<1>2. \A s \in SUBSET D :
        it[s] = IF s = {} THEN base
                ELSE IF Max(s) \in C THEN Plus(it[s \ {Max(s)}], c[Max(s)])
                ELSE it[s \ {Max(s)}]
  BY DEF AddsUp
<1>3. W = {}
  <2> SUFFICES ASSUME W # {} PROVE FALSE
    OBVIOUS
  <2>1. T \in SUBSET Nat /\ T # {}
    <3>1. \A s \in SUBSET D : Cardinality(s) \in Nat
      BY <1>1, FS_Subset, FS_CardinalityType
    <3> QED
      BY <3>1
  <2>2. PICK t \in T : \A y \in T : t <= y
    <3> HIDE DEF T
    <3> QED
      BY <2>1, LeastElement
  <2>3. PICK s \in W : t = Cardinality(s)
    OBVIOUS
  <2>4. CASE s = {}
    <3>1. it[s] = base /\ s \cap C = {}
      BY <1>2, <2>4
    <3>2. Worth(c, base, s \cap C) = base
      BY <1>1, <3>1, WorthNone
    <3> QED
      BY <3>1, <3>2
  <2>5. CASE s # {}
    <3> DEFINE m == Max(s)
    <3>0. OneMore(c, base, D, C, s, m)
      BY <2>5, WorthFolds
    <3>1. /\ m \in s /\ s \ {m} \in SUBSET D
          /\ Worth(c, base, s \cap C)
               = IF m \in C THEN Plus(Worth(c, base, (s \ {m}) \cap C), c[m])
                 ELSE Worth(c, base, (s \ {m}) \cap C)
      BY <3>0 DEF OneMore
    <3> DEFINE q == s \ {m}
    <3>2. it[s] = IF m \in C THEN Plus(it[q], c[m]) ELSE it[q]
      BY <1>2, <2>5
    <3> HIDE DEF m
    <3>3. /\ Cardinality(s) \in Nat /\ Cardinality(q) \in Nat
          /\ Cardinality(q) = Cardinality(s) - 1
      BY <1>1, <2>5, <3>1, Smaller
    <3>4. q \notin W
      <4> SUFFICES ASSUME q \in W PROVE FALSE
        OBVIOUS
      <4>1. Cardinality(q) \in T
        OBVIOUS
      <4>2. Cardinality(s) <= Cardinality(q)
        BY <2>2, <2>3, <4>1
      <4> HIDE DEF q
      <4> QED
        BY <3>3, <4>2
    <3>5. it[q] = Worth(c, base, q \cap C)
      BY <3>1, <3>4
    <3>6. it[s] # Worth(c, base, s \cap C)
      OBVIOUS
    <3> DEFINE v == Worth(c, base, q \cap C)
               w == Worth(c, base, s \cap C)
    <3>7. w = IF m \in C THEN Plus(v, c[m]) ELSE v
      BY <3>1
    <3>8. it[q] = v /\ it[s] # w
      BY <3>5, <3>6
    <3> HIDE DEF q, W, v, w
    <3> QED
      BY <3>2, <3>7, <3>8
  <2> QED
    BY <2>4, <2>5
<1>4. D \in SUBSET D /\ D \cap C = C
  OBVIOUS
<1> QED
  BY <1>3, <1>4

------------------------------------------------------------------------------
(***************************************************************************)
(* The limits of the nodes and of the edges, and the folds over them.      *)
(***************************************************************************)
NodeWidths(g) == [i \in DOMAIN g.nodes |-> AggBandwidth(g.nodes[i])]
EdgeWidths(g) == [i \in DOMAIN g.edges |-> EdgeCapacity(g, g.edges[i])]

\* All the limits of the graph together.
AllNodes(g) == Total(Finite(NodeWidths(g), DOMAIN g.nodes), DOMAIN g.nodes)
AllEdges(g) == Total(Finite(EdgeWidths(g), DOMAIN g.edges), DOMAIN g.edges)

\* They stay well below the number that stands for no limit.
Countable(g) == 2 * (AllNodes(g) + AllEdges(g)) < Unlimited

JoinsOf(g, e) == EdgeArcs(EndpointBase(g, e.src), EndpointBase(g, e.dst))
Capacity(g, a) ==
  FoldLeft(LAMBDA x, e : IF a \in JoinsOf(g, e) THEN Plus(x, EdgeCapacity(g, e)) ELSE x,
           0, g.edges)
ArcEdges(g, a) == {i \in DOMAIN g.edges : a \in JoinsOf(g, g.edges[i])}

IsSevered(g, sep, e) ==
  {sep[EndpointBase(g, e.src)], sep[EndpointBase(g, e.dst)]} = {"near", "far"}
Wires(g, sep) ==
  FoldLeft(LAMBDA x, e : IF IsSevered(g, sep, e) THEN Plus(x, EdgeCapacity(g, e)) ELSE x,
           0, g.edges)
Severed(g, sep) == {i \in DOMAIN g.edges : IsSevered(g, sep, g.edges[i])}

WidthOfCut(g, sep) ==
  FoldLeft(LAMBDA x, n : IF sep[n.name] = "cut" THEN Plus(x, AggBandwidth(n)) ELSE x,
           Wires(g, sep), g.nodes)
CutNodes(g, sep) == {i \in DOMAIN g.nodes : sep[g.nodes[i].name] = "cut"}

LEMMA WidthsNat ==
  ASSUME NEW g, GoodGraph(g)
  PROVE  /\ \A i \in DOMAIN g.nodes : NodeWidths(g)[i] \in Nat
         /\ \A i \in DOMAIN g.edges : EdgeWidths(g)[i] \in Nat
         /\ AllNodes(g) \in Nat /\ AllEdges(g) \in Nat
<1> DEFINE N == DOMAIN g.nodes
           E == DOMAIN g.edges
<1>1. \A i \in N : NodeWidths(g)[i] \in Nat
  BY AggWidthNat DEF NodeWidths, GoodGraph
<1>2. \A i \in E : EdgeWidths(g)[i] \in Nat
  BY EdgeAt DEF EdgeWidths
<1>3. IsFiniteSet(N) /\ IsFiniteSet(E)
  BY FS_Interval DEF GoodGraph
<1>4. \A i \in N : Finite(NodeWidths(g), N)[i] \in Nat
  BY <1>1 DEF Finite
<1>5. \A i \in E : Finite(EdgeWidths(g), E)[i] \in Nat
  BY <1>2 DEF Finite
<1>6. Total(Finite(NodeWidths(g), N), N) \in Nat
  BY <1>3, <1>4, TotalNat
<1>7. Total(Finite(EdgeWidths(g), E), E) \in Nat
  BY <1>3, <1>5, TotalNat
<1> QED
  BY <1>1, <1>2, <1>6, <1>7 DEF AllNodes, AllEdges

LEMMA DomainsAddable ==
  ASSUME NEW g, GoodGraph(g)
  PROVE  /\ DOMAIN g.nodes \in SUBSET Nat /\ IsFiniteSet(DOMAIN g.nodes)
         /\ \E b \in Nat : \A i \in DOMAIN g.nodes : i <= b
         /\ DOMAIN g.edges \in SUBSET Nat /\ IsFiniteSet(DOMAIN g.edges)
         /\ \E b \in Nat : \A i \in DOMAIN g.edges : i <= b
<1>1. \A n \in Nat : /\ 1 .. n \in SUBSET Nat /\ IsFiniteSet(1 .. n)
                     /\ \E b \in Nat : \A i \in 1 .. n : i <= b
  <2> SUFFICES ASSUME NEW n \in Nat
               PROVE  /\ 1 .. n \in SUBSET Nat /\ IsFiniteSet(1 .. n)
                      /\ \E b \in Nat : \A i \in 1 .. n : i <= b
    OBVIOUS
  <2>1. IsFiniteSet(1 .. n)
    BY FS_Interval
  <2>2. \A i \in 1 .. n : i <= n /\ i \in Nat
    OBVIOUS
  <2> QED
    BY <2>1, <2>2
<1>2. /\ Len(g.nodes) \in Nat /\ DOMAIN g.nodes = 1 .. Len(g.nodes)
      /\ Len(g.edges) \in Nat /\ DOMAIN g.edges = 1 .. Len(g.edges)
  BY DEF GoodGraph
<1>3. /\ DOMAIN g.nodes \in SUBSET Nat /\ IsFiniteSet(DOMAIN g.nodes)
      /\ \E b \in Nat : \A i \in DOMAIN g.nodes : i <= b
  BY <1>1, <1>2
<1>4. /\ DOMAIN g.edges \in SUBSET Nat /\ IsFiniteSet(DOMAIN g.edges)
      /\ \E b \in Nat : \A i \in DOMAIN g.edges : i <= b
  BY <1>1, <1>2
<1> QED
  BY <1>3, <1>4

LEMMA EdgesAddable ==
  ASSUME NEW g, GoodGraph(g), Countable(g)
  PROVE  Addable(EdgeWidths(g), 0, DOMAIN g.edges)
<1>1. /\ \A i \in DOMAIN g.edges : EdgeWidths(g)[i] \in Nat
      /\ AllNodes(g) \in Nat /\ AllEdges(g) \in Nat
  BY WidthsNat
<1>2. /\ DOMAIN g.edges \in SUBSET Nat /\ IsFiniteSet(DOMAIN g.edges)
      /\ \E b \in Nat : \A i \in DOMAIN g.edges : i <= b
  BY DomainsAddable
<1>3. 0 + AllEdges(g) < Unlimited
  BY <1>1 DEF Countable, Unlimited
<1>4. 0 \in Nat
  OBVIOUS
<1> QED
  BY <1>1, <1>2, <1>3, <1>4 DEF Addable, AllEdges

LEMMA CapacityIs ==
  ASSUME NEW g, GoodGraph(g), Countable(g), NEW a
  PROVE  Capacity(g, a) = Worth(EdgeWidths(g), 0, ArcEdges(g, a))
<1> DEFINE D == DOMAIN g.edges
           c == EdgeWidths(g)
           C == ArcEdges(g, a)
           step(it) == [s \in SUBSET D |->
                          IF s = {} THEN 0
                          ELSE IF a \in JoinsOf(g, g.edges[Max(s)])
                               THEN Plus(it[s \ {Max(s)}], EdgeCapacity(g, g.edges[Max(s)]))
                               ELSE it[s \ {Max(s)}]]
           it == CHOOSE jt : jt = step(jt)
<1>1. Capacity(g, a) = it[D]
  BY DEF Capacity, FoldLeft, MapThenFoldSet
<1>2. Addable(c, 0, D) /\ C \in SUBSET D
  BY EdgesAddable DEF ArcEdges
<1>3. ASSUME NEW jt, NEW s \in SUBSET D
      PROVE  step(jt)[s] = IF s = {} THEN 0
                           ELSE IF Max(s) \in C THEN Plus(jt[s \ {Max(s)}], c[Max(s)])
                           ELSE jt[s \ {Max(s)}]
  <2>1. s # {} => Max(s) \in D
    BY <1>2, MaxIn
  <2> DEFINE m == Max(s)
  <2> HIDE DEF m
  <2>2. s # {} => m \in D
    BY <2>1 DEF m
  <2>3. m \in D => (m \in C <=> a \in JoinsOf(g, g.edges[m])) /\ c[m] = EdgeCapacity(g, g.edges[m])
    BY DEF ArcEdges, EdgeWidths
  <2>4. step(jt)[s] = IF s = {} THEN 0
                      ELSE IF a \in JoinsOf(g, g.edges[m])
                           THEN Plus(jt[s \ {m}], EdgeCapacity(g, g.edges[m]))
                           ELSE jt[s \ {m}]
    BY DEF m
  <2> HIDE DEF step, c, C, D
  <2>5. step(jt)[s] = IF s = {} THEN 0
                      ELSE IF m \in C THEN Plus(jt[s \ {m}], c[m]) ELSE jt[s \ {m}]
    BY <2>2, <2>3, <2>4
  <2> QED
    BY <2>5 DEF m
<1>4. ASSUME NEW jt PROVE jt = step(jt) <=> AddsUp(jt, c, C, 0, D)
  <2>1. step(jt) = [s \in SUBSET D |->
                      IF s = {} THEN 0
                      ELSE IF Max(s) \in C THEN Plus(jt[s \ {Max(s)}], c[Max(s)])
                      ELSE jt[s \ {Max(s)}]]
    BY <1>3
  <2> HIDE DEF step
  <2> QED
    BY <2>1 DEF AddsUp
<1>5. \E jt : jt = step(jt)
  BY <1>2, <1>4, AddsUpExists
<1>6. it = step(it)
  <2> HIDE DEF step
  <2> QED
    BY <1>5
<1> HIDE DEF it, step, D, c, C
<1>7. AddsUp(it, c, C, 0, D)
  BY <1>4, <1>6
<1>8. it[D] = Worth(c, 0, C)
  BY <1>2, <1>7, AddsUpIs
<1> QED
  BY <1>1, <1>8 DEF c, C

LEMMA WorthNat ==
  ASSUME NEW c, NEW base, NEW D, Addable(c, base, D), NEW s \in SUBSET D
  PROVE  /\ Worth(c, base, s) \in Nat
         /\ Worth(c, base, s) # Unlimited =>
              Worth(c, base, s) <= base + Total(Finite(c, D), D)
<1> DEFINE f == Finite(c, D)
<1>1. CASE base = Unlimited \/ \E i \in s : c[i] = Unlimited
  BY <1>1 DEF Worth, Unlimited
<1>2. CASE ~(base = Unlimited \/ \E i \in s : c[i] = Unlimited)
  <2>1. Worth(c, base, s) = base + Total(c, s)
    BY <1>2 DEF Worth
  <2>2. Total(c, s) \in Nat /\ base \in Nat
    BY <1>2, SomeBelow DEF Addable
  <2>3. IsFiniteSet(D) /\ IsFiniteSet(s)
    BY FS_Subset DEF Addable
  <2>4. \A i \in D : c[i] \in Nat /\ f[i] \in Nat
    BY DEF Addable, Finite
  <2>5. \A i \in s : f[i] \in Int /\ f[i] = c[i]
    BY <1>2, <2>4 DEF Finite
  <2> HIDE DEF f
  <2>6. Total(f, s) = Total(c, s)
    BY <2>3, <2>5, TotalEq
  <2>7. Total(f, s) <= Total(f, D)
    BY <2>3, <2>4, TotalPart
  <2>8. Total(f, s) \in Nat /\ Total(f, D) \in Nat
    BY <2>3, <2>4, TotalNat
  <2> QED
    BY <2>1, <2>2, <2>6, <2>7, <2>8 DEF f
<1> QED
  BY <1>1, <1>2

LEMMA WiresIs ==
  ASSUME NEW g, GoodGraph(g), Countable(g), NEW sep
  PROVE  Wires(g, sep) = Worth(EdgeWidths(g), 0, Severed(g, sep))
<1> DEFINE D == DOMAIN g.edges
           c == EdgeWidths(g)
           C == Severed(g, sep)
           step(it) == [s \in SUBSET D |->
                          IF s = {} THEN 0
                          ELSE IF IsSevered(g, sep, g.edges[Max(s)])
                               THEN Plus(it[s \ {Max(s)}], EdgeCapacity(g, g.edges[Max(s)]))
                               ELSE it[s \ {Max(s)}]]
           it == CHOOSE jt : jt = step(jt)
<1>1. Wires(g, sep) = it[D]
  BY DEF Wires, FoldLeft, MapThenFoldSet
<1>2. Addable(c, 0, D) /\ C \in SUBSET D
  BY EdgesAddable DEF Severed
<1>3. ASSUME NEW jt, NEW s \in SUBSET D
      PROVE  step(jt)[s] = IF s = {} THEN 0
                           ELSE IF Max(s) \in C THEN Plus(jt[s \ {Max(s)}], c[Max(s)])
                           ELSE jt[s \ {Max(s)}]
  <2>1. s # {} => Max(s) \in D
    BY <1>2, MaxIn
  <2> DEFINE m == Max(s)
  <2> HIDE DEF m
  <2>2. s # {} => m \in D
    BY <2>1 DEF m
  <2>3. m \in D => (m \in C <=> IsSevered(g, sep, g.edges[m]))
                   /\ c[m] = EdgeCapacity(g, g.edges[m])
    BY DEF Severed, EdgeWidths
  <2>4. step(jt)[s] = IF s = {} THEN 0
                      ELSE IF IsSevered(g, sep, g.edges[m])
                           THEN Plus(jt[s \ {m}], EdgeCapacity(g, g.edges[m]))
                           ELSE jt[s \ {m}]
    BY DEF m
  <2> HIDE DEF step, c, C, D
  <2>5. step(jt)[s] = IF s = {} THEN 0
                      ELSE IF m \in C THEN Plus(jt[s \ {m}], c[m]) ELSE jt[s \ {m}]
    BY <2>2, <2>3, <2>4
  <2> QED
    BY <2>5 DEF m
<1>4. ASSUME NEW jt PROVE jt = step(jt) <=> AddsUp(jt, c, C, 0, D)
  <2>1. step(jt) = [s \in SUBSET D |->
                      IF s = {} THEN 0
                      ELSE IF Max(s) \in C THEN Plus(jt[s \ {Max(s)}], c[Max(s)])
                      ELSE jt[s \ {Max(s)}]]
    BY <1>3
  <2> HIDE DEF step
  <2> QED
    BY <2>1 DEF AddsUp
<1>5. \E jt : jt = step(jt)
  BY <1>2, <1>4, AddsUpExists
<1>6. it = step(it)
  <2> HIDE DEF step
  <2> QED
    BY <1>5
<1> HIDE DEF it, step, D, c, C
<1>7. AddsUp(it, c, C, 0, D)
  BY <1>4, <1>6
<1>8. it[D] = Worth(c, 0, C)
  BY <1>2, <1>7, AddsUpIs
<1> QED
  BY <1>1, <1>8 DEF c, C

LEMMA NodesAddable ==
  ASSUME NEW g, GoodGraph(g), Countable(g), NEW sep
  PROVE  Addable(NodeWidths(g), Wires(g, sep), DOMAIN g.nodes)
<1> DEFINE w == Wires(g, sep)
<1>1. /\ \A i \in DOMAIN g.nodes : NodeWidths(g)[i] \in Nat
      /\ AllNodes(g) \in Nat /\ AllEdges(g) \in Nat
  BY WidthsNat
<1>2. /\ DOMAIN g.nodes \in SUBSET Nat /\ IsFiniteSet(DOMAIN g.nodes)
      /\ \E b \in Nat : \A i \in DOMAIN g.nodes : i <= b
  BY DomainsAddable
<1>3. w \in Nat /\ (w # Unlimited => w <= 0 + AllEdges(g))
  <2>1. Severed(g, sep) \in SUBSET DOMAIN g.edges
    BY DEF Severed
  <2>2. Addable(EdgeWidths(g), 0, DOMAIN g.edges)
    BY EdgesAddable
  <2>3. w = Worth(EdgeWidths(g), 0, Severed(g, sep))
    BY WiresIs
  <2> HIDE DEF w
  <2> QED
    BY <2>1, <2>2, <2>3, WorthNat DEF AllEdges
<1>4. w # Unlimited => w + AllNodes(g) < Unlimited
  <2> HIDE DEF w
  <2> QED
    BY <1>1, <1>3 DEF Countable, Unlimited
<1> HIDE DEF w
<1>5. Addable(NodeWidths(g), w, DOMAIN g.nodes)
  BY <1>1, <1>2, <1>3, <1>4 DEF Addable, AllNodes
<1> QED
  BY <1>5 DEF w

LEMMA WidthOfCutIs ==
  ASSUME NEW g, GoodGraph(g), Countable(g), NEW sep
  PROVE  WidthOfCut(g, sep) = Worth(NodeWidths(g), Wires(g, sep), CutNodes(g, sep))
<1> DEFINE D == DOMAIN g.nodes
           c == NodeWidths(g)
           w == Wires(g, sep)
           C == CutNodes(g, sep)
           step(it) == [s \in SUBSET D |->
                          IF s = {} THEN w
                          ELSE IF sep[g.nodes[Max(s)].name] = "cut"
                               THEN Plus(it[s \ {Max(s)}], AggBandwidth(g.nodes[Max(s)]))
                               ELSE it[s \ {Max(s)}]]
           it == CHOOSE jt : jt = step(jt)
<1>1. WidthOfCut(g, sep) = it[D]
  BY DEF WidthOfCut, FoldLeft, MapThenFoldSet
<1>2. Addable(c, w, D) /\ C \in SUBSET D
  BY NodesAddable DEF CutNodes
<1> HIDE DEF w
<1>3. ASSUME NEW jt, NEW s \in SUBSET D
      PROVE  step(jt)[s] = IF s = {} THEN w
                           ELSE IF Max(s) \in C THEN Plus(jt[s \ {Max(s)}], c[Max(s)])
                           ELSE jt[s \ {Max(s)}]
  <2>1. s # {} => Max(s) \in D
    BY <1>2, MaxIn
  <2> DEFINE m == Max(s)
  <2> HIDE DEF m
  <2>2. s # {} => m \in D
    BY <2>1 DEF m
  <2>3. m \in D => (m \in C <=> sep[g.nodes[m].name] = "cut")
                   /\ c[m] = AggBandwidth(g.nodes[m])
    BY DEF CutNodes, NodeWidths
  <2>4. step(jt)[s] = IF s = {} THEN w
                      ELSE IF sep[g.nodes[m].name] = "cut"
                           THEN Plus(jt[s \ {m}], AggBandwidth(g.nodes[m]))
                           ELSE jt[s \ {m}]
    BY DEF m
  <2> HIDE DEF step, c, C, D
  <2>5. step(jt)[s] = IF s = {} THEN w
                      ELSE IF m \in C THEN Plus(jt[s \ {m}], c[m]) ELSE jt[s \ {m}]
    BY <2>2, <2>3, <2>4
  <2> QED
    BY <2>5 DEF m
<1>4. ASSUME NEW jt PROVE jt = step(jt) <=> AddsUp(jt, c, C, w, D)
  <2>1. step(jt) = [s \in SUBSET D |->
                      IF s = {} THEN w
                      ELSE IF Max(s) \in C THEN Plus(jt[s \ {Max(s)}], c[Max(s)])
                      ELSE jt[s \ {Max(s)}]]
    BY <1>3
  <2> HIDE DEF step
  <2> QED
    BY <2>1 DEF AddsUp
<1>5. \E jt : jt = step(jt)
  BY <1>2, <1>4, AddsUpExists
<1>6. it = step(it)
  <2> HIDE DEF step
  <2> QED
    BY <1>5
<1> HIDE DEF it, step, D, c, C
<1>7. AddsUp(it, c, C, w, D)
  BY <1>4, <1>6
<1>8. it[D] = Worth(c, w, C)
  BY <1>2, <1>7, AddsUpIs
<1> QED
  BY <1>1, <1>8 DEF c, C, w

------------------------------------------------------------------------------
\* Two sums over sets with no element in common.
LEMMA TotalUnion ==
  ASSUME NEW X, IsFiniteSet(X), NEW Y, IsFiniteSet(Y), X \cap Y = {},
         NEW f, \A y \in X \cup Y : f[y] \in Int
  PROVE  Total(f, X \cup Y) = Total(f, X) + Total(f, Y)
<1> DEFINE D == X \cup Y
           f1 == [y \in D |-> IF y \in X THEN f[y] ELSE 0]
           f2 == [y \in D |-> IF y \in Y THEN f[y] ELSE 0]
<1>1. IsFiniteSet(D)
  BY FS_Union
<1>2. \A y \in D : f[y] \in Int
  OBVIOUS
<1>3. X \in SUBSET D /\ Y \in SUBSET D
  OBVIOUS
<1>4. \A y \in D : f1[y] = IF y \in X THEN f[y] ELSE 0
  OBVIOUS
<1>5. \A y \in D : f2[y] = IF y \in Y THEN f[y] ELSE 0
  OBVIOUS
<1>6. \A y \in D : f1[y] \in Int /\ f2[y] \in Int /\ f[y] = f1[y] + f2[y]
  BY <1>2
<1> HIDE DEF D, f1, f2
<1>7. Total(f, X) = Total(f1, D)
  BY <1>1, <1>2, <1>3, <1>4, TotalChosen
<1>8. Total(f, Y) = Total(f2, D)
  BY <1>1, <1>2, <1>3, <1>5, TotalChosen
<1>9. Total(f, D) = Total(f1, D) + Total(f2, D)
  BY <1>1, <1>6, TotalPlus
<1> QED
  BY <1>7, <1>8, <1>9 DEF D

\* Items that are told apart by where they belong.
Placed(at, B, a) == {b \in B : at[b] = a}

LEMMA Regroup ==
  ASSUME NEW A, IsFiniteSet(A), NEW B, IsFiniteSet(B),
         NEW c, \A b \in B : c[b] \in Int,
         NEW at, \A b \in B : at[b] \in A,
         NEW p, \A a \in A : p[a] = Total(c, Placed(at, B, a))
  PROVE  Total(p, A) = Total(c, B)
<1> DEFINE M == [x \in A \X B |-> IF at[x[2]] = x[1] THEN c[x[2]] ELSE 0]
<1>1. \A a \in A : \A b \in B : M[<<a, b>>] = IF at[b] = a THEN c[b] ELSE 0
  OBVIOUS
<1> HIDE DEF M
<1>2. ASSUME NEW a \in A, NEW b \in B PROVE M[<<a, b>>] \in Int
  <2>1. M[<<a, b>>] = c[b] \/ M[<<a, b>>] = 0
    BY <1>1
  <2> QED
    BY <2>1
<1>3. ASSUME NEW a \in A PROVE p[a] = Total(Row(M, a, B), B)
  <2> DEFINE C == Placed(at, B, a)
             f == Row(M, a, B)
  <2>1. C \in SUBSET B
    BY DEF Placed
  <2>2. \A b \in B : f[b] = IF b \in C THEN c[b] ELSE 0
    BY <1>1 DEF Row, Placed
  <2> HIDE DEF C, f
  <2>3. Total(c, C) = Total(f, B)
    BY <2>1, <2>2, TotalChosen
  <2> QED
    BY <2>3 DEF C, f
<1>4. ASSUME NEW b \in B PROVE c[b] = Total(Column(M, A, b), A)
  <2> DEFINE f == Column(M, A, b)
             x == at[b]
  <2>1. x \in A /\ f[x] = c[b] /\ f[x] \in Int
    BY <1>1 DEF Column
  <2>2. \A y \in A : y # x => f[y] = 0
    BY <1>1 DEF Column
  <2> HIDE DEF f, x
  <2>3. Total(f, A) = f[x]
    BY <2>1, <2>2, TotalSingle
  <2> QED
    BY <2>1, <2>3 DEF f
<1>5. \A a \in A : p[a] = Total(Row(M, a, B), B)
  BY <1>3
<1>6. \A b \in B : c[b] = Total(Column(M, A, b), A)
  BY <1>4
<1>7. Exchanges(A, B, M, p, c)
  BY <1>2, <1>5, <1>6 DEF Exchanges
<1> QED
  BY <1>7, TotalExchange

------------------------------------------------------------------------------
(***************************************************************************)
(* The arcs: those of the nodes, those that are free, those of the edges,  *)
(* and each of them backwards.                                             *)
(***************************************************************************)
NodeArc(n) == <<NIn(n), NOut(n)>>
NodeArcs(g) == {NodeArc(n) : n \in Names(g)}
FreeArcs(srcs, dsts) == {<<Source, NIn(n)>> : n \in srcs} \cup {<<NOut(n), Sink>> : n \in dsts}
WireArcs(g) == UNION {JoinsOf(g, e) : e \in Range(g.edges)}
There(g, srcs, dsts) == NodeArcs(g) \cup FreeArcs(srcs, dsts) \cup WireArcs(g)
Backwards(a) == <<a[2], a[1]>>
Back(g, srcs, dsts) == {Backwards(a) : a \in There(g, srcs, dsts)}

Vertices(g) == ({"in", "out"} \X Names(g)) \cup {Source, Sink}

LEMMA ArcsAre ==
  ASSUME NEW g, NEW srcs, NEW dsts
  PROVE  Arcs(g, srcs, dsts) =
           [a \in There(g, srcs, dsts) \cup Back(g, srcs, dsts) |->
              CASE a \in NodeArcs(g) -> AggBandwidth(NodeOf(g, a[1][2]))
                [] a \in FreeArcs(srcs, dsts) -> Unlimited
                [] OTHER -> Capacity(g, a)]
BY DEF Arcs, There, Back, NodeArcs, NodeArc, FreeArcs, WireArcs, JoinsOf, Backwards, Capacity

LEMMA WireArcsAre ==
  ASSUME NEW g, GoodGraph(g)
  PROVE  \A a : a \in WireArcs(g) <=>
           \E i \in DOMAIN g.edges : a \in JoinsOf(g, g.edges[i])
BY DEF WireArcs, Range

LEMMA JoinsForm ==
  ASSUME NEW g, GoodGraph(g), NEW i \in DOMAIN g.edges, NEW a \in JoinsOf(g, g.edges[i])
  PROVE  \E s, d \in Names(g) :
           /\ a = <<NOut(s), NIn(d)>>
           /\ {s, d} = {EndpointBase(g, g.edges[i].src), EndpointBase(g, g.edges[i].dst)}
<1> DEFINE s == EndpointBase(g, g.edges[i].src)
           d == EndpointBase(g, g.edges[i].dst)
<1>1. s \in Names(g) /\ d \in Names(g)
  BY EdgeAt
<1>2. a = <<NOut(s), NIn(d)>> \/ a = <<NOut(d), NIn(s)>>
  BY DEF JoinsOf, EdgeArcs
<1> HIDE DEF s, d
<1> QED
  BY <1>1, <1>2 DEF s, d

\* An arc leads from one vertex to another, and is of one kind.
LEMMA ThereForm ==
  ASSUME NEW g, NEW srcs, NEW dsts, Askable(g, srcs, dsts), NEW a \in There(g, srcs, dsts)
  PROVE  \/ \E n \in Names(g) : a = <<NIn(n), NOut(n)>>
         \/ \E n \in srcs : a = <<Source, NIn(n)>>
         \/ \E n \in dsts : a = <<NOut(n), Sink>>
         \/ \E s, d \in Names(g) : a = <<NOut(s), NIn(d)>> /\ a \in WireArcs(g)
<1>1. CASE a \in NodeArcs(g)
  BY <1>1 DEF NodeArcs, NodeArc
<1>2. CASE a \in FreeArcs(srcs, dsts)
  BY <1>2 DEF FreeArcs
<1>3. CASE a \in WireArcs(g)
  <2>1. PICK i \in DOMAIN g.edges : a \in JoinsOf(g, g.edges[i])
    BY <1>3, WireArcsAre DEF Askable
  <2>2. \E s, d \in Names(g) : a = <<NOut(s), NIn(d)>>
    BY <2>1, JoinsForm DEF Askable
  <2> QED
    BY <1>3, <2>2
<1> QED
  BY <1>1, <1>2, <1>3 DEF There

LEMMA ThereVertices ==
  ASSUME NEW g, NEW srcs, NEW dsts, Askable(g, srcs, dsts), NEW a \in There(g, srcs, dsts)
  PROVE  a \in Vertices(g) \X Vertices(g)
<1>1. Source \in Vertices(g) /\ Sink \in Vertices(g)
  BY DEF Vertices
<1>2. \A n \in Names(g) : NIn(n) \in Vertices(g) /\ NOut(n) \in Vertices(g)
  BY DEF Vertices, NIn, NOut
<1>3. srcs \in SUBSET Names(g) /\ dsts \in SUBSET Names(g)
  BY DEF Askable
<1>4. \E x, y \in Vertices(g) : a = <<x, y>>
  <2> HIDE DEF Vertices
  <2> QED
    BY <1>1, <1>2, <1>3, ThereForm
<1> QED
  BY <1>4

LEMMA NamesFinite ==
  ASSUME NEW g, GoodGraph(g)
  PROVE  IsFiniteSet(Names(g))
<1>1. [i \in DOMAIN g.nodes |-> g.nodes[i].name] \in Surjection(DOMAIN g.nodes, Names(g))
  BY DEF Surjection, Names
<1>2. IsFiniteSet(DOMAIN g.nodes)
  BY DomainsAddable
<1> QED
  BY <1>1, <1>2, FS_Surjection

LEMMA VerticesFinite ==
  ASSUME NEW g, GoodGraph(g)
  PROVE  IsFiniteSet(Vertices(g))
<1>1. IsFiniteSet({"in"}) /\ IsFiniteSet({"out"}) /\ IsFiniteSet({Source}) /\ IsFiniteSet({Sink})
  BY FS_Singleton
<1>2. {"in", "out"} = {"in"} \cup {"out"} /\ {Source, Sink} = {Source} \cup {Sink}
  OBVIOUS
<1>3. IsFiniteSet({"in", "out"}) /\ IsFiniteSet({Source, Sink})
  <2>1. IsFiniteSet({"in"} \cup {"out"})
    BY <1>1, FS_Union
  <2>2. IsFiniteSet({Source} \cup {Sink})
    BY <1>1, FS_Union
  <2> QED
    BY <1>2, <2>1, <2>2
<1>4. IsFiniteSet({"in", "out"} \X Names(g))
  BY <1>3, NamesFinite, FS_Product
<1> QED
  BY <1>3, <1>4, FS_Union DEF Vertices

LEMMA ArcsFinite ==
  ASSUME NEW g, NEW srcs, NEW dsts, Askable(g, srcs, dsts)
  PROVE  /\ DOMAIN Arcs(g, srcs, dsts) \in SUBSET (Vertices(g) \X Vertices(g))
         /\ IsFiniteSet(DOMAIN Arcs(g, srcs, dsts))
         /\ \A a \in DOMAIN Arcs(g, srcs, dsts) :
              a = <<a[1], a[2]>> /\ Backwards(a) \in DOMAIN Arcs(g, srcs, dsts)
<1> DEFINE A == DOMAIN Arcs(g, srcs, dsts)
           V == Vertices(g)
           T == There(g, srcs, dsts)
<1>1. A = T \cup {Backwards(a) : a \in T}
  BY ArcsAre DEF Back
<1>2. IsFiniteSet(V \X V)
  BY VerticesFinite, FS_Product DEF Askable
<1>3. T \in SUBSET (V \X V)
  BY ThereVertices
<1> HIDE DEF A, V, T
<1>4. A \in SUBSET (V \X V)
  BY <1>1, <1>3 DEF Backwards
<1>5. IsFiniteSet(A)
  BY <1>2, <1>4, FS_Subset
<1>6. \A a \in A : a = <<a[1], a[2]>> /\ Backwards(a) \in A
  <2> SUFFICES ASSUME NEW a \in A PROVE a = <<a[1], a[2]>> /\ Backwards(a) \in A
    OBVIOUS
  <2>1. a = <<a[1], a[2]>>
    BY <1>4
  <2>2. CASE a \in T
    BY <1>1, <2>1, <2>2
  <2>3. CASE a \notin T
    <3>1. PICK b \in T : a = Backwards(b)
      BY <1>1, <2>3
    <3>2. b = <<b[1], b[2]>>
      BY <1>3
    <3>3. Backwards(a) = b
      BY <3>1, <3>2 DEF Backwards
    <3> QED
      BY <1>1, <2>1, <3>3
  <2> QED
    BY <2>2, <2>3
<1> QED
  BY <1>4, <1>5, <1>6 DEF A, V

LEMMA ArcCapacity ==
  ASSUME NEW g, NEW srcs, NEW dsts, Askable(g, srcs, dsts), Countable(g),
         NEW a \in DOMAIN Arcs(g, srcs, dsts)
  PROVE  Arcs(g, srcs, dsts)[a] =
           CASE a \in NodeArcs(g) -> AggBandwidth(NodeOf(g, a[1][2]))
             [] a \in FreeArcs(srcs, dsts) -> Unlimited
             [] OTHER -> Worth(EdgeWidths(g), 0, ArcEdges(g, a))
<1>1. a \in There(g, srcs, dsts) \cup Back(g, srcs, dsts)
  BY ArcsAre
<1>2. Arcs(g, srcs, dsts)[a] =
        CASE a \in NodeArcs(g) -> AggBandwidth(NodeOf(g, a[1][2]))
          [] a \in FreeArcs(srcs, dsts) -> Unlimited
          [] OTHER -> Capacity(g, a)
  BY <1>1, ArcsAre
<1>3. Capacity(g, a) = Worth(EdgeWidths(g), 0, ArcEdges(g, a))
  BY CapacityIs DEF Askable
<1> QED
  BY <1>2, <1>3

LEMMA NodeArcCapacity ==
  ASSUME NEW g, NEW srcs, NEW dsts, Askable(g, srcs, dsts), Countable(g), NEW n \in Names(g)
  PROVE  /\ NodeArc(n) \in DOMAIN Arcs(g, srcs, dsts)
         /\ Arcs(g, srcs, dsts)[NodeArc(n)] = NodeWidth(g, n)
<1> DEFINE a == NodeArc(n)
<1>1. a \in NodeArcs(g) /\ a[1][2] = n
  BY DEF NodeArcs, NodeArc, NIn
<1>2. a \in DOMAIN Arcs(g, srcs, dsts)
  BY <1>1, ArcsAre DEF There
<1> HIDE DEF a
<1> DEFINE cap == Arcs(g, srcs, dsts)
<1>3. cap[a] = CASE a \in NodeArcs(g) -> AggBandwidth(NodeOf(g, a[1][2]))
                 [] a \in FreeArcs(srcs, dsts) -> Unlimited
                 [] OTHER -> Worth(EdgeWidths(g), 0, ArcEdges(g, a))
  BY <1>2, ArcCapacity
<1>4. a \notin FreeArcs(srcs, dsts)
  BY DEF a, FreeArcs, NodeArc, Source, Sink, NIn, NOut
<1> HIDE DEF cap
<1>5. cap[a] = AggBandwidth(NodeOf(g, a[1][2]))
  BY <1>1, <1>3, <1>4
<1>6. cap[a] = NodeWidth(g, n)
  BY <1>1, <1>5 DEF NodeWidth
<1> QED
  BY <1>2, <1>6 DEF a, cap

LEMMA FreeArcCapacity ==
  ASSUME NEW g, NEW srcs, NEW dsts, Askable(g, srcs, dsts), Countable(g),
         NEW a \in FreeArcs(srcs, dsts)
  PROVE  a \in DOMAIN Arcs(g, srcs, dsts) /\ Arcs(g, srcs, dsts)[a] = Unlimited
<1>1. a \notin NodeArcs(g)
  BY DEF FreeArcs, NodeArcs, NodeArc, Source, Sink, NIn, NOut
<1>2. a \in DOMAIN Arcs(g, srcs, dsts)
  BY ArcsAre DEF There
<1> QED
  BY <1>1, <1>2, ArcCapacity

\* An arc from an out to an in is one of edges only.
LEMMA WireArcCapacity ==
  ASSUME NEW g, NEW srcs, NEW dsts, Askable(g, srcs, dsts), Countable(g),
         NEW a \in DOMAIN Arcs(g, srcs, dsts), NEW s, NEW d, a = <<NOut(s), NIn(d)>>
  PROVE  Arcs(g, srcs, dsts)[a] = Worth(EdgeWidths(g), 0, ArcEdges(g, a))
<1>1. a \notin NodeArcs(g) /\ a \notin FreeArcs(srcs, dsts)
  BY DEF FreeArcs, NodeArcs, NodeArc, Source, Sink, NIn, NOut
<1> QED
  BY <1>1, ArcCapacity

LEMMA BackCapacity ==
  ASSUME NEW g, NEW srcs, NEW dsts, Askable(g, srcs, dsts), Countable(g),
         NEW a \in DOMAIN Arcs(g, srcs, dsts), a \notin There(g, srcs, dsts)
  PROVE  Arcs(g, srcs, dsts)[a] = 0
<1>1. a \notin NodeArcs(g) /\ a \notin FreeArcs(srcs, dsts) /\ a \notin WireArcs(g)
  BY DEF There
<1>2. ArcEdges(g, a) = {}
  BY <1>1, WireArcsAre DEF ArcEdges, Askable
<1>3. Arcs(g, srcs, dsts)[a] = Worth(EdgeWidths(g), 0, {})
  BY <1>1, <1>2, ArcCapacity
<1>4. Worth(EdgeWidths(g), 0, {}) = 0
  BY WorthNone
<1> QED
  BY <1>3, <1>4

All(g) == AllNodes(g) + AllEdges(g)

LEMMA ArcBounds ==
  ASSUME NEW g, NEW srcs, NEW dsts, Askable(g, srcs, dsts), Countable(g),
         NEW a \in DOMAIN Arcs(g, srcs, dsts)
  PROVE  /\ Arcs(g, srcs, dsts)[a] \in Nat
         /\ Arcs(g, srcs, dsts)[a] # Unlimited => Arcs(g, srcs, dsts)[a] <= All(g)
<1> DEFINE w == Arcs(g, srcs, dsts)[a]
<1>1. AllNodes(g) \in Nat /\ AllEdges(g) \in Nat
  BY WidthsNat DEF Askable
<1>2. CASE a \in NodeArcs(g)
  <2>1. PICK n \in Names(g) : a = NodeArc(n)
    BY <1>2 DEF NodeArcs
  <2>2. w = NodeWidth(g, n)
    BY <2>1, NodeArcCapacity
  <2>3. PICK i \in DOMAIN g.nodes : NodeOf(g, n) = g.nodes[i]
    BY NodeAt DEF Askable
  <2> DEFINE D == DOMAIN g.nodes
             f == Finite(NodeWidths(g), D)
  <2>4. w = NodeWidths(g)[i] /\ w \in Nat
    BY <2>2, <2>3, WidthsNat DEF NodeWidth, NodeWidths, Askable
  <2>5. IsFiniteSet(D) /\ \A j \in D : f[j] \in Nat
    BY WidthsNat, DomainsAddable DEF Finite, Askable
  <2>6. w # Unlimited => f[i] = w
    BY <2>4 DEF Finite
  <2>7. i \in D
    OBVIOUS
  <2> HIDE DEF D, f, w
  <2>8. f[i] <= Total(f, D)
    BY <2>5, <2>7, TotalAtLeast
  <2>9. w # Unlimited => w <= AllNodes(g)
    BY <2>6, <2>8 DEF AllNodes, D, f
  <2>10. w \in Nat /\ (w # Unlimited => w <= AllNodes(g) + AllEdges(g))
    BY <1>1, <2>4, <2>9
  <2> QED
    BY <2>10 DEF w, All
<1>3. CASE a \notin NodeArcs(g) /\ a \in FreeArcs(srcs, dsts)
  BY <1>3, FreeArcCapacity DEF Unlimited
<1>4. CASE a \notin NodeArcs(g) /\ a \notin FreeArcs(srcs, dsts)
  <2>1. w = Worth(EdgeWidths(g), 0, ArcEdges(g, a))
    BY <1>4, ArcCapacity
  <2>2. Addable(EdgeWidths(g), 0, DOMAIN g.edges)
    BY EdgesAddable DEF Askable
  <2>3. ArcEdges(g, a) \in SUBSET DOMAIN g.edges
    BY DEF ArcEdges
  <2> HIDE DEF w
  <2>4. w \in Nat /\ (w # Unlimited => w <= 0 + AllEdges(g))
    BY <2>1, <2>2, <2>3, WorthNat DEF AllEdges
  <2>5. w \in Nat /\ (w # Unlimited => w <= AllNodes(g) + AllEdges(g))
    BY <1>1, <2>4
  <2> QED
    BY <2>5 DEF w, All
<1> QED
  BY <1>2, <1>3, <1>4

------------------------------------------------------------------------------
(***************************************************************************)
(* The arcs that a separation cuts, and its width.                         *)
(***************************************************************************)
Crossing(A, S) == {a \in A : a[1] \in S /\ a[2] \notin S}

SeparationsOf(g, srcs, dsts) ==
  {sep \in [Names(g) -> {"near", "cut", "far"}] :
     /\ \A n \in srcs : sep[n] # "far"
     /\ \A n \in dsts : sep[n] # "near"}

\* The vertices on the near side; a node that is cut is entered and not left.
Side(g, sep) ==
  {Source} \cup {NIn(n) : n \in {m \in Names(g) : sep[m] # "far"}}
           \cup {NOut(n) : n \in {m \in Names(g) : sep[m] = "near"}}

CutNodeArcs(g, sep) == {NodeArc(n) : n \in {m \in Names(g) : sep[m] = "cut"}}
Parted(sep, s, d, a) == a = <<NOut(s), NIn(d)>> /\ sep[s] = "near" /\ sep[d] = "far"
CutWires(g, sep) == {a \in WireArcs(g) : \E s, d \in Names(g) : Parted(sep, s, d, a)}
CutArcs(g, sep) == CutNodeArcs(g, sep) \cup CutWires(g, sep)

LEMMA SideHas ==
  ASSUME NEW g, NEW sep
  PROVE  /\ Source \in Side(g, sep) /\ Sink \notin Side(g, sep)
         /\ \A n : NIn(n) \in Side(g, sep) <=> n \in Names(g) /\ sep[n] # "far"
         /\ \A n : NOut(n) \in Side(g, sep) <=> n \in Names(g) /\ sep[n] = "near"
BY DEF Side, Source, Sink, NIn, NOut

LEMMA CutsCross ==
  ASSUME NEW g, NEW srcs, NEW dsts, Askable(g, srcs, dsts),
         NEW sep \in SeparationsOf(g, srcs, dsts)
  PROVE  CutArcs(g, sep) \in SUBSET Crossing(DOMAIN Arcs(g, srcs, dsts), Side(g, sep))
<1> DEFINE A == DOMAIN Arcs(g, srcs, dsts)
           S == Side(g, sep)
<1>1. ASSUME NEW a \in CutNodeArcs(g, sep) PROVE a \in Crossing(A, S)
  <2>1. PICK n \in Names(g) : sep[n] = "cut" /\ a = <<NIn(n), NOut(n)>>
    BY <1>1 DEF CutNodeArcs, NodeArc
  <2>2. NIn(n) \in S /\ NOut(n) \notin S
    BY <2>1, SideHas
  <2>3. a \in A
    BY <2>1, ArcsAre DEF There, NodeArcs, NodeArc
  <2> QED
    BY <2>1, <2>2, <2>3 DEF Crossing
<1>2. ASSUME NEW a \in CutWires(g, sep) PROVE a \in Crossing(A, S)
  <2>1. PICK s, d \in Names(g) : Parted(sep, s, d, a)
    BY <1>2 DEF CutWires
  <2>2. NOut(s) \in S /\ NIn(d) \notin S /\ a = <<NOut(s), NIn(d)>>
    BY <2>1, SideHas DEF Parted
  <2>3. a \in A
    BY <1>2, ArcsAre DEF There, CutWires
  <2> QED
    BY <2>2, <2>3 DEF Crossing
<1> QED
  BY <1>1, <1>2 DEF CutArcs

LEMMA CrossingIsCut ==
  ASSUME NEW g, NEW srcs, NEW dsts, Askable(g, srcs, dsts),
         NEW sep \in SeparationsOf(g, srcs, dsts),
         NEW a \in Crossing(DOMAIN Arcs(g, srcs, dsts), Side(g, sep)),
         a \in There(g, srcs, dsts)
  PROVE  a \in CutArcs(g, sep)
<1> DEFINE S == Side(g, sep)
<1>1. a[1] \in S /\ a[2] \notin S
  BY DEF Crossing
<1>2. /\ sep \in [Names(g) -> {"near", "cut", "far"}]
      /\ \A n \in srcs : n \in Names(g) /\ sep[n] # "far"
      /\ \A n \in dsts : n \in Names(g) /\ sep[n] # "near"
  BY DEF SeparationsOf, Askable
<1>3. CASE \E n \in Names(g) : a = <<NIn(n), NOut(n)>>
  <2>1. PICK n \in Names(g) : a = <<NIn(n), NOut(n)>>
    BY <1>3
  <2>2. NIn(n) \in S /\ NOut(n) \notin S
    BY <1>1, <2>1
  <2>3. sep[n] # "far" /\ sep[n] # "near"
    BY <2>2, SideHas
  <2>4. sep[n] = "cut"
    BY <1>2, <2>3
  <2> QED
    BY <2>1, <2>4 DEF CutArcs, CutNodeArcs, NodeArc
<1>4. CASE \E n \in srcs : a = <<Source, NIn(n)>>
  <2>1. PICK n \in srcs : a = <<Source, NIn(n)>>
    BY <1>4
  <2>2. NIn(n) \notin S
    BY <1>1, <2>1
  <2> QED
    BY <1>2, <2>2, SideHas
<1>5. CASE \E n \in dsts : a = <<NOut(n), Sink>>
  <2>1. PICK n \in dsts : a = <<NOut(n), Sink>>
    BY <1>5
  <2>2. NOut(n) \in S
    BY <1>1, <2>1
  <2> QED
    BY <1>2, <2>2, SideHas
<1>6. CASE \E s, d \in Names(g) : a = <<NOut(s), NIn(d)>> /\ a \in WireArcs(g)
  <2>1. PICK s, d \in Names(g) : a = <<NOut(s), NIn(d)>> /\ a \in WireArcs(g)
    BY <1>6
  <2>2. NOut(s) \in S /\ NIn(d) \notin S
    BY <1>1, <2>1
  <2>3. sep[s] = "near" /\ sep[d] = "far"
    BY <2>2, SideHas
  <2>4. Parted(sep, s, d, a)
    BY <2>1, <2>3 DEF Parted
  <2> QED
    BY <2>1, <2>4 DEF CutArcs, CutWires
<1> HIDE DEF S
<1> QED
  BY <1>3, <1>4, <1>5, <1>6, ThereForm

\* Where the edge of a severed pair of nodes crosses.
SeveredAt(g, sep) ==
  [i \in Severed(g, sep) |->
     LET s == EndpointBase(g, g.edges[i].src)
         d == EndpointBase(g, g.edges[i].dst)
     IN IF sep[s] = "near" THEN <<NOut(s), NIn(d)>> ELSE <<NOut(d), NIn(s)>>]

LEMMA SeveredCross ==
  ASSUME NEW g, GoodGraph(g), NEW sep, NEW i \in Severed(g, sep)
  PROVE  /\ SeveredAt(g, sep)[i] \in CutWires(g, sep)
         /\ SeveredAt(g, sep)[i] \in JoinsOf(g, g.edges[i])
<1> DEFINE s == EndpointBase(g, g.edges[i].src)
           d == EndpointBase(g, g.edges[i].dst)
           a == SeveredAt(g, sep)[i]
<1>1. i \in DOMAIN g.edges /\ {sep[s], sep[d]} = {"near", "far"}
  BY DEF Severed, IsSevered
<1>2. s \in Names(g) /\ d \in Names(g)
  BY <1>1, EdgeAt
<1>3. a = IF sep[s] = "near" THEN <<NOut(s), NIn(d)>> ELSE <<NOut(d), NIn(s)>>
  BY DEF SeveredAt
<1>4. JoinsOf(g, g.edges[i]) = {<<NOut(s), NIn(d)>>, <<NOut(d), NIn(s)>>}
  BY DEF JoinsOf, EdgeArcs
<1> HIDE DEF s, d, a
<1>5. a \in JoinsOf(g, g.edges[i])
  BY <1>3, <1>4
<1>6. a \in WireArcs(g)
  BY <1>1, <1>5, WireArcsAre
<1>7. CASE sep[s] = "near"
  <2>1. Parted(sep, s, d, a)
    BY <1>1, <1>3, <1>7 DEF Parted
  <2> QED
    BY <1>2, <1>5, <1>6, <2>1 DEF CutWires, a
<1>8. CASE sep[s] # "near"
  <2>1. sep[d] = "near" /\ sep[s] = "far"
    BY <1>1, <1>8
  <2>2. Parted(sep, d, s, a)
    BY <1>3, <1>8, <2>1 DEF Parted
  <2> QED
    BY <1>2, <1>5, <1>6, <2>2 DEF CutWires, a
<1> QED
  BY <1>7, <1>8

LEMMA WireSevered ==
  ASSUME NEW g, GoodGraph(g), NEW sep, NEW a \in CutWires(g, sep)
  PROVE  /\ ArcEdges(g, a) \in SUBSET Severed(g, sep)
         /\ ArcEdges(g, a) = Placed(SeveredAt(g, sep), Severed(g, sep), a)
<1>1. PICK x, y \in Names(g) : a = <<NOut(x), NIn(y)>> /\ sep[x] = "near" /\ sep[y] = "far"
  BY DEF CutWires, Parted
<1>2. ASSUME NEW i \in ArcEdges(g, a) PROVE i \in Severed(g, sep) /\ SeveredAt(g, sep)[i] = a
  <2> DEFINE s == EndpointBase(g, g.edges[i].src)
             d == EndpointBase(g, g.edges[i].dst)
  <2>1. i \in DOMAIN g.edges /\ (a = <<NOut(s), NIn(d)>> \/ a = <<NOut(d), NIn(s)>>)
    BY DEF ArcEdges, JoinsOf, EdgeArcs
  <2>2. CASE a = <<NOut(s), NIn(d)>>
    <3>1. s = x /\ d = y
      BY <1>1, <2>2 DEF NOut, NIn
    <3>2. sep[s] = "near" /\ sep[d] = "far"
      BY <1>1, <3>1
    <3>3. i \in Severed(g, sep)
      BY <2>1, <3>2 DEF Severed, IsSevered
    <3> QED
      BY <2>2, <3>2, <3>3 DEF SeveredAt
  <2>3. CASE a = <<NOut(d), NIn(s)>>
    <3>1. d = x /\ s = y
      BY <1>1, <2>3 DEF NOut, NIn
    <3>2. sep[d] = "near" /\ sep[s] = "far"
      BY <1>1, <3>1
    <3>3. i \in Severed(g, sep)
      BY <2>1, <3>2 DEF Severed, IsSevered
    <3>4. sep[s] # "near"
      BY <3>2
    <3> QED
      BY <2>3, <3>3, <3>4 DEF SeveredAt
  <2> QED
    BY <2>1, <2>2, <2>3
<1>3. ASSUME NEW i \in Severed(g, sep), SeveredAt(g, sep)[i] = a PROVE i \in ArcEdges(g, a)
  <2>1. i \in DOMAIN g.edges /\ a \in JoinsOf(g, g.edges[i])
    BY <1>3, SeveredCross DEF Severed
  <2> QED
    BY <2>1 DEF ArcEdges
<1> QED
  BY <1>2, <1>3 DEF Placed

\* The node of a cut, and where it crosses.
CutAt(g, sep) == [i \in CutNodes(g, sep) |-> NodeArc(g.nodes[i].name)]

LEMMA NodeIndex ==
  ASSUME NEW g, GoodGraph(g), NEW i \in DOMAIN g.nodes
  PROVE  g.nodes[i].name \in Names(g) /\ NodeOf(g, g.nodes[i].name) = g.nodes[i]
<1>1. g.nodes[i].name \in Names(g)
  BY DEF Names
<1>2. PICK j \in DOMAIN g.nodes :
        g.nodes[j].name = g.nodes[i].name /\ NodeOf(g, g.nodes[i].name) = g.nodes[j]
  BY <1>1, NodeAt
<1>3. j = i
  BY <1>2 DEF GoodGraph
<1> QED
  BY <1>1, <1>2, <1>3

LEMMA NodePlaced ==
  ASSUME NEW g, GoodGraph(g), NEW sep, NEW i \in CutNodes(g, sep)
  PROVE  /\ i \in DOMAIN g.nodes /\ CutAt(g, sep)[i] \in CutNodeArcs(g, sep)
         /\ Placed(CutAt(g, sep), CutNodes(g, sep), CutAt(g, sep)[i]) = {i}
<1>1. i \in DOMAIN g.nodes /\ sep[g.nodes[i].name] = "cut"
  BY DEF CutNodes
<1>2. g.nodes[i].name \in Names(g)
  BY <1>1, NodeIndex
<1>3. CutAt(g, sep)[i] \in CutNodeArcs(g, sep)
  BY <1>1, <1>2 DEF CutAt, CutNodeArcs
<1>4. ASSUME NEW j \in CutNodes(g, sep), CutAt(g, sep)[j] = CutAt(g, sep)[i] PROVE j = i
  <2>1. j \in DOMAIN g.nodes
    BY DEF CutNodes
  <2>2. g.nodes[j].name = g.nodes[i].name
    BY <1>4 DEF CutAt, NodeArc, NIn
  <2> QED
    BY <1>1, <2>1, <2>2 DEF GoodGraph
<1> QED
  BY <1>1, <1>3, <1>4 DEF Placed

LEMMA NodesOfCut ==
  ASSUME NEW g, NEW srcs, NEW dsts, Askable(g, srcs, dsts), Countable(g), NEW sep,
         NEW cap, cap = Arcs(g, srcs, dsts)
  PROVE  /\ \A i \in CutNodes(g, sep) : /\ CutAt(g, sep)[i] \in CutNodeArcs(g, sep)
                                        /\ cap[CutAt(g, sep)[i]] = NodeWidths(g)[i]
         /\ Total(cap, CutNodeArcs(g, sep)) = Total(NodeWidths(g), CutNodes(g, sep))
         /\ \A a \in CutNodeArcs(g, sep) :
              \E i \in CutNodes(g, sep) : a = CutAt(g, sep)[i]
<1> DEFINE A == CutNodeArcs(g, sep)
           B == CutNodes(g, sep)
           c == NodeWidths(g)
           at == CutAt(g, sep)
<1>1. GoodGraph(g)
  BY DEF Askable
<1>2. ASSUME NEW i \in B
      PROVE  at[i] \in A /\ cap[at[i]] = c[i] /\ c[i] \in Int /\ Placed(at, B, at[i]) = {i}
  <2>1. i \in DOMAIN g.nodes /\ at[i] \in A /\ Placed(at, B, at[i]) = {i}
    BY <1>1, NodePlaced
  <2>2. g.nodes[i].name \in Names(g) /\ NodeOf(g, g.nodes[i].name) = g.nodes[i]
    BY <1>1, <2>1, NodeIndex
  <2>3. cap[NodeArc(g.nodes[i].name)] = NodeWidth(g, g.nodes[i].name)
    BY <2>2, NodeArcCapacity
  <2>4. at[i] = NodeArc(g.nodes[i].name)
    BY DEF CutAt
  <2>5. c[i] = AggBandwidth(g.nodes[i]) /\ c[i] \in Nat
    BY <1>1, <2>1, WidthsNat DEF NodeWidths
  <2> QED
    BY <2>1, <2>2, <2>3, <2>4, <2>5 DEF NodeWidth
<1>3. ASSUME NEW a \in A PROVE \E i \in B : a = at[i]
  <2>1. PICK n \in Names(g) : sep[n] = "cut" /\ a = NodeArc(n)
    BY DEF CutNodeArcs
  <2>2. PICK i \in DOMAIN g.nodes : g.nodes[i].name = n
    BY DEF Names
  <2>3. i \in B
    BY <2>1, <2>2 DEF CutNodes
  <2> QED
    BY <2>1, <2>2, <2>3 DEF CutAt
<1>4. IsFiniteSet(B)
  <2>1. B \in SUBSET DOMAIN g.nodes /\ IsFiniteSet(DOMAIN g.nodes)
    BY <1>1, DomainsAddable DEF CutNodes
  <2> QED
    BY <2>1, FS_Subset
<1>5. IsFiniteSet(A)
  <2>1. at \in Surjection(B, A)
    <3>1. at \in [B -> A]
      BY <1>2 DEF CutAt
    <3> HIDE DEF at, A, B
    <3> QED
      BY <1>3, <3>1 DEF Surjection
  <2> HIDE DEF at, A, B
  <2> QED
    BY <1>4, <2>1, FS_Surjection
<1> HIDE DEF A, B, c, at
<1>6. ASSUME NEW a \in A PROVE cap[a] = Total(c, Placed(at, B, a))
  <2>1. PICK i \in B : a = at[i]
    BY <1>3
  <2>2. cap[a] = c[i] /\ c[i] \in Int /\ Placed(at, B, a) = {i}
    BY <1>2, <2>1
  <2>3. IsFiniteSet({i}) /\ i \in {i} /\ \A y \in {i} : y # i => c[y] = 0
    BY FS_Singleton
  <2>4. Total(c, {i}) = c[i]
    BY <2>2, <2>3, TotalSingle
  <2> QED
    BY <2>2, <2>4
<1>7. \A b \in B : c[b] \in Int
  BY <1>2
<1>8. \A b \in B : at[b] \in A
  BY <1>2
<1>9. \A a \in A : cap[a] = Total(c, Placed(at, B, a))
  BY <1>6
<1>10. Total(cap, A) = Total(c, B)
  BY <1>4, <1>5, <1>7, <1>8, <1>9, Regroup
<1> QED
  BY <1>2, <1>3, <1>10 DEF A, B, c, at

LEMMA WiresFinite ==
  ASSUME NEW g, NEW srcs, NEW dsts, Askable(g, srcs, dsts), NEW sep
  PROVE  /\ IsFiniteSet(CutWires(g, sep)) /\ IsFiniteSet(CutNodeArcs(g, sep))
         /\ CutWires(g, sep) \in SUBSET DOMAIN Arcs(g, srcs, dsts)
         /\ CutNodeArcs(g, sep) \in SUBSET DOMAIN Arcs(g, srcs, dsts)
<1>1. CutWires(g, sep) \in SUBSET DOMAIN Arcs(g, srcs, dsts)
  BY ArcsAre DEF There, CutWires
<1>2. CutNodeArcs(g, sep) \in SUBSET DOMAIN Arcs(g, srcs, dsts)
  BY ArcsAre DEF There, CutNodeArcs, NodeArcs
<1> QED
  BY <1>1, <1>2, ArcsFinite, FS_Subset

LEMMA WiresOfCut ==
  ASSUME NEW g, NEW srcs, NEW dsts, Askable(g, srcs, dsts), Countable(g), NEW sep,
         NEW cap, cap = Arcs(g, srcs, dsts),
         \A a \in CutWires(g, sep) : cap[a] # Unlimited
  PROVE  /\ \A i \in Severed(g, sep) : EdgeWidths(g)[i] # Unlimited
         /\ Total(cap, CutWires(g, sep)) = Total(EdgeWidths(g), Severed(g, sep))
<1> DEFINE A == CutWires(g, sep)
           B == Severed(g, sep)
           c == EdgeWidths(g)
           at == SeveredAt(g, sep)
<1>1. GoodGraph(g) /\ Addable(c, 0, DOMAIN g.edges)
  BY EdgesAddable DEF Askable
<1>2. ASSUME NEW a \in A
      PROVE  /\ cap[a] = Worth(c, 0, ArcEdges(g, a)) /\ cap[a] # Unlimited
             /\ ArcEdges(g, a) = Placed(at, B, a)
  <2>1. a \in DOMAIN Arcs(g, srcs, dsts)
    BY WiresFinite
  <2>2. PICK s, d \in Names(g) : a = <<NOut(s), NIn(d)>>
    BY DEF CutWires, Parted
  <2>3. cap[a] = Worth(c, 0, ArcEdges(g, a))
    BY <2>1, <2>2, WireArcCapacity
  <2>4. ArcEdges(g, a) = Placed(at, B, a)
    BY <1>1, WireSevered
  <2> QED
    BY <2>3, <2>4
<1>3. ASSUME NEW i \in B
      PROVE  at[i] \in A /\ c[i] # Unlimited /\ c[i] \in Int
  <2>1. at[i] \in A /\ at[i] \in JoinsOf(g, g.edges[i]) /\ i \in DOMAIN g.edges
    BY <1>1, SeveredCross DEF Severed
  <2>2. i \in ArcEdges(g, at[i])
    BY <2>1 DEF ArcEdges
  <2>3. Worth(c, 0, ArcEdges(g, at[i])) # Unlimited
    BY <1>2, <2>1
  <2>4. c[i] # Unlimited
    BY <2>2, <2>3 DEF Worth
  <2>5. c[i] \in Int
    BY <1>1, <2>1, WidthsNat
  <2> QED
    BY <2>1, <2>4, <2>5
<1>4. IsFiniteSet(A)
  BY WiresFinite
<1>5. IsFiniteSet(B)
  <2>1. B \in SUBSET DOMAIN g.edges /\ IsFiniteSet(DOMAIN g.edges)
    BY <1>1, DomainsAddable DEF Severed
  <2> QED
    BY <2>1, FS_Subset
<1>6. ASSUME NEW a \in A PROVE cap[a] = Total(c, Placed(at, B, a))
  <2> DEFINE C == ArcEdges(g, a)
  <2>1. Worth(c, 0, C) # Unlimited /\ cap[a] = Worth(c, 0, C) /\ C = Placed(at, B, a)
    BY <1>2
  <2>2. C \in SUBSET DOMAIN g.edges
    BY DEF ArcEdges
  <2> HIDE DEF C
  <2>3. ~(\E i \in C : c[i] = Unlimited)
    BY <2>1 DEF Worth
  <2>4. Worth(c, 0, C) = 0 + Total(c, C)
    BY <2>1 DEF Worth
  <2>5. Total(c, C) \in Nat
    BY <1>1, <2>2, <2>3, SomeBelow DEF Unlimited
  <2> QED
    BY <2>1, <2>4, <2>5
<1>7. \A b \in B : c[b] \in Int
  BY <1>3
<1>8. \A b \in B : at[b] \in A
  BY <1>3
<1>9. \A a \in A : cap[a] = Total(c, Placed(at, B, a))
  BY <1>6
<1> HIDE DEF A, B, c, at
<1>10. Total(cap, A) = Total(c, B)
  BY <1>4, <1>5, <1>7, <1>8, <1>9, Regroup
<1> QED
  BY <1>3, <1>10 DEF A, B, c

\* The width of a separation is what its arcs carry; without a limit, if one of them
\* has none.
LEMMA CutIsArcs ==
  ASSUME NEW g, NEW srcs, NEW dsts, Askable(g, srcs, dsts), Countable(g), NEW sep,
         NEW cap, cap = Arcs(g, srcs, dsts),
         \A a \in CutArcs(g, sep) : cap[a] # Unlimited
  PROVE  WidthOfCut(g, sep) = Total(cap, CutArcs(g, sep)) /\ WidthOfCut(g, sep) <= All(g)
<1> DEFINE E == Severed(g, sep)
           N == CutNodes(g, sep)
           ce == EdgeWidths(g)
           cn == NodeWidths(g)
           w == Wires(g, sep)
           C == WidthOfCut(g, sep)
<1>1. GoodGraph(g) /\ Addable(ce, 0, DOMAIN g.edges) /\ Addable(cn, w, DOMAIN g.nodes)
  BY EdgesAddable, NodesAddable DEF Askable
<1>2. /\ \A a \in CutWires(g, sep) : cap[a] # Unlimited
      /\ \A a \in CutNodeArcs(g, sep) : cap[a] # Unlimited
  BY DEF CutArcs
<1>3. (\A i \in E : ce[i] # Unlimited) /\ Total(cap, CutWires(g, sep)) = Total(ce, E)
  BY <1>2, WiresOfCut
<1>4. (\A i \in N : cn[i] # Unlimited) /\ Total(cap, CutNodeArcs(g, sep)) = Total(cn, N)
  BY <1>2, NodesOfCut
<1>5. E \in SUBSET DOMAIN g.edges /\ N \in SUBSET DOMAIN g.nodes
  BY DEF Severed, CutNodes
<1>6. w = Worth(ce, 0, E) /\ C = Worth(cn, w, N)
  BY <1>1, WiresIs, WidthOfCutIs
<1>7. AllNodes(g) \in Nat /\ AllEdges(g) \in Nat
  BY <1>1, WidthsNat
<1> HIDE DEF E, N, ce, cn, w, C
<1>8. w = 0 + Total(ce, E)
  BY <1>3, <1>6 DEF Worth, Unlimited
<1>9. Total(ce, E) \in Nat /\ 0 + Total(ce, E) < Unlimited
  BY <1>1, <1>3, <1>5, SomeBelow DEF Unlimited
<1>10. w \in Nat /\ w # Unlimited /\ w = Total(ce, E)
  BY <1>8, <1>9 DEF Unlimited
<1>11. C = w + Total(cn, N)
  BY <1>4, <1>6, <1>10 DEF Worth
<1>12. Total(cn, N) \in Nat /\ w + Total(cn, N) < Unlimited
  BY <1>1, <1>4, <1>5, <1>10, SomeBelow
<1>13. C # Unlimited /\ C \in Nat
  BY <1>10, <1>11, <1>12 DEF Unlimited
<1>14. w <= 0 + AllEdges(g)
  BY <1>1, <1>5, <1>6, <1>10, WorthNat DEF AllEdges, ce
<1>15. C <= w + AllNodes(g)
  BY <1>1, <1>5, <1>6, <1>13, WorthNat DEF AllNodes, cn
<1>16. C <= All(g)
  BY <1>7, <1>10, <1>13, <1>14, <1>15 DEF All
<1>17. Total(cap, CutArcs(g, sep)) = Total(cap, CutNodeArcs(g, sep)) + Total(cap, CutWires(g, sep))
  <2> DEFINE X == CutNodeArcs(g, sep)
             Y == CutWires(g, sep)
  <2>1. IsFiniteSet(X) /\ IsFiniteSet(Y)
    BY WiresFinite
  <2>2. X \cap Y = {}
    BY DEF CutNodeArcs, CutWires, Parted, NodeArc, NIn, NOut
  <2>3. \A a \in X \cup Y : cap[a] \in Int
    BY WiresFinite, ArcBounds
  <2> HIDE DEF X, Y
  <2>4. Total(cap, X \cup Y) = Total(cap, X) + Total(cap, Y)
    BY <2>1, <2>2, <2>3, TotalUnion
  <2> QED
    BY <2>4 DEF X, Y, CutArcs
<1>18. C = Total(cap, CutArcs(g, sep))
  BY <1>3, <1>4, <1>9, <1>10, <1>11, <1>12, <1>17
<1> QED
  BY <1>16, <1>18 DEF C

LEMMA CutUnlimited ==
  ASSUME NEW g, NEW srcs, NEW dsts, Askable(g, srcs, dsts), Countable(g), NEW sep,
         NEW cap, cap = Arcs(g, srcs, dsts),
         NEW a \in CutArcs(g, sep), cap[a] = Unlimited
  PROVE  WidthOfCut(g, sep) = Unlimited
<1> DEFINE ce == EdgeWidths(g)
           cn == NodeWidths(g)
           w == Wires(g, sep)
<1>1. GoodGraph(g) /\ Addable(ce, 0, DOMAIN g.edges)
  BY EdgesAddable DEF Askable
<1>2. w = Worth(ce, 0, Severed(g, sep)) /\ WidthOfCut(g, sep) = Worth(cn, w, CutNodes(g, sep))
  BY <1>1, WiresIs, WidthOfCutIs
<1>3. CASE a \in CutNodeArcs(g, sep)
  <2>1. PICK i \in CutNodes(g, sep) : a = CutAt(g, sep)[i]
    BY <1>3, NodesOfCut
  <2>2. cn[i] = Unlimited
    BY <2>1, NodesOfCut
  <2> QED
    BY <1>2, <2>2 DEF Worth
<1>4. CASE a \in CutWires(g, sep)
  <2> DEFINE C == ArcEdges(g, a)
  <2>1. a \in DOMAIN Arcs(g, srcs, dsts)
    BY <1>4, WiresFinite
  <2>2. PICK s, d \in Names(g) : a = <<NOut(s), NIn(d)>>
    BY <1>4 DEF CutWires, Parted
  <2>3. Worth(ce, 0, C) = Unlimited
    BY <2>1, <2>2, WireArcCapacity
  <2>4. C \in SUBSET DOMAIN g.edges /\ C \in SUBSET Severed(g, sep)
    BY <1>1, <1>4, WireSevered DEF ArcEdges
  <2> HIDE DEF C, ce, cn, w
  <2>5. \E i \in C : ce[i] = Unlimited
    <3> SUFFICES ASSUME ~ \E i \in C : ce[i] = Unlimited PROVE FALSE
      OBVIOUS
    <3>1. Worth(ce, 0, C) = 0 + Total(ce, C)
      BY DEF Worth, Unlimited
    <3>2. Total(ce, C) \in Nat /\ 0 + Total(ce, C) < Unlimited
      BY <1>1, <2>4, SomeBelow DEF Unlimited
    <3> QED
      BY <2>3, <3>1, <3>2 DEF Unlimited
  <2>6. w = Unlimited
    BY <1>2, <2>4, <2>5 DEF Worth
  <2> QED
    BY <1>2, <2>6 DEF Worth
<1> QED
  BY <1>3, <1>4 DEF CutArcs

------------------------------------------------------------------------------
(***************************************************************************)
(* A flow: what the arcs can still carry.  Across every set of vertices    *)
(* that holds the source and not the sink, and that only limited arcs      *)
(* leave, the same is sent.                                                *)
(***************************************************************************)
IsCut(cap, S) ==
  /\ Source \in S /\ Sink \notin S
  /\ \A a \in Crossing(DOMAIN cap, S) : cap[a] # Unlimited

Sent(cap, rest) == [a \in DOMAIN cap |-> cap[a] - rest[a]]

Flowing(cap, rest, sum) ==
  /\ DOMAIN rest = DOMAIN cap /\ sum \in Nat
  /\ \A a \in DOMAIN cap : /\ rest[a] \in Nat
                           /\ rest[a] <= cap[a] + sum
                           /\ cap[a] = Unlimited => rest[a] = Unlimited
  /\ \A S : IsCut(cap, S) => Total(Sent(cap, rest), Crossing(DOMAIN cap, S)) = sum

\* What a separation lets through bounds every flow.
LEMMA CutBounds ==
  ASSUME NEW g, NEW srcs, NEW dsts, Askable(g, srcs, dsts), Countable(g),
         NEW cap, cap = Arcs(g, srcs, dsts), NEW rest, NEW sum, Flowing(cap, rest, sum),
         NEW sep \in SeparationsOf(g, srcs, dsts),
         \A a \in CutArcs(g, sep) : cap[a] # Unlimited
  PROVE  sum <= WidthOfCut(g, sep) /\ WidthOfCut(g, sep) \in Nat
<1> DEFINE A == DOMAIN cap
           S == Side(g, sep)
           X == Crossing(A, S)
           K == CutArcs(g, sep)
           sent == Sent(cap, rest)
           f == [a \in X |-> IF a \in K THEN cap[a] ELSE 0]
<1>1. IsFiniteSet(A) /\ X \in SUBSET A /\ IsFiniteSet(X)
  <2>1. IsFiniteSet(A) /\ X \in SUBSET A
    BY ArcsFinite DEF Crossing
  <2> QED
    BY <2>1, FS_Subset
<1>2. K \in SUBSET X
  BY CutsCross
<1>3. ASSUME NEW a \in X
      PROVE  f[a] = IF a \in K THEN cap[a] ELSE 0
  OBVIOUS
<1>4. ASSUME NEW a \in X
      PROVE  cap[a] = f[a] /\ cap[a] # Unlimited /\ cap[a] \in Nat /\ rest[a] \in Nat
             /\ sent[a] = cap[a] - rest[a]
  <2>1. a \in A
    BY <1>1
  <2>2. cap[a] \in Nat /\ rest[a] \in Nat /\ sent[a] = cap[a] - rest[a]
    BY <2>1, ArcBounds DEF Flowing, Sent
  <2>3. CASE a \in K
    BY <2>2, <2>3
  <2>4. CASE a \notin K
    <3>1. a \notin There(g, srcs, dsts)
      BY <2>4, CrossingIsCut
    <3>2. cap[a] = 0
      BY <2>1, <3>1, BackCapacity
    <3> QED
      BY <2>2, <2>4, <3>2 DEF Unlimited
  <2> QED
    BY <2>3, <2>4
<1>5. IsCut(cap, S)
  BY <1>4, SideHas DEF IsCut
<1>6. Total(sent, X) = sum
  BY <1>5 DEF Flowing
<1> HIDE DEF A, S, X, K, sent, f
<1>7. \A a \in X : sent[a] \in Int /\ f[a] \in Int /\ sent[a] <= f[a]
  <2> SUFFICES ASSUME NEW a \in X PROVE sent[a] \in Int /\ f[a] \in Int /\ sent[a] <= f[a]
    OBVIOUS
  <2>1. cap[a] = f[a] /\ cap[a] \in Nat /\ rest[a] \in Nat /\ sent[a] = cap[a] - rest[a]
    BY <1>4
  <2> QED
    BY <2>1
<1>8. Total(sent, X) <= Total(f, X)
  BY <1>1, <1>7, TotalMono
<1>9. Total(cap, K) = Total(f, X)
  BY <1>1, <1>2, <1>3, <1>4, TotalChosen
<1>10. WidthOfCut(g, sep) = Total(cap, K)
  BY CutIsArcs DEF K
<1>11. Total(f, X) \in Nat
  BY <1>1, <1>4, TotalNat
<1> QED
  BY <1>6, <1>8, <1>9, <1>10, <1>11

\* The separation that a set of vertices makes.
SepOf(g, S) ==
  [n \in Names(g) |-> IF NOut(n) \in S THEN "near" ELSE IF NIn(n) \in S THEN "cut" ELSE "far"]

LEMMA SepSeparates ==
  ASSUME NEW g, NEW srcs, NEW dsts, Askable(g, srcs, dsts), Countable(g),
         NEW cap, cap = Arcs(g, srcs, dsts), NEW S, IsCut(cap, S)
  PROVE  /\ SepOf(g, S) \in SeparationsOf(g, srcs, dsts)
         /\ CutArcs(g, SepOf(g, S)) \in SUBSET Crossing(DOMAIN cap, S)
         /\ \A a \in CutArcs(g, SepOf(g, S)) : cap[a] # Unlimited
<1> DEFINE A == DOMAIN cap
           sep == SepOf(g, S)
<1>1. sep \in [Names(g) -> {"near", "cut", "far"}]
  BY DEF SepOf
<1>2. ASSUME NEW n \in srcs PROVE sep[n] # "far"
  <2> DEFINE a == <<Source, NIn(n)>>
  <2>1. a \in FreeArcs(srcs, dsts)
    BY DEF FreeArcs
  <2>2. a \in A /\ cap[a] = Unlimited
    BY <2>1, FreeArcCapacity
  <2>3. a \notin Crossing(A, S)
    BY <2>2 DEF IsCut
  <2>4. NIn(n) \in S
    BY <2>2, <2>3 DEF Crossing, IsCut
  <2>5. n \in Names(g)
    BY DEF Askable
  <2> QED
    BY <2>4, <2>5 DEF SepOf
<1>3. ASSUME NEW n \in dsts PROVE sep[n] # "near"
  <2> DEFINE a == <<NOut(n), Sink>>
  <2>1. a \in FreeArcs(srcs, dsts)
    BY DEF FreeArcs
  <2>2. a \in A /\ cap[a] = Unlimited
    BY <2>1, FreeArcCapacity
  <2>3. a \notin Crossing(A, S)
    BY <2>2 DEF IsCut
  <2>4. NOut(n) \notin S
    BY <2>2, <2>3 DEF Crossing, IsCut
  <2>5. n \in Names(g)
    BY DEF Askable
  <2> QED
    BY <2>4, <2>5 DEF SepOf
<1>4. ASSUME NEW a \in CutNodeArcs(g, sep) PROVE a \in Crossing(A, S)
  <2>1. PICK n \in Names(g) : sep[n] = "cut" /\ a = <<NIn(n), NOut(n)>>
    BY <1>4 DEF CutNodeArcs, NodeArc
  <2>2. NIn(n) \in S /\ NOut(n) \notin S
    BY <2>1 DEF SepOf
  <2>3. a \in A
    BY <1>4, WiresFinite
  <2> QED
    BY <2>1, <2>2, <2>3 DEF Crossing
<1>5. ASSUME NEW a \in CutWires(g, sep) PROVE a \in Crossing(A, S)
  <2>1. PICK s, d \in Names(g) : a = <<NOut(s), NIn(d)>> /\ sep[s] = "near" /\ sep[d] = "far"
    BY <1>5 DEF CutWires, Parted
  <2>2. NOut(s) \in S /\ NIn(d) \notin S
    BY <2>1 DEF SepOf
  <2>3. a \in A
    BY <1>5, WiresFinite
  <2> QED
    BY <2>1, <2>2, <2>3 DEF Crossing
<1>6. sep \in SeparationsOf(g, srcs, dsts)
  BY <1>1, <1>2, <1>3 DEF SeparationsOf
<1>7. CutArcs(g, sep) \in SUBSET Crossing(A, S)
  BY <1>4, <1>5 DEF CutArcs
<1> QED
  BY <1>6, <1>7 DEF IsCut

\* Where there is a limit at all, what is sent stays small.
LEMMA FlowSmall ==
  ASSUME NEW g, NEW srcs, NEW dsts, Askable(g, srcs, dsts), Countable(g),
         NEW cap, cap = Arcs(g, srcs, dsts), NEW rest, NEW sum, Flowing(cap, rest, sum),
         NEW S, IsCut(cap, S)
  PROVE  \A a \in DOMAIN cap : cap[a] # Unlimited => rest[a] < Unlimited
<1> DEFINE sep == SepOf(g, S)
           C == WidthOfCut(g, sep)
<1>1. sep \in SeparationsOf(g, srcs, dsts) /\ \A a \in CutArcs(g, sep) : cap[a] # Unlimited
  BY SepSeparates
<1> HIDE DEF sep
<1>2. sum <= C /\ C \in Nat
  BY <1>1, CutBounds
<1>3. C <= All(g)
  BY <1>1, CutIsArcs
<1>4. AllNodes(g) \in Nat /\ AllEdges(g) \in Nat
  BY WidthsNat DEF Askable
<1>5. sum \in Nat
  BY DEF Flowing
<1> SUFFICES ASSUME NEW a \in DOMAIN cap, cap[a] # Unlimited PROVE rest[a] < Unlimited
  OBVIOUS
<1>6. cap[a] \in Nat /\ cap[a] <= All(g)
  BY ArcBounds
<1>7. rest[a] \in Nat /\ rest[a] <= cap[a] + sum
  BY DEF Flowing
<1> HIDE DEF C
<1> QED
  BY <1>2, <1>3, <1>4, <1>5, <1>6, <1>7 DEF All, Countable, Unlimited

\* A set of vertices that nothing can leave any more gives a separation no wider
\* than the flow.
LEMMA FlowFills ==
  ASSUME NEW g, NEW srcs, NEW dsts, Askable(g, srcs, dsts), Countable(g),
         NEW cap, cap = Arcs(g, srcs, dsts), NEW rest, NEW sum, Flowing(cap, rest, sum),
         NEW S, Source \in S, Sink \notin S, \A a \in Crossing(DOMAIN cap, S) : rest[a] = 0
  PROVE  IsCut(cap, S) /\ WidthOfCut(g, SepOf(g, S)) <= sum
<1> DEFINE A == DOMAIN cap
           X == Crossing(A, S)
           K == CutArcs(g, SepOf(g, S))
           sent == Sent(cap, rest)
<1>1. X \in SUBSET A /\ IsFiniteSet(X)
  <2>1. IsFiniteSet(A) /\ X \in SUBSET A
    BY ArcsFinite DEF Crossing
  <2> QED
    BY <2>1, FS_Subset
<1>2. \A a \in X : cap[a] # Unlimited
  BY <1>1 DEF Flowing, Unlimited
<1>3. IsCut(cap, S)
  BY <1>2 DEF IsCut
<1>4. K \in SUBSET X /\ \A a \in K : cap[a] # Unlimited
  BY <1>3, SepSeparates
<1>5. Total(sent, X) = sum
  BY <1>3 DEF Flowing
<1>6. \A a \in X : cap[a] \in Nat /\ sent[a] = cap[a] - 0
  BY <1>1, ArcBounds DEF Sent
<1>7. WidthOfCut(g, SepOf(g, S)) = Total(cap, K)
  BY <1>4, CutIsArcs
<1> HIDE DEF A, X, K, sent
<1>8. \A a \in X : cap[a] \in Int /\ cap[a] = sent[a]
  BY <1>6
<1>9. Total(cap, X) = Total(sent, X)
  BY <1>1, <1>8, TotalEq
<1>10. Total(cap, K) <= Total(cap, X)
  BY <1>1, <1>4, <1>6, TotalPart
<1> QED
  BY <1>3, <1>5, <1>7, <1>9, <1>10

\* The widths that the property compares.
CutWidths(g, srcs, dsts) == {WidthOfCut(g, sep) : sep \in SeparationsOf(g, srcs, dsts)}

LEMMA FullFlow ==
  ASSUME NEW g, NEW srcs, NEW dsts, Askable(g, srcs, dsts), Countable(g),
         NEW cap, cap = Arcs(g, srcs, dsts), NEW rest, NEW sum, Flowing(cap, rest, sum),
         NEW S, Source \in S, Sink \notin S, \A a \in Crossing(DOMAIN cap, S) : rest[a] = 0
  PROVE  sum = Min(CutWidths(g, srcs, dsts))
<1> DEFINE W == CutWidths(g, srcs, dsts)
           here == SepOf(g, S)
<1>1. IsCut(cap, S) /\ WidthOfCut(g, here) <= sum
  BY FlowFills
<1>2. here \in SeparationsOf(g, srcs, dsts) /\ \A a \in CutArcs(g, here) : cap[a] # Unlimited
  BY <1>1, SepSeparates
<1> HIDE DEF here
<1>3. sum <= WidthOfCut(g, here) /\ WidthOfCut(g, here) \in Nat /\ WidthOfCut(g, here) <= All(g)
  BY <1>2, CutBounds, CutIsArcs
<1>4. sum \in Nat
  BY DEF Flowing
<1>5. sum = WidthOfCut(g, here)
  BY <1>1, <1>3, <1>4
<1>6. AllNodes(g) \in Nat /\ AllEdges(g) \in Nat
  BY WidthsNat DEF Askable
<1>7. sum < Unlimited
  BY <1>3, <1>4, <1>5, <1>6 DEF All, Countable, Unlimited
<1>8. ASSUME NEW sep \in SeparationsOf(g, srcs, dsts)
      PROVE  WidthOfCut(g, sep) \in Nat /\ sum <= WidthOfCut(g, sep)
  <2>1. CASE \A a \in CutArcs(g, sep) : cap[a] # Unlimited
    BY <2>1, CutBounds
  <2>2. CASE \E a \in CutArcs(g, sep) : cap[a] = Unlimited
    <3>1. WidthOfCut(g, sep) = Unlimited
      BY <2>2, CutUnlimited
    <3> QED
      BY <1>4, <1>7, <3>1 DEF Unlimited
  <2> QED
    BY <2>1, <2>2
<1>9. W \in SUBSET Nat /\ sum \in W /\ \A y \in W : sum <= y
  BY <1>2, <1>5, <1>8 DEF CutWidths
<1> HIDE DEF W
<1> QED
  BY <1>9, MinIs DEF W

LEMMA NoLimit ==
  ASSUME NEW g, NEW srcs, NEW dsts, Askable(g, srcs, dsts), Countable(g),
         NEW cap, cap = Arcs(g, srcs, dsts), \A S : ~IsCut(cap, S)
  PROVE  Unlimited = Min(CutWidths(g, srcs, dsts))
<1> DEFINE W == CutWidths(g, srcs, dsts)
           all == [n \in Names(g) |-> "cut"]
<1>1. ASSUME NEW sep \in SeparationsOf(g, srcs, dsts)
      PROVE  WidthOfCut(g, sep) = Unlimited
  <2> DEFINE S == Side(g, sep)
  <2>1. PICK a \in Crossing(DOMAIN cap, S) : cap[a] = Unlimited
    BY SideHas DEF IsCut
  <2>2. a \in DOMAIN cap
    BY <2>1 DEF Crossing
  <2>3. a \in There(g, srcs, dsts)
    <3>1. cap[a] # 0
      BY <2>1 DEF Unlimited
    <3> QED
      BY <2>2, <3>1, BackCapacity
  <2>4. a \in CutArcs(g, sep)
    BY <2>1, <2>3, CrossingIsCut
  <2> QED
    BY <2>1, <2>4, CutUnlimited
<1>2. all \in SeparationsOf(g, srcs, dsts)
  BY DEF SeparationsOf, Askable
<1>3. W = {Unlimited}
  BY <1>1, <1>2 DEF CutWidths
<1>4. W \in SUBSET Nat /\ Unlimited \in W /\ \A y \in W : Unlimited <= y
  BY <1>3 DEF Unlimited
<1> HIDE DEF W
<1> QED
  BY <1>4, MinIs DEF W

------------------------------------------------------------------------------
(***************************************************************************)
(* Along a route, what is pushed over its steps, and taken back from the   *)
(* arcs that go the other way, crosses every set of vertices once.         *)
(***************************************************************************)
IsWay(A, r) ==
  /\ Len(r) \in Nat /\ Len(r) > 0 /\ DOMAIN r = 1 .. Len(r) /\ NoneTwice(r)
  /\ \A i \in 1 .. Len(r) - 1 : <<r[i], r[i + 1]>> \in A

StepsTo(r, k) == {<<r[i], r[i + 1]>> : i \in 1 .. k - 1}
PushTo(A, r, k, p) ==
  [a \in A |-> IF a \in StepsTo(r, k) THEN p
               ELSE IF Backwards(a) \in StepsTo(r, k) THEN 0 - p ELSE 0]

\* The arcs are pairs, and each has its reverse.
Paired(A) == IsFiniteSet(A) /\ \A a \in A : a = <<a[1], a[2]>> /\ Backwards(a) \in A

LEMMA StepNew ==
  ASSUME NEW A, NEW r, IsWay(A, r), NEW k \in 1 .. Len(r) - 1, NEW b, b = <<r[k], r[k + 1]>>
  PROVE  /\ b \in A /\ b # Backwards(b)
         /\ b \notin StepsTo(r, k) /\ Backwards(b) \notin StepsTo(r, k)
         /\ StepsTo(r, k + 1) = StepsTo(r, k) \cup {b}
         /\ Backwards(Backwards(b)) = b
<1>1. /\ Len(r) \in Nat /\ k \in DOMAIN r /\ k + 1 \in DOMAIN r
      /\ \A i \in 1 .. k - 1 : i \in DOMAIN r /\ i + 1 \in DOMAIN r /\ i # k /\ i # k + 1
  BY DEF IsWay
<1>2. \A i, j \in DOMAIN r : r[i] = r[j] => i = j
  BY DEF IsWay, NoneTwice
<1>3. b \in A
  BY DEF IsWay
<1>4. r[k] # r[k + 1]
  BY <1>1, <1>2
<1>5. b # Backwards(b) /\ Backwards(Backwards(b)) = b
  BY <1>4 DEF Backwards
<1>6. b \notin StepsTo(r, k)
  BY <1>1, <1>2 DEF StepsTo
<1>7. Backwards(b) \notin StepsTo(r, k)
  BY <1>1, <1>2 DEF StepsTo, Backwards
<1>8. 1 .. (k + 1) - 1 = (1 .. k - 1) \cup {k}
  OBVIOUS
<1>9. StepsTo(r, k + 1) = StepsTo(r, k) \cup {b}
  BY <1>8 DEF StepsTo
<1> QED
  BY <1>3, <1>5, <1>6, <1>7, <1>9

LEMMA PushStep ==
  ASSUME NEW A, Paired(A), NEW r, IsWay(A, r), NEW k \in 1 .. Len(r) - 1,
         NEW b, b = <<r[k], r[k + 1]>>, NEW p \in Int, NEW a \in A
  PROVE  /\ PushTo(A, r, k, p)[a] \in Int
         /\ a = b => PushTo(A, r, k, p)[a] = 0 /\ PushTo(A, r, k + 1, p)[a] = p
         /\ a = Backwards(b) => PushTo(A, r, k, p)[a] = 0 /\ PushTo(A, r, k + 1, p)[a] = 0 - p
         /\ a # b /\ a # Backwards(b) => PushTo(A, r, k + 1, p)[a] = PushTo(A, r, k, p)[a]
<1> DEFINE T == StepsTo(r, k)
           U == StepsTo(r, k + 1)
<1>1. /\ b # Backwards(b) /\ b \notin T /\ Backwards(b) \notin T /\ U = T \cup {b}
      /\ Backwards(Backwards(b)) = b
  BY StepNew
<1>2. PushTo(A, r, k, p)[a] = IF a \in T THEN p ELSE IF Backwards(a) \in T THEN 0 - p ELSE 0
  BY DEF PushTo
<1>3. PushTo(A, r, k + 1, p)[a] = IF a \in U THEN p ELSE IF Backwards(a) \in U THEN 0 - p ELSE 0
  BY DEF PushTo
<1>4. a = <<a[1], a[2]>>
  BY DEF Paired
<1>5. Backwards(Backwards(a)) = a
  BY <1>4 DEF Backwards
<1> HIDE DEF T, U
<1>6. PushTo(A, r, k, p)[a] \in Int
  BY <1>2
<1>7. a = b => PushTo(A, r, k, p)[a] = 0 /\ PushTo(A, r, k + 1, p)[a] = p
  BY <1>1, <1>2, <1>3
<1>8. a = Backwards(b) => PushTo(A, r, k, p)[a] = 0 /\ PushTo(A, r, k + 1, p)[a] = 0 - p
  BY <1>1, <1>2, <1>3
<1>9. a # b /\ a # Backwards(b) => PushTo(A, r, k + 1, p)[a] = PushTo(A, r, k, p)[a]
  BY <1>1, <1>2, <1>3, <1>5
<1> QED
  BY <1>6, <1>7, <1>8, <1>9

LEMMA PushCrosses ==
  ASSUME NEW A, Paired(A), NEW r, IsWay(A, r), NEW p \in Int, NEW S,
         r[1] \in S, r[Len(r)] \notin S
  PROVE  Total(PushTo(A, r, Len(r), p), Crossing(A, S)) = p
<1> DEFINE X == Crossing(A, S)
           Gone(k) == IF r[k] \in S THEN 0 ELSE p
           T == {k \in 1 .. Len(r) : Total(PushTo(A, r, k, p), X) # Gone(k)}
<1>1. Len(r) \in Nat /\ Len(r) > 0
  BY DEF IsWay
<1>2. X \in SUBSET A /\ IsFiniteSet(X)
  <2>1. IsFiniteSet(A) /\ X \in SUBSET A
    BY DEF Paired, Crossing
  <2> QED
    BY <2>1, FS_Subset
<1>3. Total(PushTo(A, r, 1, p), X) = 0
  <2>1. \A a \in X : PushTo(A, r, 1, p)[a] = 0
    <3>1. 1 .. 1 - 1 = {}
      OBVIOUS
    <3>2. StepsTo(r, 1) = {}
      BY <3>1 DEF StepsTo
    <3> QED
      BY <1>2, <3>2 DEF PushTo
  <2> QED
    BY <1>2, <2>1, TotalZero
<1>4. ASSUME NEW k \in 1 .. Len(r) - 1, Total(PushTo(A, r, k, p), X) = Gone(k)
      PROVE  Total(PushTo(A, r, k + 1, p), X) = Gone(k + 1)
  <2> DEFINE b == <<r[k], r[k + 1]>>
             f == PushTo(A, r, k, p)
             h == PushTo(A, r, k + 1, p)
  <2>1. ASSUME NEW a \in A
        PROVE  /\ f[a] \in Int
               /\ a = b => f[a] = 0 /\ h[a] = p
               /\ a = Backwards(b) => f[a] = 0 /\ h[a] = 0 - p
               /\ a # b /\ a # Backwards(b) => h[a] = f[a]
    BY PushStep
  <2>2. b \in A /\ b # Backwards(b)
    BY StepNew
  <2>3. Backwards(b) \in A /\ Backwards(b) = <<r[k + 1], r[k]>>
    BY <2>2 DEF Paired, Backwards
  <2>4. /\ b \in X <=> r[k] \in S /\ r[k + 1] \notin S
        /\ Backwards(b) \in X <=> r[k + 1] \in S /\ r[k] \notin S
    BY <2>2, <2>3 DEF Crossing
  <2>5. Total(f, X) = Gone(k)
    BY <1>4
  <2>6. \A a \in X : f[a] \in Int
    BY <1>2, <2>1
  <2> DEFINE c == Backwards(b)
  <2> HIDE DEF b, c, f, h, X
  <2>7. CASE r[k] \in S /\ r[k + 1] \notin S
    <3>1. b \in X /\ c \notin X
      BY <2>4, <2>7 DEF c
    <3>2. h[b] = f[b] + p
      BY <2>1, <2>2
    <3>3. \A a \in X : a # b => h[a] = f[a]
      BY <1>2, <2>1, <3>1 DEF c
    <3>4. Total(h, X) = Total(f, X) + p
      BY <1>2, <2>6, <3>1, <3>2, <3>3, TotalChange
    <3> QED
      BY <2>5, <2>7, <3>4 DEF h
  <2>8. CASE r[k] \notin S /\ r[k + 1] \in S
    <3>1. c \in X /\ b \notin X
      BY <2>4, <2>8 DEF c
    <3> DEFINE m == 0 - p
    <3>2. h[c] = f[c] + m /\ m \in Int
      BY <2>1, <2>3 DEF c
    <3>3. \A a \in X : a # c => h[a] = f[a]
      BY <1>2, <2>1, <3>1 DEF c
    <3> HIDE DEF m
    <3>4. Total(h, X) = Total(f, X) + m
      BY <1>2, <2>6, <3>1, <3>2, <3>3, TotalChange
    <3> QED
      BY <2>5, <2>8, <3>4 DEF m, h
  <2>9. CASE (r[k] \in S) = (r[k + 1] \in S)
    <3>1. b \notin X /\ c \notin X
      BY <2>4, <2>9 DEF c
    <3>2. \A a \in X : f[a] \in Int /\ f[a] = h[a]
      BY <1>2, <2>1, <2>6, <3>1 DEF c
    <3>3. Total(f, X) = Total(h, X)
      BY <1>2, <3>2, TotalEq
    <3> QED
      BY <2>5, <2>9, <3>3 DEF h
  <2> QED
    BY <2>7, <2>8, <2>9
<1>5. T = {}
  <2> SUFFICES ASSUME T # {} PROVE FALSE
    OBVIOUS
  <2>1. T \in SUBSET Nat
    OBVIOUS
  <2>2. PICK k \in T : \A j \in T : k <= j
    <3> HIDE DEF T
    <3> QED
      BY <2>1, LeastElement
  <2>3. k # 1
    BY <1>3, <2>2
  <2> DEFINE j == k - 1
  <2>4. j \in 1 .. Len(r) - 1 /\ j + 1 = k /\ j < k
    BY <1>1, <2>2, <2>3
  <2> HIDE DEF j
  <2>5. j \in 1 .. Len(r)
    BY <1>1, <2>4
  <2>6. Total(PushTo(A, r, j, p), X) = Gone(j)
    <3>1. j \notin T
      BY <2>2, <2>4
    <3> QED
      BY <2>5, <3>1
  <2>7. Total(PushTo(A, r, k, p), X) = Gone(k)
    BY <1>4, <2>4, <2>6
  <2> QED
    BY <2>2, <2>7
<1>6. Len(r) \in 1 .. Len(r) /\ Gone(Len(r)) = p
  BY <1>1
<1> HIDE DEF X, Gone
<1> QED
  BY <1>5, <1>6 DEF X

\* A route has a step out of every set that holds its first vertex and not its last.
LEMMA RouteCrosses ==
  ASSUME NEW A, NEW r, IsWay(A, r), NEW S, r[1] \in S, r[Len(r)] \notin S
  PROVE  \E a \in Steps(r) : a \in Crossing(A, S)
<1> DEFINE T == {k \in 1 .. Len(r) : r[k] \notin S}
<1>1. Len(r) \in Nat /\ Len(r) > 0
  BY DEF IsWay
<1>2. T \in SUBSET Nat /\ T # {}
  BY <1>1
<1>3. PICK k \in T : \A j \in T : k <= j
  <2> HIDE DEF T
  <2> QED
    BY <1>2, LeastElement
<1> DEFINE j == k - 1
<1>4. k # 1
  BY <1>3
<1>5. j \in 1 .. Len(r) - 1 /\ j + 1 = k /\ j < k /\ j \in 1 .. Len(r)
  BY <1>1, <1>3, <1>4
<1>6. j \notin T
  BY <1>3, <1>5
<1> HIDE DEF j
<1>7. r[j] \in S /\ r[j + 1] \notin S
  BY <1>3, <1>5, <1>6
<1> DEFINE a == <<r[j], r[j + 1]>>
<1>8. a \in A /\ a \in Steps(r)
  BY <1>5 DEF IsWay, Steps
<1> QED
  BY <1>7, <1>8 DEF Crossing

\* A route in what the arcs can still carry, and what is left after a push.
IsRoute(rest, r) == IsWay(DOMAIN rest, r) /\ r[1] = Source /\ r[Len(r)] = Sink

AfterPush(rest, r, p) ==
  [a \in DOMAIN rest |-> CASE a \in Steps(r) -> Minus(rest[a], p)
                           [] <<a[2], a[1]>> \in Steps(r) -> Plus(rest[a], p)
                           [] OTHER -> rest[a]]

\* No route goes over an arc both ways.
LEMMA OneWay ==
  ASSUME NEW A, NEW r, IsWay(A, r), NEW a \in Steps(r)
  PROVE  <<a[2], a[1]>> \notin Steps(r)
<1>1. PICK i \in 1 .. Len(r) - 1 : a = <<r[i], r[i + 1]>>
  BY DEF Steps
<1>2. SUFFICES ASSUME NEW j \in 1 .. Len(r) - 1, <<a[2], a[1]>> = <<r[j], r[j + 1]>>
               PROVE  FALSE
  BY DEF Steps
<1>3. r[i + 1] = r[j] /\ r[i] = r[j + 1]
  BY <1>1, <1>2
<1>4. Len(r) \in Nat /\ {i, i + 1, j, j + 1} \subseteq DOMAIN r
  BY DEF IsWay
<1>5. i + 1 = j /\ i = j + 1
  BY <1>3, <1>4 DEF IsWay, NoneTwice
<1> QED
  BY <1>5

LEMMA PushBounds ==
  ASSUME NEW cap, NEW rest, NEW sum, Flowing(cap, rest, sum), NEW r, IsRoute(rest, r),
         NEW p \in Nat, p # Unlimited, \A a \in Steps(r) \cap DOMAIN rest : p <= rest[a],
         NEW a \in DOMAIN cap, cap[a] \in Nat, NEW y, y = AfterPush(rest, r, p)[a]
  PROVE  y \in Nat /\ y <= cap[a] + (sum + p) /\ (cap[a] = Unlimited => y = Unlimited)
<1> DEFINE x == rest[a]
           c == cap[a]
<1>1. /\ a \in DOMAIN rest /\ x \in Nat /\ x <= c + sum /\ c \in Nat /\ sum \in Nat
      /\ c = Unlimited => x = Unlimited
  BY DEF Flowing
<1>2. a \in Steps(r) => p <= x
  BY <1>1
<1>3. y = CASE a \in Steps(r) -> Minus(x, p)
            [] <<a[2], a[1]>> \in Steps(r) -> Plus(x, p)
            [] OTHER -> x
  BY <1>1 DEF AfterPush
<1>4. a \in Steps(r) => <<a[2], a[1]>> \notin Steps(r)
  BY OneWay DEF IsRoute
<1> HIDE DEF x, c
<1>5. CASE a \in Steps(r)
  <2>1. y = Minus(x, p)
    BY <1>3, <1>4, <1>5
  <2>2. CASE x = Unlimited
    BY <1>1, <2>1, <2>2 DEF Minus, c
  <2>3. CASE x # Unlimited
    <3>1. y = x - p /\ c # Unlimited
      BY <1>1, <2>1, <2>3 DEF Minus
    <3> QED
      BY <1>1, <1>2, <1>5, <3>1 DEF c
  <2> QED
    BY <2>2, <2>3
<1>6. CASE a \notin Steps(r) /\ <<a[2], a[1]>> \in Steps(r)
  <2>1. y = Plus(x, p)
    BY <1>3, <1>6
  <2>2. CASE x = Unlimited
    BY <1>1, <2>1, <2>2 DEF Plus, c
  <2>3. CASE x # Unlimited
    <3>1. y = x + p /\ c # Unlimited
      BY <1>1, <2>1, <2>3 DEF Plus
    <3> QED
      BY <1>1, <3>1 DEF c
  <2> QED
    BY <2>2, <2>3
<1>7. CASE a \notin Steps(r) /\ <<a[2], a[1]>> \notin Steps(r)
  <2>1. y = x
    BY <1>3, <1>7
  <2> QED
    BY <1>1, <2>1 DEF c
<1> QED
  BY <1>5, <1>6, <1>7

\* Below the number that stands for no limit, a push adds and subtracts.
LEMMA PushSends ==
  ASSUME NEW cap, NEW rest, NEW sum, Flowing(cap, rest, sum), NEW r, IsRoute(rest, r),
         NEW p \in Nat, p # Unlimited, NEW a \in DOMAIN cap, rest[a] # Unlimited
  PROVE  AfterPush(rest, r, p)[a] = rest[a] - PushTo(DOMAIN cap, r, Len(r), p)[a]
<1> DEFINE x == rest[a]
           d == PushTo(DOMAIN cap, r, Len(r), p)[a]
           y == AfterPush(rest, r, p)[a]
<1>1. a \in DOMAIN rest /\ x \in Nat
  BY DEF Flowing
<1>2. Steps(r) = StepsTo(r, Len(r))
  BY DEF Steps, StepsTo
<1>3. d = IF a \in Steps(r) THEN p ELSE IF <<a[2], a[1]>> \in Steps(r) THEN 0 - p ELSE 0
  BY <1>2 DEF PushTo, Backwards
<1>4. y = CASE a \in Steps(r) -> Minus(x, p)
            [] <<a[2], a[1]>> \in Steps(r) -> Plus(x, p)
            [] OTHER -> x
  BY <1>1 DEF AfterPush
<1>5. Minus(x, p) = x - p /\ Plus(x, p) = x + p
  BY DEF Minus, Plus
<1>6. a \in Steps(r) => <<a[2], a[1]>> \notin Steps(r)
  BY OneWay DEF IsRoute
<1> HIDE DEF x, d, y
<1>7. y = x - d
  <2>1. CASE a \in Steps(r)
    BY <1>3, <1>4, <1>5, <1>6, <2>1
  <2>2. CASE a \notin Steps(r) /\ <<a[2], a[1]>> \in Steps(r)
    <3>1. y = x + p /\ d = 0 - p
      BY <1>3, <1>4, <1>5, <2>2
    <3> QED
      BY <1>1, <3>1
  <2>3. CASE a \notin Steps(r) /\ <<a[2], a[1]>> \notin Steps(r)
    <3>1. y = x /\ d = 0
      BY <1>3, <1>4, <2>3
    <3> QED
      BY <1>1, <3>1
  <2> QED
    BY <2>1, <2>2, <2>3
<1> QED
  BY <1>7 DEF x, d, y

LEMMA ArcsPaired ==
  ASSUME NEW g, NEW srcs, NEW dsts, Askable(g, srcs, dsts)
  PROVE  Paired(DOMAIN Arcs(g, srcs, dsts))
BY ArcsFinite DEF Paired

LEMMA PushFlows ==
  ASSUME NEW g, NEW srcs, NEW dsts, Askable(g, srcs, dsts), Countable(g),
         NEW cap, cap = Arcs(g, srcs, dsts), NEW rest, NEW sum, Flowing(cap, rest, sum),
         NEW r, IsRoute(rest, r), NEW p \in Nat, p # Unlimited,
         \A a \in Steps(r) \cap DOMAIN rest : p <= rest[a]
  PROVE  Flowing(cap, AfterPush(rest, r, p), sum + p)
<1> DEFINE A == DOMAIN cap
           new == AfterPush(rest, r, p)
<1>1. DOMAIN rest = A /\ DOMAIN new = A /\ sum \in Nat /\ sum + p \in Nat
  BY DEF Flowing, AfterPush
<1>2. ASSUME NEW a \in A
      PROVE  /\ new[a] \in Nat /\ new[a] <= cap[a] + (sum + p)
             /\ cap[a] = Unlimited => new[a] = Unlimited
  <2>1. cap[a] \in Nat
    BY ArcBounds
  <2> DEFINE y == new[a]
  <2>2. y = AfterPush(rest, r, p)[a]
    OBVIOUS
  <2> HIDE DEF y
  <2>3. y \in Nat /\ y <= cap[a] + (sum + p) /\ (cap[a] = Unlimited => y = Unlimited)
    BY <2>1, <2>2, PushBounds
  <2> QED
    BY <2>3 DEF y
<1>3. ASSUME NEW S, IsCut(cap, S)
      PROVE  Total(Sent(cap, new), Crossing(A, S)) = sum + p
  <2> DEFINE X == Crossing(A, S)
             f == Sent(cap, rest)
             h == Sent(cap, new)
             d == PushTo(A, r, Len(r), p)
  <2>1. X \in SUBSET A /\ IsFiniteSet(X) /\ Paired(A)
    <3>1. IsFiniteSet(A) /\ X \in SUBSET A
      BY ArcsFinite DEF Crossing
    <3> QED
      BY <3>1, ArcsPaired, FS_Subset
  <2>2. ASSUME NEW a \in X PROVE f[a] \in Int /\ d[a] \in Int /\ h[a] = f[a] + d[a]
    <3>1. a \in A /\ cap[a] # Unlimited
      BY <1>3, <2>1 DEF IsCut
    <3>2. rest[a] < Unlimited /\ rest[a] \in Nat /\ cap[a] \in Nat
      BY <1>3, <3>1, FlowSmall, ArcBounds DEF Flowing
    <3>3. rest[a] # Unlimited
      BY <3>2 DEF Unlimited
    <3>4. new[a] = rest[a] - d[a]
      BY <3>1, <3>3, PushSends
    <3>5. d[a] = p \/ d[a] = 0 - p \/ d[a] = 0
      BY <3>1 DEF PushTo
    <3>6. f[a] = cap[a] - rest[a] /\ h[a] = cap[a] - new[a]
      BY <3>1 DEF Sent
    <3> HIDE DEF f, h, d, new
    <3>7. d[a] \in Int
      BY <3>5
    <3> QED
      BY <3>2, <3>4, <3>6, <3>7
  <2>3. Total(f, X) = sum
    BY <1>3 DEF Flowing
  <2>4. Total(d, X) = p
    <3>1. IsWay(A, r) /\ r[1] \in S /\ r[Len(r)] \notin S
      BY <1>1, <1>3 DEF IsRoute, IsCut
    <3> QED
      BY <2>1, <3>1, PushCrosses
  <2> HIDE DEF X, f, h, d
  <2>5. \A a \in X : f[a] \in Int /\ d[a] \in Int /\ h[a] = f[a] + d[a]
    BY <2>2
  <2>6. Total(h, X) = Total(f, X) + Total(d, X)
    BY <2>1, <2>5, TotalPlus
  <2> QED
    BY <2>3, <2>4, <2>6 DEF X, h
<1> HIDE DEF new
<1>4. Flowing(cap, new, sum + p)
  BY <1>1, <1>2, <1>3 DEF Flowing
<1> QED
  BY <1>4 DEF new

\* Nothing limits a route whose arcs can all carry without limit.
LEMMA FreeRoute ==
  ASSUME NEW g, NEW srcs, NEW dsts, Askable(g, srcs, dsts), Countable(g),
         NEW cap, cap = Arcs(g, srcs, dsts), NEW rest, NEW sum, Flowing(cap, rest, sum),
         NEW r, IsRoute(rest, r), \A a \in Steps(r) \cap DOMAIN rest : Unlimited <= rest[a]
  PROVE  Unlimited = Min(CutWidths(g, srcs, dsts))
<1>1. ASSUME NEW S, IsCut(cap, S) PROVE FALSE
  <2>1. IsWay(DOMAIN cap, r) /\ r[1] \in S /\ r[Len(r)] \notin S
    BY <1>1 DEF IsRoute, IsCut, Flowing
  <2>2. PICK a \in Steps(r) : a \in Crossing(DOMAIN cap, S)
    BY <2>1, RouteCrosses
  <2>3. a \in DOMAIN cap /\ cap[a] # Unlimited
    BY <1>1, <2>2 DEF Crossing, IsCut
  <2>4. rest[a] < Unlimited /\ rest[a] \in Nat /\ a \in DOMAIN rest
    BY <1>1, <2>3, FlowSmall DEF Flowing
  <2>5. Unlimited <= rest[a]
    BY <2>2, <2>4
  <2> QED
    BY <2>4, <2>5 DEF Unlimited
<1> QED
  BY <1>1, NoLimit

------------------------------------------------------------------------------
(***************************************************************************)
(* The search for a route: the walks that are open so far, one vertex      *)
(* longer each time, until one ends at the sink.                           *)
(***************************************************************************)
OpenOf(rest, u) == {a[2] : a \in {x \in DOMAIN rest : x[1] = u /\ rest[x] > 0}}
Ends(known) == known = {} \/ \E r \in known : Last(r) = Sink
Further(rest, known) ==
  UNION {{Append(r, v) : v \in OpenOf(rest, Last(r)) \ Range(r)} : r \in known}
WalkStep(rest, known) == IF Ends(known) THEN known ELSE Further(rest, known)

Walks(w, rest) ==
  w = [k \in 0 .. Cardinality(DOMAIN rest) |->
         IF k = 0 THEN {<<Source>>} ELSE WalkStep(rest, w[k - 1])]
RoutesOf(rest) ==
  {r \in (CHOOSE w : Walks(w, rest))[Cardinality(DOMAIN rest)] : Last(r) = Sink}

WalksTo(w, rest, m) ==
  /\ w[0] = {<<Source>>}
  /\ \A k \in 1 .. m : w[k] = WalkStep(rest, w[k - 1])

LEMMA WalkOneMore ==
  ASSUME NEW rest, NEW m \in Nat, NEW w, WalksTo(w, rest, m)
  PROVE  \E q : WalksTo(q, rest, m + 1)
<1> DEFINE q == [k \in 0 .. m + 1 |-> IF k <= m THEN w[k] ELSE WalkStep(rest, w[m])]
<1>1. q[0] = w[0]
  OBVIOUS
<1>2. ASSUME NEW k \in 1 .. m + 1 PROVE q[k] = WalkStep(rest, q[k - 1])
  <2>1. q[k - 1] = w[k - 1]
    OBVIOUS
  <2>2. CASE k <= m
    <3>1. k \in 1 .. m /\ q[k] = w[k]
      BY <2>2
    <3>2. w[k] = WalkStep(rest, w[k - 1])
      BY <3>1 DEF WalksTo
    <3> QED
      BY <2>1, <3>1, <3>2
  <2>3. CASE ~(k <= m)
    <3>1. k = m + 1 /\ q[k] = WalkStep(rest, w[m]) /\ k - 1 = m
      BY <2>3
    <3> QED
      BY <2>1, <3>1
  <2> QED
    BY <2>2, <2>3
<1>3. WalksTo(q, rest, m + 1)
  <2> HIDE DEF q
  <2> QED
    BY <1>1, <1>2 DEF WalksTo
<1> QED
  BY <1>3

LEMMA WalksExist ==
  ASSUME NEW rest, NEW l \in Nat, l = Cardinality(DOMAIN rest)
  PROVE  \E w : Walks(w, rest)
<1> DEFINE W == {m \in Nat : ~(\E w : WalksTo(w, rest, m))}
<1>1. W = {}
  <2> SUFFICES ASSUME W # {} PROVE FALSE
    OBVIOUS
  <2>1. PICK m \in W : \A n \in W : m <= n
    <3>1. W \in SUBSET Nat
      OBVIOUS
    <3> HIDE DEF W
    <3> QED
      BY <3>1, LeastElement
  <2>2. CASE m = 0
    <3> DEFINE q == [k \in {0} |-> {<<Source>>}]
    <3>1. WalksTo(q, rest, 0)
      BY DEF WalksTo
    <3> QED
      BY <2>2, <3>1
  <2>3. CASE m # 0
    <3>1. m - 1 \in Nat /\ ~(m <= m - 1) /\ (m - 1) + 1 = m
      BY <2>3
    <3>2. PICK w : WalksTo(w, rest, m - 1)
      BY <2>1, <3>1
    <3>3. \E q : WalksTo(q, rest, m)
      BY <3>1, <3>2, WalkOneMore
    <3> QED
      BY <3>3
  <2> QED
    BY <2>2, <2>3
<1>2. PICK w : WalksTo(w, rest, l)
  BY <1>1
<1> DEFINE q == [k \in 0 .. l |-> w[k]]
<1>3. Walks(q, rest)
  <2>1. ASSUME NEW k \in 0 .. l
        PROVE  w[k] = IF k = 0 THEN {<<Source>>} ELSE WalkStep(rest, q[k - 1])
    <3>1. CASE k = 0
      BY <1>2, <3>1 DEF WalksTo
    <3>2. CASE k # 0
      <4>1. k \in 1 .. l /\ k - 1 \in 0 .. l
        BY <3>2
      <4>2. q[k - 1] = w[k - 1]
        BY <4>1
      <4>3. w[k] = WalkStep(rest, w[k - 1])
        BY <1>2, <4>1 DEF WalksTo
      <4> QED
        BY <3>2, <4>2, <4>3
    <3> QED
      BY <3>1, <3>2
  <2>2. q = [k \in 0 .. l |-> IF k = 0 THEN {<<Source>>} ELSE WalkStep(rest, q[k - 1])]
    BY <2>1
  <2> HIDE DEF q
  <2> QED
    BY <2>2 DEF Walks
<1> QED
  BY <1>3

LEMMA WalksUnfold ==
  ASSUME NEW rest, NEW l \in Nat, l = Cardinality(DOMAIN rest)
  PROVE  \E w : WalksTo(w, rest, l) /\ RoutesOf(rest) = {r \in w[l] : Last(r) = Sink}
<1> DEFINE w == CHOOSE q : Walks(q, rest)
<1>1. Walks(w, rest)
  BY WalksExist
<1>2. RoutesOf(rest) = {r \in w[l] : Last(r) = Sink}
  BY DEF RoutesOf
<1> HIDE DEF w
<1>3. \A k \in 0 .. l : w[k] = IF k = 0 THEN {<<Source>>} ELSE WalkStep(rest, w[k - 1])
  BY <1>1 DEF Walks
<1>4. 0 \in 0 .. l /\ \A k \in 1 .. l : k \in 0 .. l /\ k # 0
  OBVIOUS
<1>5. WalksTo(w, rest, l)
  BY <1>3, <1>4 DEF WalksTo
<1> QED
  BY <1>2, <1>5

\* A walk is a way over open arcs from the source, without a vertex twice.
Reached(rest) == {Source} \cup {a[2] : a \in DOMAIN rest}
OpenWay(rest, r) ==
  /\ r \in Seq(Reached(rest)) /\ IsWay(DOMAIN rest, r) /\ r[1] = Source

LEMMA FirstWalk ==
  ASSUME NEW rest
  PROVE  OpenWay(rest, <<Source>>) /\ Len(<<Source>>) = 1 /\ Range(<<Source>>) = {Source}
<1> DEFINE r == <<Source>>
<1>1. Len(r) = 1 /\ r[1] = Source /\ DOMAIN r = 1 .. 1 /\ r \in Seq(Reached(rest))
  BY DEF Reached
<1>2. 1 .. Len(r) - 1 = {}
  BY <1>1
<1>3. NoneTwice(r)
  BY <1>1 DEF NoneTwice
<1>4. Range(r) = {Source}
  BY <1>1 DEF Range
<1> HIDE DEF r
<1>5. OpenWay(rest, r)
  BY <1>1, <1>2, <1>3 DEF OpenWay, IsWay
<1> QED
  BY <1>1, <1>4, <1>5 DEF r

LEMMA NextWalk ==
  ASSUME NEW rest, \A a \in DOMAIN rest : a = <<a[1], a[2]>>,
         NEW r, OpenWay(rest, r), NEW v \in OpenOf(rest, Last(r)) \ Range(r),
         NEW q, q = Longer(r, v)
  PROVE  /\ OpenWay(rest, q) /\ Len(q) = Len(r) + 1 /\ Last(q) = v
         /\ Range(q) = Range(r) \cup {v}
<1> DEFINE l == Len(r)
           U == Reached(rest)
<1>1. PICK a \in DOMAIN rest : a[1] = r[l] /\ v = a[2] /\ rest[a] > 0
  BY DEF OpenOf, Last
<1>2. v \in U
  BY <1>1 DEF Reached
<1>3. r \in Seq(U) /\ l \in Nat /\ l > 0 /\ DOMAIN r = 1 .. l
  BY DEF OpenWay, IsWay
<1> HIDE DEF U
<1>4. q \in Seq(U) /\ Len(q) = l + 1 /\ DOMAIN q = 1 .. l + 1
  BY <1>2, <1>3 DEF Longer
<1>5. (\A i \in 1 .. l : q[i] = r[i]) /\ q[l + 1] = v
  BY <1>2, <1>3 DEF Longer
<1> HIDE DEF l
<1>6. \A i \in 1 .. l : r[i] # v
  BY <1>3 DEF Range
<1>7. NoneTwice(q)
  <2> SUFFICES ASSUME NEW i \in 1 .. l + 1, NEW j \in 1 .. l + 1, q[i] = q[j] PROVE i = j
    BY <1>4 DEF NoneTwice
  <2>1. CASE i \in 1 .. l /\ j \in 1 .. l
    <3>1. r[i] = r[j]
      BY <1>5, <2>1
    <3> QED
      BY <1>3, <2>1, <3>1 DEF OpenWay, IsWay, NoneTwice
  <2>2. CASE i = l + 1 /\ j \in 1 .. l
    BY <1>5, <1>6, <2>2
  <2>3. CASE i \in 1 .. l /\ j = l + 1
    BY <1>5, <1>6, <2>3
  <2>4. CASE i = l + 1 /\ j = l + 1
    BY <2>4
  <2>5. (i \in 1 .. l \/ i = l + 1) /\ (j \in 1 .. l \/ j = l + 1)
    BY <1>3
  <2> QED
    BY <2>1, <2>2, <2>3, <2>4, <2>5
<1>8. ASSUME NEW i \in 1 .. l PROVE <<q[i], q[i + 1]>> \in DOMAIN rest
  <2>1. CASE i = l
    <3>1. q[i] = r[l] /\ q[i + 1] = v
      BY <1>3, <1>5, <2>1
    <3>2. a = <<a[1], a[2]>>
      OBVIOUS
    <3> QED
      BY <1>1, <3>1, <3>2 DEF l
  <2>2. CASE i # l
    <3>1. i \in 1 .. l - 1 /\ i + 1 \in 1 .. l
      BY <1>3, <2>2
    <3>2. <<r[i], r[i + 1]>> \in DOMAIN rest
      BY <3>1 DEF OpenWay, IsWay, l
    <3> QED
      BY <1>5, <3>1, <3>2
  <2> QED
    BY <2>1, <2>2
<1>9. q[1] = Source
  BY <1>3, <1>5 DEF OpenWay
<1>10. l + 1 - 1 = l /\ l + 1 \in Nat /\ l + 1 > 0
  BY <1>3
<1>11. IsWay(DOMAIN rest, q)
  <2> DEFINE n == Len(q)
  <2>1. n = l + 1
    BY <1>4
  <2> HIDE DEF n
  <2>2. n - 1 = l
    BY <1>3, <2>1
  <2>3. 1 .. n - 1 = 1 .. l
    BY <2>2
  <2> QED
    BY <1>4, <1>7, <1>8, <1>10, <2>3 DEF IsWay, n
<1>12. OpenWay(rest, q)
  BY <1>4, <1>9, <1>11 DEF OpenWay, U
<1>13. Range(q) = Range(r) \cup {v}
  <2>1. 1 .. l + 1 = (1 .. l) \cup {l + 1}
    BY <1>3
  <2> QED
    BY <1>3, <1>4, <1>5, <2>1 DEF Range
<1> QED
  BY <1>4, <1>5, <1>12, <1>13 DEF l, Last

\* What the walks have in common, and how long they are as long as none ends.
LEMMA WalksOpen ==
  ASSUME NEW rest, \A a \in DOMAIN rest : a = <<a[1], a[2]>>,
         NEW l \in Nat, NEW w, WalksTo(w, rest, l)
  PROVE  \A k \in 0 .. l : \A r \in w[k] : OpenWay(rest, r)
<1> DEFINE T == {k \in 0 .. l : \E r \in w[k] : ~OpenWay(rest, r)}
<1>1. T = {}
  <2> SUFFICES ASSUME T # {} PROVE FALSE
    OBVIOUS
  <2>1. T \in SUBSET Nat
    OBVIOUS
  <2>2. PICK k \in T : \A j \in T : k <= j
    <3> HIDE DEF T
    <3> QED
      BY <2>1, LeastElement
  <2>3. PICK r \in w[k] : ~OpenWay(rest, r)
    BY <2>2
  <2>4. CASE k = 0
    <3>1. r = <<Source>>
      BY <2>3, <2>4 DEF WalksTo
    <3> QED
      BY <2>3, <3>1, FirstWalk
  <2>5. CASE k # 0
    <3> DEFINE j == k - 1
    <3>1. k \in 1 .. l /\ j \in 0 .. l /\ j < k
      BY <2>5
    <3>2. w[k] = WalkStep(rest, w[j])
      BY <3>1 DEF WalksTo
    <3>3. \A q \in w[j] : OpenWay(rest, q)
      BY <2>2, <3>1
    <3> HIDE DEF j
    <3>4. r \notin w[j]
      BY <2>3, <3>3
    <3>5. r \in Further(rest, w[j])
      BY <2>3, <3>2, <3>4 DEF WalkStep
    <3>6. PICK q \in w[j] : \E v \in OpenOf(rest, Last(q)) \ Range(q) : r = Longer(q, v)
      BY <3>5 DEF Further, Longer
    <3>7. OpenWay(rest, r)
      BY <3>3, <3>6, NextWalk
    <3> QED
      BY <2>3, <3>7
  <2> QED
    BY <2>4, <2>5
<1> QED
  BY <1>1

LEMMA RoutesSound ==
  ASSUME NEW rest, \A a \in DOMAIN rest : a = <<a[1], a[2]>>, IsFiniteSet(DOMAIN rest),
         NEW r \in RoutesOf(rest)
  PROVE  IsRoute(rest, r)
<1> DEFINE l == Cardinality(DOMAIN rest)
<1>1. l \in Nat
  BY FS_CardinalityType
<1> HIDE DEF l
<1>2. PICK w : WalksTo(w, rest, l) /\ RoutesOf(rest) = {q \in w[l] : Last(q) = Sink}
  BY <1>1, WalksUnfold DEF l
<1>3. r \in w[l] /\ Last(r) = Sink /\ l \in 0 .. l
  BY <1>1, <1>2
<1>4. OpenWay(rest, r)
  BY <1>1, <1>2, <1>3, WalksOpen
<1> QED
  BY <1>3, <1>4 DEF OpenWay, IsRoute, Last

\* A way with as many steps as there are arcs has taken them all.
LEMMA WayFull ==
  ASSUME NEW A, IsFiniteSet(A), NEW r, IsWay(A, r), Len(r) = Cardinality(A) + 1, NEW a \in A
  PROVE  \E i \in 1 .. Len(r) - 1 : a = <<r[i], r[i + 1]>>
<1> DEFINE n == Cardinality(A)
           D == 1 .. n
           f == [i \in D |-> <<r[i], r[i + 1]>>]
<1>1. n \in Nat /\ Len(r) = n + 1 /\ Len(r) - 1 = n
  BY FS_CardinalityType
<1> HIDE DEF n
<1>2. IsFiniteSet(D) /\ Cardinality(D) = n
  <2>1. IsFiniteSet(1 .. n) /\ Cardinality(1 .. n) = IF 1 > n THEN 0 ELSE n - 1 + 1
    BY <1>1, FS_Interval
  <2> QED
    BY <1>1, <2>1
<1>3. f \in [D -> A]
  BY <1>1 DEF IsWay
<1>4. ASSUME NEW i \in D, NEW j \in D, f[i] = f[j] PROVE i = j
  <2>1. r[i] = r[j]
    BY <1>4
  <2>2. i \in DOMAIN r /\ j \in DOMAIN r
    BY <1>1 DEF IsWay
  <2> QED
    BY <2>1, <2>2 DEF IsWay, NoneTwice
<1>5. \A i \in D : f[i] = <<r[i], r[i + 1]>>
  OBVIOUS
<1> HIDE DEF f, D
<1>6. f \in Injection(D, A)
  <2>1. \A i, j \in D : f[i] = f[j] => i = j
    BY <1>4
  <2> QED
    BY <1>3, <2>1 DEF Injection, IsInjective
<1>7. f \in Surjection(D, A)
  BY <1>2, <1>6, FS_Injection DEF n
<1>8. PICK i \in D : f[i] = a
  BY <1>7 DEF Surjection
<1> QED
  BY <1>1, <1>5, <1>8 DEF D

\* Where no walk has reached the sink, each is one vertex longer than those before.
LEMMA WalksGrow ==
  ASSUME NEW rest, NEW l \in Nat, NEW w, WalksTo(w, rest, l),
         {r \in w[l] : Last(r) = Sink} = {}
  PROVE  /\ \A k \in 0 .. l : \A r \in w[k] : Last(r) # Sink
         /\ \A k \in 1 .. l : w[k] = Further(rest, w[k - 1])
<1>1. ASSUME NEW k \in 0 .. l, NEW r \in w[k], Last(r) = Sink PROVE FALSE
  <2> DEFINE T == {j \in k .. l : r \notin w[j]}
  <2>1. l \in T
    BY <1>1
  <2>2. T \in SUBSET Nat /\ T # {}
    BY <2>1
  <2>3. PICK j \in T : \A i \in T : j <= i
    <3> HIDE DEF T
    <3> QED
      BY <2>2, LeastElement
  <2> DEFINE i == j - 1
  <2>4. j # k
    BY <2>3
  <2>5. j \in 1 .. l /\ i \in k .. l /\ i < j
    BY <2>3, <2>4
  <2>6. r \in w[i]
    BY <2>3, <2>5
  <2>7. w[j] = WalkStep(rest, w[i])
    BY <2>5 DEF WalksTo
  <2> HIDE DEF i
  <2>8. w[j] = w[i]
    BY <1>1, <2>6, <2>7 DEF WalkStep, Ends
  <2> QED
    BY <2>3, <2>6, <2>8
<1>2. ASSUME NEW k \in 1 .. l PROVE w[k] = Further(rest, w[k - 1])
  <2> DEFINE j == k - 1
  <2>1. j \in 0 .. l /\ w[k] = WalkStep(rest, w[j])
    BY DEF WalksTo
  <2> HIDE DEF j
  <2>2. CASE w[j] = {}
    BY <2>1, <2>2 DEF WalkStep, Ends, Further, j
  <2>3. CASE w[j] # {}
    <3>1. ~Ends(w[j])
      BY <1>1, <2>1, <2>3 DEF Ends
    <3> QED
      BY <2>1, <3>1 DEF WalkStep, j
  <2> QED
    BY <2>2, <2>3
<1> QED
  BY <1>1, <1>2

LEMMA WalksStay ==
  ASSUME NEW rest, \A a \in DOMAIN rest : a = <<a[1], a[2]>>,
         NEW l \in Nat, NEW w, WalksTo(w, rest, l),
         \A k \in 1 .. l : w[k] = Further(rest, w[k - 1]),
         NEW S, \A k \in 0 .. l : \A r \in w[k] : Last(r) \in S
  PROVE  \A k \in 0 .. l : \A r \in w[k] : Len(r) = k + 1 /\ Range(r) \subseteq S
<1> DEFINE Fine(k, r) == Len(r) = k + 1 /\ Range(r) \subseteq S
           T == {k \in 0 .. l : \E r \in w[k] : ~Fine(k, r)}
<1>1. T = {}
  <2> SUFFICES ASSUME T # {} PROVE FALSE
    OBVIOUS
  <2>1. T \in SUBSET Nat
    OBVIOUS
  <2>2. PICK k \in T : \A j \in T : k <= j
    <3> HIDE DEF T
    <3> QED
      BY <2>1, LeastElement
  <2>3. PICK r \in w[k] : ~Fine(k, r)
    BY <2>2
  <2>4. CASE k = 0
    <3>1. r = <<Source>>
      BY <2>3, <2>4 DEF WalksTo
    <3>2. 0 \in 0 .. l /\ Last(<<Source>>) = Source
      BY DEF Last
    <3>3. Source \in S
      BY <2>4, <3>1, <3>2
    <3>4. Len(r) = 1 /\ Range(r) = {Source}
      BY <3>1, FirstWalk
    <3> QED
      BY <2>3, <2>4, <3>3, <3>4
  <2>5. CASE k # 0
    <3> DEFINE j == k - 1
    <3>1. k \in 1 .. l /\ j \in 0 .. l /\ j < k /\ k = j + 1
      BY <2>5
    <3>2. w[k] = Further(rest, w[j])
      BY <3>1
    <3>3. \A q \in w[j] : Fine(j, q)
      BY <2>2, <3>1
    <3> HIDE DEF j
    <3>0. PICK q \in w[j] : \E v \in OpenOf(rest, Last(q)) \ Range(q) : r = Longer(q, v)
      BY <2>3, <3>2 DEF Further, Longer
    <3>4. PICK v \in OpenOf(rest, Last(q)) \ Range(q) : r = Longer(q, v)
      BY <3>0
    <3>5. OpenWay(rest, q)
      BY <3>1, WalksOpen
    <3>6. Len(r) = Len(q) + 1 /\ Last(r) = v /\ Range(r) = Range(q) \cup {v}
      BY <3>4, <3>5, NextWalk
    <3>7. Last(r) \in S
      BY <2>2, <2>3
    <3> QED
      BY <2>3, <3>1, <3>3, <3>6, <3>7
  <2> QED
    BY <2>4, <2>5
<1> QED
  BY <1>1

\* With no route left, nothing can leave the vertices that the walks have reached.
LEMMA NoRoutes ==
  ASSUME NEW rest, \A a \in DOMAIN rest : a = <<a[1], a[2]>>, IsFiniteSet(DOMAIN rest),
         RoutesOf(rest) = {}
  PROVE  \E S : /\ Source \in S /\ Sink \notin S
                /\ \A a \in Crossing(DOMAIN rest, S) : ~(rest[a] > 0)
<1> DEFINE l == Cardinality(DOMAIN rest)
<1>1. l \in Nat
  BY FS_CardinalityType
<1> HIDE DEF l
<1>2. PICK w : WalksTo(w, rest, l) /\ {q \in w[l] : Last(q) = Sink} = {}
  BY <1>1, WalksUnfold DEF l
<1> DEFINE S == {v \in Reached(rest) : \E k \in 0 .. l : \E r \in w[k] : Last(r) = v}
<1>3. /\ \A k \in 0 .. l : \A r \in w[k] : Last(r) # Sink
      /\ \A k \in 1 .. l : w[k] = Further(rest, w[k - 1])
  BY <1>1, <1>2, WalksGrow
<1>4. \A k \in 0 .. l : \A r \in w[k] : OpenWay(rest, r)
  BY <1>1, <1>2, WalksOpen
<1>5. ASSUME NEW k \in 0 .. l, NEW r \in w[k] PROVE Last(r) \in S
  <2>1. r \in Seq(Reached(rest)) /\ Len(r) > 0
    BY <1>4 DEF OpenWay, IsWay
  <2>2. Last(r) \in Reached(rest)
    BY <2>1 DEF Last
  <2> QED
    BY <2>2
<1>6. Source \in S
  <2>1. <<Source>> \in w[0] /\ 0 \in 0 .. l /\ Last(<<Source>>) = Source
    BY <1>1, <1>2 DEF WalksTo, Last
  <2> QED
    BY <1>5, <2>1
<1>7. Sink \notin S
  BY <1>3
<1>8. ASSUME NEW a \in DOMAIN rest, a[1] \in S, rest[a] > 0 PROVE a[2] \in S
  <2>1. PICK k \in 0 .. l : \E r \in w[k] : Last(r) = a[1]
    BY <1>8
  <2>2. PICK r \in w[k] : Last(r) = a[1]
    BY <2>1
  <2> DEFINE v == a[2]
  <2>3. v \in OpenOf(rest, Last(r)) /\ v \in Reached(rest)
    BY <1>8, <2>2 DEF OpenOf, Reached
  <2>4. Len(r) = k + 1 /\ Range(r) \subseteq S
    <3> HIDE DEF S
    <3>1. \A j \in 0 .. l : \A q \in w[j] : Last(q) \in S
      BY <1>5
    <3> QED
      BY <1>1, <1>2, <1>3, <3>1, WalksStay
  <2>5. CASE v \in Range(r)
    BY <2>4, <2>5
  <2>6. CASE v \notin Range(r) /\ k < l
    <3> DEFINE q == Longer(r, v)
               j == k + 1
    <3>1. j \in 1 .. l /\ j \in 0 .. l /\ j - 1 = k
      BY <1>1, <2>6
    <3>2. q \in Further(rest, w[k])
      BY <2>3, <2>6 DEF Further, Longer
    <3>3. OpenWay(rest, r)
      BY <1>4
    <3> HIDE DEF q, j
    <3>4. q \in w[j]
      BY <1>3, <3>1, <3>2
    <3>5. Last(q) = v
      BY <2>3, <2>6, <3>3, NextWalk DEF q
    <3>6. Last(q) \in S
      BY <1>5, <3>1, <3>4
    <3> QED
      BY <3>5, <3>6
  <2>7. CASE v \notin Range(r) /\ ~(k < l)
    <3>1. Len(r) = l + 1 /\ IsWay(DOMAIN rest, r)
      BY <1>1, <1>4, <2>4, <2>7 DEF OpenWay
    <3>2. PICK i \in 1 .. Len(r) - 1 : a = <<r[i], r[i + 1]>>
      BY <3>1, WayFull DEF l
    <3>3. v = r[i + 1] /\ i + 1 \in DOMAIN r
      BY <1>1, <3>1, <3>2 DEF IsWay
    <3> QED
      BY <2>7, <3>3 DEF Range
  <2> QED
    BY <2>5, <2>6, <2>7
<1> HIDE DEF S
<1>9. \A a \in Crossing(DOMAIN rest, S) : ~(rest[a] > 0)
  BY <1>8 DEF Crossing
<1> QED
  BY <1>6, <1>7, <1>9
------------------------------------------------------------------------------
(***************************************************************************)
(* max_flow() as a whole: what is left on the arcs is a flow until there   *)
(* is an answer, which is then the narrowest separation.                   *)
(***************************************************************************)
FlowOk ==
  /\ query \in {"flow", "widest", "answered"}
  /\ Askable(hw, ends.srcs, ends.dsts)
  /\ query = "flow" => Flowing(Arcs(hw, ends.srcs, ends.dsts), resid, flow)
  /\ query # "flow" => flow = Min(CutWidths(hw, ends.srcs, ends.dsts))

LEMMA FlowStarts ==
  ASSUME NEW g, NEW srcs, NEW dsts, Askable(g, srcs, dsts), Countable(g)
  PROVE  Flowing(Arcs(g, srcs, dsts), Arcs(g, srcs, dsts), 0)
<1> DEFINE cap == Arcs(g, srcs, dsts)
<1>1. IsFiniteSet(DOMAIN cap)
  BY ArcsFinite
<1>2. \A a \in DOMAIN cap : cap[a] \in Nat
  BY ArcBounds
<1> HIDE DEF cap
<1>3. \A S : Total(Sent(cap, cap), Crossing(DOMAIN cap, S)) = 0
  <2> SUFFICES ASSUME NEW S PROVE Total(Sent(cap, cap), Crossing(DOMAIN cap, S)) = 0
    OBVIOUS
  <2> DEFINE C == Crossing(DOMAIN cap, S)
             f == Sent(cap, cap)
  <2>1. C \subseteq DOMAIN cap
    BY DEF Crossing
  <2>2. IsFiniteSet(C)
    BY <1>1, <2>1, FS_Subset
  <2>3. \A a \in C : f[a] = 0
    BY <1>2, <2>1 DEF Sent
  <2> HIDE DEF C, f
  <2>4. Total(f, C) = 0
    BY <2>2, <2>3, TotalZero
  <2> QED
    BY <2>4 DEF C, f
<1>4. \A a \in DOMAIN cap : cap[a] <= cap[a] + 0
  BY <1>2
<1> QED
  BY <1>2, <1>3, <1>4 DEF Flowing, cap

LEMMA RoutesIs == Routes = RoutesOf(resid)
BY DEF Routes, RoutesOf, Walks, WalkStep, Ends, Further, Open, OpenOf

LEMMA CutWidthsIs ==
  {CutWidth(sep) : sep \in Separations} = CutWidths(hw, ends.srcs, ends.dsts)
<1>1. \A sep : CutWidth(sep) = WidthOfCut(hw, sep)
  BY DEF CutWidth, WidthOfCut, Wires, IsSevered
<1>2. Separations = SeparationsOf(hw, ends.srcs, ends.dsts)
  BY DEF Separations, SeparationsOf
<1> QED
  BY <1>1, <1>2 DEF CutWidths

LEMMA FlowOkAnswers ==
  ASSUME FlowOk
  PROVE  MaxFlowIsMinCut
BY CutWidthsIs DEF FlowOk, MaxFlowIsMinCut

LEMMA FlowOkInit ==
  ASSUME QueryInit, Countable(hw)
  PROVE  FlowOk
<1>1. PICK g, srcs, dsts : Askable(g, srcs, dsts) /\ InitQuery(g, srcs, dsts)
  BY DEF QueryInit
<1>2. /\ hw = g /\ ends.srcs = srcs /\ ends.dsts = dsts /\ resid = Arcs(g, srcs, dsts)
      /\ flow = 0 /\ query = "flow"
  BY <1>1 DEF InitQuery
<1> QED
  BY <1>1, <1>2, FlowStarts DEF FlowOk

LEMMA FlowOkAsk ==
  ASSUME Ask, Countable(hw')
  PROVE  FlowOk'
<1>1. PICK g, srcs, dsts : Askable(g, srcs, dsts) /\ BeginQuery(g, srcs, dsts)
  BY DEF Ask
<1>2. /\ hw' = g /\ ends'.srcs = srcs /\ ends'.dsts = dsts /\ resid' = Arcs(g, srcs, dsts)
      /\ flow' = 0 /\ query' = "flow"
  BY <1>1 DEF BeginQuery
<1> QED
  BY <1>1, <1>2, FlowStarts DEF FlowOk

LEMMA FlowOkFound ==
  ASSUME FlowOk, Countable(hw), FlowFound
  PROVE  FlowOk'
<1> DEFINE cap == Arcs(hw, ends.srcs, ends.dsts)
<1>1. /\ Askable(hw, ends.srcs, ends.dsts) /\ Flowing(cap, resid, flow)
      /\ RoutesOf(resid) = {} /\ query' = "widest"
      /\ UNCHANGED <<hw, ends, flow>>
  BY RoutesIs DEF FlowOk, FlowFound
<1>2. IsFiniteSet(DOMAIN cap) /\ \A a \in DOMAIN cap : a = <<a[1], a[2]>>
  BY <1>1, ArcsPaired DEF Paired
<1>3. flow = Min(CutWidths(hw, ends.srcs, ends.dsts))
  <2> HIDE DEF cap
  <2>1. DOMAIN resid = DOMAIN cap /\ \A a \in DOMAIN cap : resid[a] \in Nat
    BY <1>1 DEF Flowing
  <2>2. PICK S : /\ Source \in S /\ Sink \notin S
                 /\ \A a \in Crossing(DOMAIN resid, S) : ~(resid[a] > 0)
    BY <1>1, <1>2, <2>1, NoRoutes
  <2>3. \A a \in Crossing(DOMAIN cap, S) : resid[a] = 0
    BY <2>1, <2>2 DEF Crossing
  <2>4. cap = Arcs(hw, ends.srcs, ends.dsts)
    BY DEF cap
  <2> QED
    BY <1>1, <2>2, <2>3, <2>4, FullFlow
<1> QED
  BY <1>1, <1>3 DEF FlowOk

LEMMA FlowOkAugment ==
  ASSUME FlowOk, Countable(hw), Augment
  PROVE  FlowOk'
<1> DEFINE cap == Arcs(hw, ends.srcs, ends.dsts)
<1>1. /\ Askable(hw, ends.srcs, ends.dsts) /\ Flowing(cap, resid, flow)
      /\ UNCHANGED <<hw, ends>>
  BY DEF FlowOk, Augment
<1>2. IsFiniteSet(DOMAIN cap) /\ \A a \in DOMAIN cap : a = <<a[1], a[2]>>
  BY <1>1, ArcsPaired DEF Paired
<1>3. cap = Arcs(hw, ends.srcs, ends.dsts)
  OBVIOUS
<1> HIDE DEF cap
<1>4. DOMAIN resid = DOMAIN cap /\ \A a \in DOMAIN cap : resid[a] \in Nat
  BY <1>1 DEF Flowing
<1>5. PICK r \in RoutesOf(resid) :
        LET pushed == Min({resid[a] : a \in Steps(r)}) IN
        IF pushed = Unlimited
        THEN flow' = Unlimited /\ query' = "widest"
        ELSE flow' = flow + pushed /\ resid' = AfterPush(resid, r, pushed) /\ query' = "flow"
  BY RoutesIs DEF Augment, AfterPush, Returned
<1>6. IsRoute(resid, r)
  BY <1>2, <1>4, <1>5, RoutesSound
<1>7. Steps(r) \subseteq DOMAIN resid /\ Steps(r) # {}
  <2>1. Steps(r) \subseteq DOMAIN resid
    BY <1>6 DEF IsRoute, IsWay, Steps
  <2>2. Len(r) # 1
    BY <1>6 DEF IsRoute, Source, Sink
  <2>3. Len(r) \in Nat /\ Len(r) >= 1
    BY <1>6 DEF IsRoute, IsWay
  <2>4. 1 \in 1 .. Len(r) - 1
    <3> DEFINE n == Len(r)
    <3>1. n \in Nat /\ n >= 1 /\ n # 1
      BY <2>2, <2>3
    <3> HIDE DEF n
    <3>2. 1 \in 1 .. n - 1
      BY <3>1
    <3> QED
      BY <3>2 DEF n
  <2> QED
    BY <2>1, <2>4 DEF Steps
<1> DEFINE W == {resid[a] : a \in Steps(r)}
           p == Min(W)
<1>8. p \in Nat /\ \A a \in Steps(r) : p <= resid[a]
  <2>1. W \in SUBSET Nat /\ W # {}
    BY <1>4, <1>7
  <2>2. \A a \in Steps(r) : resid[a] \in W
    OBVIOUS
  <2> HIDE DEF W
  <2> QED
    BY <2>1, <2>2, MinOf
<1>9. IF p = Unlimited
      THEN flow' = Unlimited /\ query' = "widest"
      ELSE flow' = flow + p /\ resid' = AfterPush(resid, r, p) /\ query' = "flow"
  BY <1>5
<1> HIDE DEF p, W
<1>10. CASE p = Unlimited
  <2>1. \A a \in Steps(r) \cap DOMAIN resid : Unlimited <= resid[a]
    BY <1>8, <1>10
  <2>2. Unlimited = Min(CutWidths(hw, ends.srcs, ends.dsts))
    BY <1>1, <1>3, <1>6, <2>1, FreeRoute
  <2> QED
    BY <1>1, <1>9, <1>10, <2>2 DEF FlowOk
<1>11. CASE p # Unlimited
  <2>1. \A a \in Steps(r) \cap DOMAIN resid : p <= resid[a]
    BY <1>8
  <2>2. Flowing(cap, AfterPush(resid, r, p), flow + p)
    BY <1>1, <1>3, <1>6, <1>8, <1>11, <2>1, PushFlows
  <2> QED
    BY <1>1, <1>3, <1>9, <1>11, <2>2 DEF FlowOk
<1> QED
  BY <1>10, <1>11

LEMMA FlowOkStep ==
  ASSUME FlowOk, Countable(hw), Countable(hw'), [Query \/ Ask]_queryVars
  PROVE  FlowOk'
<1>1. CASE Ask
  BY <1>1, FlowOkAsk
<1>2. CASE Augment
  BY <1>2, FlowOkAugment
<1>3. CASE FlowFound
  BY <1>3, FlowOkFound
<1>4. CASE StartSearch \/ NoSearch \/ Again \/ Arrive \/ Settle \/ Unreachable
  <2>1. /\ query # "flow" /\ query' \in {"widest", "answered"}
        /\ hw' = hw /\ ends' = ends /\ flow' = flow
    BY <1>4 DEF FlowOk, StartSearch, NoSearch, Again, Arrive, Settle, Unreachable
  <2> QED
    BY <2>1 DEF FlowOk
<1>5. CASE UNCHANGED queryVars
  BY <1>5 DEF queryVars, FlowOk
<1> QED
  BY <1>1, <1>2, <1>3, <1>4, <1>5 DEF Query

\* On every valid graph and for every question, what max_flow() returns is the
\* narrowest separation of the sources from the destinations, whichever routes it
\* augments and in whichever order.  Unlimited stands for the code's infinity, so it
\* must be out of reach of what the limits of a graph add up to.
THEOREM MaxFlow == QuerySpec /\ []Countable(hw) => []MaxFlowIsMinCut
<1>1. QueryInit /\ Countable(hw) => FlowOk
  BY FlowOkInit
<1>2. FlowOk /\ Countable(hw) /\ Countable(hw)' /\ [Query \/ Ask]_queryVars => FlowOk'
  BY FlowOkStep
<1>3. FlowOk => MaxFlowIsMinCut
  BY FlowOkAnswers
<1> QED
  BY <1>1, <1>2, <1>3, PTL DEF QuerySpec
=============================================================================
