----------------------------- MODULE SchedProofs -----------------------------
(***************************************************************************)
(* What holds of the scheduler for every task graph, FIFO and shared       *)
(* resources mixed, with any durations, any slack and any fineness.        *)
(***************************************************************************)
EXTENDS Sched, FiniteSetTheorems, WellFoundedInduction, TLAPS

SlotsOf(r) == [1 .. Servers(graph, r) -> Nat]

FlowsOf(S) == UNION {[T -> Nat] : T \in SUBSET S}

TypeOK ==
  /\ graph \in Graphs
  /\ missing \in [Tasks -> Nat]
  /\ readyAt \in [Tasks -> Nat]
  /\ ready \in SUBSET (Nat \X Tasks)
  /\ departures \in SUBSET [time : Nat, res : Resources \cap Shared, epoch : Nat]
  /\ slots \in [Resources \ Shared -> UNION {SlotsOf(r) : r \in Resources \ Shared}]
  /\ \A r \in Resources \ Shared : slots[r] \in SlotsOf(r)
  /\ active \in [Resources \cap Shared -> FlowsOf(Tasks)]
  /\ \A r \in Resources \cap Shared : DOMAIN active[r] \in SUBSET On(r)
  /\ last \in [Resources \cap Shared -> Nat]
  /\ epoch \in [Resources \cap Shared -> Nat]
  /\ start \in [Tasks -> Nat \cup {NotYet}]
  /\ finish \in [Tasks -> Nat \cup {NotYet}]
  /\ busy \in [Resources -> Nat]
  /\ outcome \in {"running", "done", "cycle"}

\* The count of missing dependencies, and where a task is by it.
Counts ==
  /\ \A c \in Tasks :
       /\ missing[c] = Cardinality(Task(c).deps \cap Unfinished)
       /\ c \notin Unfinished => missing[c] = 0 /\ start[c] # NotYet
       /\ c \in Unfinished /\ start[c] # NotYet =>
            Task(c).res \in Shared /\ c \in DOMAIN active[Task(c).res]
       /\ c \in Unfinished /\ start[c] = NotYet /\ missing[c] = 0 =>
            <<readyAt[c], c>> \in ready
  /\ \A x \in ready : /\ x[2] \in Unfinished /\ start[x[2]] = NotYet
                      /\ missing[x[2]] = 0 /\ x[1] = readyAt[x[2]]
  /\ \A r \in Resources \cap Shared : \A k \in DOMAIN active[r] :
       k \in Unfinished /\ missing[k] = 0 /\ start[k] # NotYet

\* readyAt is when the last dependency that has finished did so.
ReadyTimes ==
  \A c \in Tasks : /\ \A d \in Task(c).deps : finish[d] <= readyAt[c]
                   /\ readyAt[c] = 0 \/ \E d \in Task(c).deps : finish[d] = readyAt[c]

\* A resource with flows has a departure to come, at which none of its flows
\* has more work left than half a unit of time too little; and no event to
\* come lies before the last advance of a resource.
Clocks ==
  /\ \A d \in departures :
       /\ d.epoch <= epoch[d.res]
       /\ ~Stale(d) =>
            \A k \in DOMAIN active[d.res] :
              (d.time - last[d.res]) * Fine
                 <= active[d.res][k] * Cardinality(DOMAIN active[d.res]) + Fine \div 2
  /\ \A r \in Resources \cap Shared :
       /\ DOMAIN active[r] # {} => \E d \in departures : d.res = r /\ d.epoch = epoch[r]
       /\ \A x \in ready : last[r] <= x[1]
       /\ \A d \in departures : ~Stale(d) => last[r] <= d.time

\* Tasks that wait for each other stay unfinished.
Knots ==
  \A S \in SUBSET Tasks : (\A k \in S : Task(k).deps \cap S # {}) => S \subseteq Unfinished

Outcomes ==
  /\ outcome = "done" => Unfinished = {}
  /\ outcome = "cycle" => Unfinished # {} /\ departures = {} /\ ready = {}

IInv == TypeOK /\ Counts /\ ReadyTimes /\ Clocks /\ Knots /\ Outcomes

OutcomeRight ==
  /\ outcome = "done" => Acyclic
  /\ outcome = "cycle" => ~Acyclic

------------------------------------------------------------------------------
\* A non-empty set of naturals has a least element.
LEMMA LeastElement ==
  ASSUME NEW T \in SUBSET Nat, T # {}
  PROVE  \E x \in T : \A y \in T : x <= y
<1> DEFINE R == {p \in Nat \X Nat : p[1] < p[2]}
<1>1. IsWellFoundedOn(R, Nat)
  BY NatLessThanWellFounded DEF OpToRel
<1> HIDE DEF R
<1>2. PICK x \in T : \A y \in T : ~(<<y, x>> \in R)
  BY <1>1, WFMin
<1>3. \A y \in T : ~(y < x)
  BY <1>2 DEF R
<1> QED
  BY <1>3

LEMMA MaxOfTwo ==
  ASSUME NEW a \in Int, NEW b \in Int
  PROVE  Max({a, b}) \in {a, b} /\ a <= Max({a, b}) /\ b <= Max({a, b})
<1>1. \E x \in {a, b} : \A y \in {a, b} : x >= y
  OBVIOUS
<1> QED
  BY <1>1 DEF Max

LEMMA MaxIs ==
  ASSUME NEW S \in SUBSET Int, NEW m \in S, \A y \in S : y <= m
  PROVE  Max(S) = m
<1>1. Max(S) \in S /\ \A y \in S : Max(S) >= y
  BY DEF Max
<1>2. Max(S) \in Int /\ m \in Int /\ Max(S) >= m /\ Max(S) <= m
  BY <1>1
<1> HIDE DEF Max
<1> QED
  BY <1>2

LEMMA MinOf ==
  ASSUME NEW S \in SUBSET Nat, S # {}
  PROVE  Min(S) \in S /\ \A y \in S : Min(S) <= y
<1>1. \E x \in S : \A y \in S : x <= y
  BY LeastElement
<1> QED
  BY <1>1 DEF Min

\* Pairs of a natural and a key have a first in the order of the heaps.
LEMMA FirstPair ==
  ASSUME NEW T, T # {}, NEW f, NEW g,
         \A x \in T : f[x] \in Nat /\ g[x] \in Nat
  PROVE  \E x \in T : \A y \in T : Before(<<f[x], g[x]>>, <<f[y], g[y]>>)
<1> DEFINE F == {f[x] : x \in T}
<1>1. PICK a \in F : \A b \in F : a <= b
  BY LeastElement
<1> DEFINE U == {x \in T : f[x] = a}
           K == {g[x] : x \in U}
<1>2. K # {} /\ K \in SUBSET Nat
  BY <1>1
<1> HIDE DEF K
<1>3. PICK k \in K : \A j \in K : k <= j
  BY <1>2, LeastElement
<1>4. PICK x \in U : g[x] = k
  BY <1>3 DEF K
<1>5. ASSUME NEW y \in T PROVE Before(<<f[x], g[x]>>, <<f[y], g[y]>>)
  <2>1. f[x] = a /\ f[x] <= f[y] /\ f[x] \in Nat /\ f[y] \in Nat
    BY <1>1, <1>4
  <2>2. f[y] = a => g[x] <= g[y]
    BY <1>3, <1>4 DEF K
  <2> QED
    BY <2>1, <2>2 DEF Before
<1> QED
  BY <1>5

\* With the graph as it is, what is defined from it alone stays.
LEMMA Static ==
  ASSUME graph' = graph
  PROVE  /\ Tasks' = Tasks /\ Shared' = Shared /\ Resources' = Resources
         /\ \A k : Task(k)' = Task(k)
         /\ \A r : On(r)' = On(r) /\ SlotsOf(r)' = SlotsOf(r)
BY DEF Tasks, Shared, Resources, Task, On, SlotsOf, Servers

LEMMA GraphTyping ==
  ASSUME graph \in Graphs
  PROVE  /\ Tasks \in SUBSET Nat /\ IsFiniteSet(Tasks) /\ NotYet \notin Tasks
         /\ \A k \in Tasks : /\ Task(k).dur \in Nat /\ Task(k).deps \in SUBSET Tasks
                             /\ IsFiniteSet(Task(k).deps)
                             /\ Task(k).res \in Resources /\ k \in On(Task(k).res)
         /\ \A r : Servers(graph, r) \in Nat \ {0} /\ On(r) \in SUBSET Tasks
                   /\ \A k \in On(r) : Task(k).res = r
<1>1. Len(graph.tasks) \in Nat /\ Tasks = 1 .. Len(graph.tasks)
  BY GraphAssumption DEF Tasks
<1>2. Tasks \in SUBSET Nat /\ IsFiniteSet(Tasks) /\ NotYet \notin Tasks
  BY <1>1, FS_Interval DEF NotYet
<1>3. \A k \in Tasks : /\ Task(k).dur \in Nat /\ Task(k).deps \in SUBSET Tasks
                       /\ Task(k).res \in Resources /\ k \in On(Task(k).res)
  BY GraphAssumption DEF Tasks, Task, Resources, On
<1>4. \A k \in Tasks : IsFiniteSet(Task(k).deps)
  BY <1>2, <1>3, FS_Subset
<1>5. ASSUME NEW r PROVE Servers(graph, r) \in Nat \ {0}
  <2>1. CASE r \in DOMAIN graph.servers
    <3> DEFINE s == graph.servers[r]
    <3>1. s \in Int
      BY <2>1, GraphAssumption
    <3>2. Servers(graph, r) = Max({1, s})
      BY <2>1 DEF Servers
    <3> HIDE DEF s
    <3>3. Max({1, s}) \in {1, s} /\ 1 <= Max({1, s})
      BY <3>1, MaxOfTwo
    <3> QED
      BY <3>1, <3>2, <3>3
  <2>2. CASE r \notin DOMAIN graph.servers
    BY <2>2 DEF Servers
  <2> QED
    BY <2>1, <2>2
<1> QED
  BY <1>2, <1>3, <1>4, <1>5 DEF On

------------------------------------------------------------------------------
(***************************************************************************)
(* The state before the first event.                                       *)
(***************************************************************************)
LEMMA InitState ==
  ASSUME Init
  PROVE  /\ graph \in Graphs
         /\ missing = [k \in Tasks |-> Cardinality(Task(k).deps)]
         /\ readyAt = [k \in Tasks |-> 0]
         /\ ready = {<<0, k>> : k \in {j \in Tasks : Task(j).deps = {}}}
         /\ departures = {}
         /\ slots = [r \in Resources \ Shared |-> [i \in 1 .. Servers(graph, r) |-> 0]]
         /\ active = [r \in Resources \cap Shared |-> << >>]
         /\ last = [r \in Resources \cap Shared |-> 0]
         /\ epoch = [r \in Resources \cap Shared |-> 0]
         /\ start = [k \in Tasks |-> NotYet]
         /\ finish = [k \in Tasks |-> NotYet]
         /\ busy = [r \in Resources |-> 0]
         /\ outcome = "running"
BY DEF Init, Begin, Fresh, Tasks, Task, Resources, Shared

LEMMA InitInv == Init => IInv
<1> SUFFICES ASSUME Init PROVE IInv
  OBVIOUS
<1> USE InitState
<1>1. \A k \in Tasks : Task(k).deps \in SUBSET Tasks /\ IsFiniteSet(Task(k).deps)
  BY GraphTyping
<1>2. Unfinished = Tasks
  BY DEF Unfinished
<1>3. \A k \in Tasks : /\ Cardinality(Task(k).deps) \in Nat
                       /\ Cardinality(Task(k).deps) = 0 <=> Task(k).deps = {}
  BY <1>1, FS_CardinalityType, FS_EmptySet
<1>4. << >> \in FlowsOf(Tasks) /\ DOMAIN << >> = {}
  <2>1. DOMAIN << >> = {} /\ << >> \in [{} -> Nat]
    OBVIOUS
  <2>2. {} \in SUBSET Tasks
    OBVIOUS
  <2> QED
    BY <2>1, <2>2 DEF FlowsOf
<1>5. TypeOK
  <2>1. \A r \in Resources \ Shared : slots[r] \in SlotsOf(r)
    BY DEF SlotsOf
  <2>2. slots \in [Resources \ Shared -> UNION {SlotsOf(r) : r \in Resources \ Shared}]
    BY <2>1
  <2>3. ready \in SUBSET (Nat \X Tasks)
    OBVIOUS
  <2>4. missing \in [Tasks -> Nat]
    BY <1>3
  <2>5. /\ active \in [Resources \cap Shared -> FlowsOf(Tasks)]
        /\ \A r \in Resources \cap Shared : DOMAIN active[r] \in SUBSET On(r)
    BY <1>4
  <2> QED
    BY <2>1, <2>2, <2>3, <2>4, <2>5 DEF TypeOK
<1>6. Counts
  <2>1. ASSUME NEW c \in Tasks
        PROVE  /\ missing[c] = Cardinality(Task(c).deps \cap Unfinished)
               /\ c \in Unfinished /\ start[c] = NotYet /\ c \notin {}
               /\ missing[c] = 0 => <<readyAt[c], c>> \in ready
    <3>1. Task(c).deps \cap Unfinished = Task(c).deps
      BY <1>1, <1>2
    <3>2. missing[c] = Cardinality(Task(c).deps) /\ start[c] = NotYet /\ readyAt[c] = 0
      OBVIOUS
    <3>3. missing[c] = 0 => c \in {j \in Tasks : Task(j).deps = {}}
      BY <3>2, <1>3
    <3>4. missing[c] = 0 => <<0, c>> \in ready
      BY <3>3
    <3> QED
      BY <3>1, <3>2, <3>4, <1>2
  <2>2. ASSUME NEW x \in ready PROVE x[2] \in Tasks /\ x[1] = 0 /\ missing[x[2]] = 0
    <3>1. PICK k \in Tasks : x = <<0, k>> /\ Task(k).deps = {}
      OBVIOUS
    <3>2. missing[k] = Cardinality(Task(k).deps)
      OBVIOUS
    <3> QED
      BY <3>1, <3>2, FS_EmptySet
  <2> QED
    BY <1>2, <1>4, <2>1, <2>2 DEF Counts
<1>7. ReadyTimes
  BY <1>1 DEF ReadyTimes, NotYet
<1>8. Clocks
  BY <1>4 DEF Clocks
<1>9. Knots /\ Outcomes
  BY <1>2 DEF Knots, Outcomes
<1> QED
  BY <1>5, <1>6, <1>7, <1>8, <1>9 DEF IInv

------------------------------------------------------------------------------
(***************************************************************************)
(* release(): tasks that end at one instant.                               *)
(***************************************************************************)
Freed == {c \in Tasks : missing[c] > 0 /\ missing'[c] = 0}

LEMMA ReleasedCounts ==
  ASSUME IInv, graph' = graph, NEW ks \in SUBSET Unfinished, NEW when \in Nat,
         NEW pending \in SUBSET ready, Release(ks, when, pending)
  PROVE  /\ finish' \in [Tasks -> Nat \cup {NotYet}]
         /\ \A k \in Tasks : finish'[k] = IF k \in ks THEN when ELSE finish[k]
         /\ Unfinished' = Unfinished \ ks
         /\ \A c \in Tasks : Met(c, ks) \in Nat /\ (Met(c, ks) = 0 <=> Task(c).deps \cap ks = {})
         /\ missing' \in [Tasks -> Nat]
         /\ \A c \in Tasks : /\ missing'[c] = Cardinality(Task(c).deps \cap Unfinished')
                             /\ missing'[c] = missing[c] - Met(c, ks)
<1>1. /\ Tasks' = Tasks /\ Unfinished \in SUBSET Tasks /\ finish \in [Tasks -> Nat \cup {NotYet}]
      /\ graph \in Graphs
  BY Static DEF IInv, TypeOK, Unfinished
<1>2. finish' = [k \in Tasks |-> IF k \in ks THEN when ELSE finish[k]]
  BY DEF Release
<1>3. \A k \in Tasks : finish'[k] = IF k \in ks THEN when ELSE finish[k]
  BY <1>2
<1>4. finish' \in [Tasks -> Nat \cup {NotYet}]
  BY <1>1, <1>2
<1>5. Unfinished' = Unfinished \ ks
  BY <1>1, <1>3 DEF Unfinished, NotYet
<1>6. ASSUME NEW c \in Tasks
      PROVE  /\ Met(c, ks) \in Nat /\ (Met(c, ks) = 0 <=> Task(c).deps \cap ks = {})
             /\ missing'[c] \in Nat
             /\ missing'[c] = Cardinality(Task(c).deps \cap Unfinished')
             /\ missing'[c] = missing[c] - Met(c, ks)
  <2> DEFINE A == Task(c).deps \cap ks
             B == Task(c).deps \cap Unfinished'
             U == Task(c).deps \cap Unfinished
  <2>1. A \cup B = U /\ A \cap B = {} /\ A \in SUBSET Task(c).deps /\ B \in SUBSET Task(c).deps
    BY <1>5
  <2>2. IsFiniteSet(A) /\ IsFiniteSet(B)
    BY <1>1, <2>1, GraphTyping, FS_Subset
  <2>3. missing'[c] = missing[c] - Cardinality(A)
    BY DEF Release, Met
  <2>4. missing[c] = Cardinality(U)
    BY DEF IInv, Counts
  <2>5. Met(c, ks) = Cardinality(A)
    BY DEF Met
  <2> HIDE DEF A, B, U
  <2>6. Cardinality(U) = Cardinality(A) + Cardinality(B) - Cardinality({})
    BY <2>1, <2>2, FS_Union
  <2>7. /\ Cardinality(A) \in Nat /\ Cardinality(B) \in Nat /\ Cardinality({}) = 0
        /\ (Cardinality(A) = 0 <=> A = {})
    BY <2>2, FS_CardinalityType, FS_EmptySet
  <2>8. missing'[c] = Cardinality(B)
    BY <2>3, <2>4, <2>6, <2>7
  <2> QED
    BY <2>3, <2>5, <2>7, <2>8 DEF A, B
<1>7. missing' \in [Tasks -> Nat]
  <2>1. missing' = [c \in Tasks |-> missing[c] - Met(c, ks)]
    BY DEF Release
  <2> QED
    BY <2>1, <1>6
<1> QED
  BY <1>3, <1>4, <1>5, <1>6, <1>7

LEMMA ReleasedTimes ==
  ASSUME IInv, graph' = graph, NEW ks \in SUBSET Unfinished, NEW when \in Nat,
         NEW pending \in SUBSET ready, Release(ks, when, pending)
  PROVE  /\ readyAt' \in [Tasks -> Nat]
         /\ \A c \in Tasks : /\ readyAt[c] <= readyAt'[c]
                             /\ missing[c] = 0 => missing'[c] = 0 /\ readyAt'[c] = readyAt[c]
         /\ \A c \in Freed : when <= readyAt'[c] /\ Task(c).deps \cap ks # {}
         /\ ready' = pending \cup {<<readyAt'[c], c>> : c \in Freed}
         /\ ready' \in SUBSET (Nat \X Tasks)
         /\ ReadyTimes'
<1>1. /\ Tasks' = Tasks /\ ready \in SUBSET (Nat \X Tasks) /\ readyAt \in [Tasks -> Nat]
      /\ missing \in [Tasks -> Nat] /\ finish \in [Tasks -> Nat \cup {NotYet}]
      /\ \A c : Task(c)' = Task(c)
      /\ \A c \in Tasks : Task(c).deps \in SUBSET Tasks
  BY Static, GraphTyping DEF IInv, TypeOK
<1>2. \A c \in Tasks : /\ Met(c, ks) \in Nat /\ (Met(c, ks) = 0 <=> Task(c).deps \cap ks = {})
                       /\ missing'[c] = missing[c] - Met(c, ks) /\ missing'[c] \in Nat
  BY ReleasedCounts
<1>3. /\ readyAt' = [c \in Tasks |-> IF Met(c, ks) = 0 THEN readyAt[c]
                                     ELSE ReadyAfter(c, when)]
      /\ ready' = pending \cup {<<readyAt'[c], c>> : c \in Freed}
  BY DEF Release, Freed
<1>4. ASSUME NEW c \in Tasks
      PROVE  /\ readyAt'[c] \in Nat /\ readyAt[c] <= readyAt'[c]
             /\ Met(c, ks) = 0 => readyAt'[c] = readyAt[c]
             /\ Met(c, ks) # 0 => readyAt'[c] \in {readyAt[c], when} /\ when <= readyAt'[c]
  <2> DEFINE a == readyAt[c]
  <2>1. a \in Nat /\ a \in Int /\ when \in Int /\ ReadyAfter(c, when) = Max({a, when})
    BY <1>1 DEF ReadyAfter
  <2> HIDE DEF a
  <2>2. /\ ReadyAfter(c, when) \in {a, when}
        /\ a <= ReadyAfter(c, when) /\ when <= ReadyAfter(c, when)
    BY <2>1, MaxOfTwo
  <2>3. readyAt'[c] = IF Met(c, ks) = 0 THEN readyAt[c] ELSE ReadyAfter(c, when)
    BY <1>3
  <2> QED
    BY <2>1, <2>2, <2>3 DEF a
<1>5. readyAt' \in [Tasks -> Nat]
  BY <1>3, <1>4
<1>6. \A c \in Tasks : missing[c] = 0 => missing'[c] = 0 /\ readyAt'[c] = readyAt[c]
  <2> SUFFICES ASSUME NEW c \in Tasks, missing[c] = 0
               PROVE  missing'[c] = 0 /\ readyAt'[c] = readyAt[c]
    OBVIOUS
  <2>1. Met(c, ks) = 0
    BY <1>2
  <2> QED
    BY <1>2, <1>4, <2>1
<1>7. \A c \in Freed : when <= readyAt'[c] /\ Task(c).deps \cap ks # {}
  <2> SUFFICES ASSUME NEW c \in Freed
               PROVE  when <= readyAt'[c] /\ Task(c).deps \cap ks # {}
    OBVIOUS
  <2>1. c \in Tasks /\ missing[c] > 0 /\ missing'[c] = 0 /\ missing[c] \in Nat
    BY <1>1 DEF Freed
  <2>2. Met(c, ks) # 0
    BY <1>2, <2>1
  <2> QED
    BY <1>2, <1>4, <2>1, <2>2
<1>8. ready' \in SUBSET (Nat \X Tasks)
  <2> DEFINE F == {<<readyAt'[c], c>> : c \in Freed}
  <2>1. F \in SUBSET (Nat \X Tasks)
    BY <1>4 DEF Freed
  <2>2. ready' = pending \cup F
    BY <1>3
  <2> HIDE DEF F
  <2> QED
    BY <1>1, <2>1, <2>2
<1>9. ReadyTimes'
  <2>1. ASSUME NEW c \in Tasks, NEW d \in Task(c).deps PROVE finish'[d] <= readyAt'[c]
    <3>1. d \in Tasks /\ finish'[d] = (IF d \in ks THEN when ELSE finish[d])
      BY <1>1, ReleasedCounts
    <3>2. finish[d] <= readyAt[c] /\ finish[d] \in Nat \cup {NotYet} /\ readyAt[c] \in Nat
      BY <1>1, <3>1 DEF IInv, ReadyTimes
    <3>3. d \in ks => Met(c, ks) # 0
      BY <1>2
    <3> QED
      BY <1>4, <3>1, <3>2, <3>3 DEF NotYet
  <2>2. ASSUME NEW c \in Tasks
        PROVE  readyAt'[c] = 0 \/ \E d \in Task(c).deps : finish'[d] = readyAt'[c]
    <3>1. CASE readyAt'[c] = readyAt[c]
      <4>1. CASE readyAt[c] = 0
        BY <3>1, <4>1
      <4>2. CASE readyAt[c] # 0
        <5>1. PICK d \in Task(c).deps : finish[d] = readyAt[c]
          BY <4>2 DEF IInv, ReadyTimes
        <5>2. d \in Tasks /\ d \notin ks
          BY <1>1, <5>1 DEF Unfinished, NotYet
        <5>3. finish'[d] = finish[d]
          BY <5>2, ReleasedCounts
        <5> QED
          BY <3>1, <5>1, <5>3
      <4> QED
        BY <4>1, <4>2
    <3>2. CASE readyAt'[c] # readyAt[c]
      <4>1. Met(c, ks) # 0 /\ readyAt'[c] = when
        BY <1>4, <3>2
      <4>2. PICK d \in Task(c).deps : d \in ks
        BY <1>2, <4>1
      <4>3. d \in Tasks
        BY <1>1
      <4>4. finish'[d] = when
        BY <4>2, <4>3, ReleasedCounts
      <4> QED
        BY <4>1, <4>4
    <3> QED
      BY <3>1, <3>2
  <2> QED
    BY <1>1, <2>1, <2>2 DEF ReadyTimes
<1> QED
  BY <1>3, <1>4, <1>5, <1>6, <1>7, <1>8, <1>9

\* What the tasks that end leave behind: who was counting on them is counted
\* again, and who waits only on others that wait is not touched.
LEMMA CountsRelease ==
  ASSUME IInv, graph' = graph, NEW ks \in SUBSET Unfinished, NEW when \in Nat,
         NEW pending \in SUBSET ready, Release(ks, when, pending),
         \A k \in ks : missing[k] = 0 /\ start'[k] # NotYet,
         \A c \in Tasks \ ks : start'[c] = start[c],
         \A y \in ready : y \in pending <=> y[2] \notin ks,
         \A r \in Resources \cap Shared : DOMAIN active'[r] = DOMAIN active[r] \ ks
  PROVE  Counts' /\ Knots'
<1>1. /\ Tasks' = Tasks /\ Shared' = Shared /\ Resources' = Resources
      /\ \A c : Task(c)' = Task(c)
      /\ ready \in SUBSET (Nat \X Tasks)
      /\ \A c \in Tasks : /\ missing[c] \in Nat /\ Task(c).deps \in SUBSET Tasks
                          /\ Task(c).res \in Resources /\ IsFiniteSet(Task(c).deps)
  BY Static, GraphTyping DEF IInv, TypeOK
<1>2. /\ Unfinished' = Unfinished \ ks
      /\ \A c \in Tasks : missing'[c] = Cardinality(Task(c).deps \cap Unfinished')
  BY ReleasedCounts
<1>3. /\ \A c \in Tasks : missing[c] = 0 => missing'[c] = 0 /\ readyAt'[c] = readyAt[c]
      /\ ready' = pending \cup {<<readyAt'[c], c>> : c \in Freed}
  BY ReleasedTimes
<1>4. \A c \in Tasks :
        /\ c \notin Unfinished => missing[c] = 0 /\ start[c] # NotYet
        /\ c \in Unfinished /\ start[c] # NotYet =>
             Task(c).res \in Shared /\ c \in DOMAIN active[Task(c).res]
        /\ c \in Unfinished /\ start[c] = NotYet /\ missing[c] = 0 =>
             <<readyAt[c], c>> \in ready
  BY DEF IInv, Counts
<1>5. \A r \in Resources \cap Shared : \A k \in DOMAIN active[r] :
        k \in Unfinished /\ missing[k] = 0 /\ start[k] # NotYet
  BY DEF IInv, Counts
<1>6. \A x \in ready : /\ x[2] \in Unfinished /\ start[x[2]] = NotYet
                       /\ missing[x[2]] = 0 /\ x[1] = readyAt[x[2]]
  BY DEF IInv, Counts
<1>7. Unfinished \in SUBSET Tasks
  BY DEF Unfinished
<1>8. \A c \in Freed : c \in Unfinished /\ c \notin ks /\ start[c] = NotYet /\ missing'[c] = 0
  <2> SUFFICES ASSUME NEW c \in Freed
               PROVE  c \in Unfinished /\ c \notin ks /\ start[c] = NotYet /\ missing'[c] = 0
    OBVIOUS
  <2>1. c \in Tasks /\ missing[c] > 0 /\ missing[c] # 0 /\ missing'[c] = 0
    BY <1>1 DEF Freed
  <2>2. c \in Unfinished /\ c \notin ks
    BY <1>4, <2>1
  <2>3. start[c] = NotYet
    BY <1>1, <1>4, <1>5, <2>1, <2>2
  <2> QED
    BY <2>1, <2>2, <2>3
<1>9. ASSUME NEW c \in Tasks
      PROVE  /\ c \notin Unfinished' => missing'[c] = 0 /\ start'[c] # NotYet
             /\ c \in Unfinished' /\ start'[c] # NotYet =>
                  Task(c).res \in Shared /\ c \in DOMAIN active'[Task(c).res]
             /\ c \in Unfinished' /\ start'[c] = NotYet /\ missing'[c] = 0 =>
                  <<readyAt'[c], c>> \in ready'
  <2>1. c \notin Unfinished' => missing'[c] = 0 /\ start'[c] # NotYet
    BY <1>2, <1>3, <1>4, <1>7
  <2>2. ASSUME c \in Unfinished', start'[c] # NotYet
        PROVE  Task(c).res \in Shared /\ c \in DOMAIN active'[Task(c).res]
    <3>1. c \in Unfinished /\ c \notin ks /\ start[c] # NotYet
      BY <1>2, <2>2
    <3>2. Task(c).res \in Resources \cap Shared /\ c \in DOMAIN active[Task(c).res]
      BY <1>1, <1>4, <3>1
    <3> QED
      BY <3>1, <3>2
  <2>3. ASSUME c \in Unfinished', start'[c] = NotYet, missing'[c] = 0
        PROVE  <<readyAt'[c], c>> \in ready'
    <3>1. c \in Unfinished /\ c \notin ks /\ start[c] = NotYet
      BY <1>2, <2>3
    <3>2. CASE missing[c] = 0
      <4>1. <<readyAt[c], c>> \in ready
        BY <1>4, <3>1, <3>2
      <4>2. <<readyAt[c], c>>[2] = c
        OBVIOUS
      <4>3. <<readyAt[c], c>> \in pending
        BY <3>1, <4>1, <4>2
      <4>4. readyAt'[c] = readyAt[c]
        BY <1>3, <3>2
      <4> QED
        BY <1>3, <4>3, <4>4
    <3>3. CASE missing[c] # 0
      <4>1. c \in Freed
        BY <1>1, <2>3, <3>3 DEF Freed
      <4> QED
        BY <1>3, <4>1
    <3> QED
      BY <3>2, <3>3
  <2> QED
    BY <2>1, <2>2, <2>3
<1>10. ASSUME NEW y \in ready'
       PROVE  /\ y[2] \in Unfinished' /\ start'[y[2]] = NotYet
              /\ missing'[y[2]] = 0 /\ y[1] = readyAt'[y[2]]
  <2>1. CASE y \in pending
    <3>1. y \in ready /\ y[2] \in Unfinished /\ y[2] \notin ks /\ y[2] \in Tasks
      BY <1>6, <1>7, <2>1
    <3>2. /\ start[y[2]] = NotYet /\ missing[y[2]] = 0 /\ y[1] = readyAt[y[2]]
      BY <1>6, <3>1
    <3> QED
      BY <1>2, <1>3, <3>1, <3>2
  <2>2. CASE y \notin pending
    <3>1. PICK c \in Freed : y = <<readyAt'[c], c>>
      BY <1>3, <2>2
    <3>2. c \in Tasks /\ y[1] = readyAt'[c] /\ y[2] = c
      BY <3>1 DEF Freed
    <3> QED
      BY <1>2, <1>8, <3>2
  <2> QED
    BY <2>1, <2>2
<1>11. ASSUME NEW r \in Resources \cap Shared, NEW k \in DOMAIN active'[r]
       PROVE  k \in Unfinished' /\ missing'[k] = 0 /\ start'[k] # NotYet
  <2>1. k \in DOMAIN active[r] /\ k \notin ks
    OBVIOUS
  <2>2. k \in Unfinished /\ missing[k] = 0 /\ start[k] # NotYet /\ k \in Tasks
    BY <1>5, <1>7, <2>1
  <2> QED
    BY <1>2, <1>3, <2>1, <2>2
<1>12. Counts'
  BY <1>1, <1>2, <1>9, <1>10, <1>11 DEF Counts
<1>13. Knots'
  <2> SUFFICES ASSUME NEW S \in SUBSET Tasks, \A k \in S : Task(k).deps \cap S # {}
               PROVE  S \subseteq Unfinished'
    BY <1>1 DEF Knots
  <2>1. S \subseteq Unfinished
    BY DEF IInv, Knots
  <2>2. ASSUME NEW k \in S PROVE k \notin ks
    <3> SUFFICES ASSUME missing[k] = 0 PROVE FALSE
      OBVIOUS
    <3> DEFINE D == Task(k).deps \cap Unfinished
    <3>1. Cardinality(D) = 0
      BY DEF IInv, Counts
    <3>2. IsFiniteSet(D)
      BY <1>1, FS_Subset
    <3> HIDE DEF D
    <3>3. D = {}
      BY <3>1, <3>2, FS_EmptySet
    <3> QED
      BY <2>1, <3>3 DEF D
  <2> QED
    BY <1>2, <2>1, <2>2
<1> QED
  BY <1>12, <1>13

------------------------------------------------------------------------------
(***************************************************************************)
(* Processor sharing, in whole numbers.                                    *)
(***************************************************************************)
LEMMA Quotient ==
  ASSUME NEW s \in Nat, NEW n \in Nat \ {0}
  PROVE  /\ s \div n \in Nat
         /\ (s \div n) * n <= s
         /\ s < (s \div n) * n + n
OBVIOUS

\* A flow that was not due yet has as much left as its share, and keeps what
\* the others had no claim to.
LEMMA ShareLeft ==
  ASSUME NEW a \in Nat, NEW n \in Nat \ {0}, NEW s \in Nat, s <= a * n
  PROVE  /\ a - (s \div n) \in Nat
         /\ a * n <= (a - (s \div n)) * n + s
<1> DEFINE q == s \div n
<1>1. q \in Nat /\ q * n <= s
  BY Quotient
<1> HIDE DEF q
<1>2. q * n <= a * n
  BY <1>1
<1>3. q <= a
  <2> SUFFICES ASSUME a < q PROVE FALSE
    BY <1>1
  <2>1. PICK e \in Nat : q = a + e + 1
    BY <1>1
  <2>2. q * n = a * n + e * n + n
    BY <2>1
  <2>3. e * n \in Nat /\ a * n \in Nat
    OBVIOUS
  <2> QED
    BY <1>2, <2>2, <2>3
<1>4. (a - q) * n = a * n - q * n
  BY <1>1
<1>5. a * n \in Nat /\ q * n \in Nat
  BY <1>1
<1> QED
  BY <1>1, <1>3, <1>4, <1>5 DEF q

LEMMA TimesGrows ==
  ASSUME NEW a \in Nat, NEW b \in Nat, NEW n \in Nat, a <= b
  PROVE  a * n <= b * n
<1>1. PICK e \in Nat : b = a + e
  <2>1. b - a \in Nat /\ b = a + (b - a)
    OBVIOUS
  <2> QED
    BY <2>1
<1>2. b * n = a * n + e * n /\ e * n \in Nat /\ a * n \in Nat
  BY <1>1
<1> QED
  BY <1>2

\* The departure that is pushed for some flows is not before now, no flow of
\* them has more than half a unit too little for it, and it is after now if
\* each of them has at least that half left.
LEMMA DepartureTime ==
  ASSUME IInv, NEW r \in Resources \cap Shared, NEW S, IsFiniteSet(S), S # {},
         NEW flows \in [S -> Nat], NEW now \in Nat
  PROVE  \E t \in Nat :
           /\ DepartureOf(r, flows, now) = {[time |-> t, res |-> r, epoch |-> epoch[r] + 1]}
           /\ now <= t
           /\ \A k \in S : (t - now) * Fine <= flows[k] * Cardinality(S) + Fine \div 2
           /\ \E k \in S : flows[k] * Cardinality(S) + Fine \div 2 < (t - now) * Fine + Fine
           /\ (\A k \in S : Fine <= flows[k] * Cardinality(S) + Fine \div 2) => now < t
<1> DEFINE V == {flows[k] : k \in S}
           m == Min(V)
           n == Cardinality(S)
           half == Fine \div 2
           w == m * n + half
           t == now + w \div Fine
<1>1. Fine \in Nat \ {0} /\ half \in Nat /\ n \in Nat
  BY SchedAssumption, Quotient, FS_CardinalityType
<1>2. V # {} /\ V \in SUBSET Nat
  OBVIOUS
<1>3. DOMAIN flows = S
  OBVIOUS
<1>4. DepartureOf(r, flows, now) = {[time |-> t, res |-> r, epoch |-> epoch[r] + 1]}
  BY <1>3 DEF DepartureOf
<1>5. m \in V /\ \A y \in V : m <= y
  <2> HIDE DEF V
  <2> QED
    BY <1>2, MinOf
<1>6. m \in Nat /\ \A k \in S : flows[k] \in Nat /\ m <= flows[k]
  BY <1>2, <1>5
<1>7. m * n \in Nat /\ \A k \in S : m * n <= flows[k] * n /\ flows[k] * n \in Nat
  <2> HIDE DEF m, n
  <2>1. m * n \in Nat
    BY <1>1, <1>6
  <2>2. ASSUME NEW k \in S PROVE m * n <= flows[k] * n /\ flows[k] * n \in Nat
    <3> DEFINE f == flows[k]
    <3>1. f \in Nat /\ m <= f
      BY <1>6
    <3> HIDE DEF f
    <3>2. m * n <= f * n /\ f * n \in Nat
      BY <1>1, <1>6, <3>1, TimesGrows
    <3> QED
      BY <3>2 DEF f
  <2> QED
    BY <2>1, <2>2
<1>8. \E k \in S : m = flows[k]
  BY <1>5
<1> HIDE DEF m, n, half
<1>9. w \in Nat
  BY <1>1, <1>7
<1> HIDE DEF w
<1>10. w \div Fine \in Nat /\ (w \div Fine) * Fine <= w /\ w < (w \div Fine) * Fine + Fine
  BY <1>1, <1>9, Quotient
<1>11. t \in Nat /\ now <= t /\ t - now = w \div Fine
  BY <1>10
<1>12. \A k \in S : (t - now) * Fine <= flows[k] * n + half
  <2> SUFFICES ASSUME NEW k \in S PROVE (t - now) * Fine <= flows[k] * n + half
    OBVIOUS
  <2>1. (t - now) * Fine <= w /\ (t - now) * Fine \in Nat
    BY <1>1, <1>10, <1>11
  <2>2. w = m * n + half
    BY DEF w
  <2> HIDE DEF t
  <2> QED
    BY <2>1, <2>2, <1>1, <1>7
<1>13. ASSUME \A k \in S : Fine <= flows[k] * n + half PROVE now < t
  <2>1. Fine <= w
    BY <1>8, <1>13 DEF w
  <2>2. w \div Fine # 0
    <3> SUFFICES ASSUME w \div Fine = 0 PROVE FALSE
      OBVIOUS
    <3>1. w < 0 * Fine + Fine
      BY <1>10
    <3> QED
      BY <1>1, <1>9, <2>1, <3>1
  <2> QED
    BY <1>10, <2>2
<1>14. \E k \in S : flows[k] * n + half < (t - now) * Fine + Fine
  BY <1>8, <1>10, <1>11 DEF w
<1> QED
  BY <1>4, <1>11, <1>12, <1>13, <1>14 DEF n, half

\* advance(): what the flows of r have left at an event no later than the
\* departure to come, and strictly before it.
LEMMA AdvancedTypes ==
  ASSUME IInv, NEW r \in Resources \cap Shared, NEW now \in Nat
  PROVE  /\ active[r] \in [DOMAIN active[r] -> Nat]
         /\ DOMAIN active[r] \in SUBSET Tasks /\ IsFiniteSet(DOMAIN active[r])
         /\ DOMAIN active[r] \in SUBSET On(r)
         /\ Cardinality(DOMAIN active[r]) \in Nat
         /\ DOMAIN active[r] # {} => Cardinality(DOMAIN active[r]) \in Nat \ {0}
         /\ DOMAIN Advanced(r, now) = DOMAIN active[r]
         /\ \A k \in DOMAIN active[r] :
              Advanced(r, now)[k] =
                active[r][k] - ((now - last[r]) * Fine) \div Cardinality(DOMAIN active[r])
         /\ last[r] \in Nat /\ epoch[r] \in Nat /\ Fine \in Nat \ {0}
<1>1. active[r] \in FlowsOf(Tasks) /\ DOMAIN active[r] \in SUBSET On(r)
  BY DEF IInv, TypeOK
<1>2. PICK T \in SUBSET Tasks : active[r] \in [T -> Nat]
  BY <1>1 DEF FlowsOf
<1>3. DOMAIN active[r] = T
  BY <1>2
<1>4. IsFiniteSet(Tasks)
  BY GraphTyping DEF IInv, TypeOK
<1>5. IsFiniteSet(T)
  BY <1>4, FS_Subset
<1>6. Cardinality(T) \in Nat /\ (Cardinality(T) = 0 <=> T = {})
  BY <1>5, FS_CardinalityType, FS_EmptySet
<1>7. last[r] \in Nat /\ epoch[r] \in Nat /\ Fine \in Nat \ {0}
  BY SchedAssumption DEF IInv, TypeOK
<1> QED
  BY <1>1, <1>2, <1>3, <1>5, <1>6, <1>7 DEF Advanced

LEMMA AdvancedBefore ==
  ASSUME IInv, NEW r \in Resources \cap Shared, NEW now \in Nat, NEW d \in departures,
         d.res = r, ~Stale(d), now < d.time, last[r] <= now
  PROVE  \A k \in DOMAIN active[r] :
           /\ Advanced(r, now)[k] \in Nat
           /\ Fine <= Advanced(r, now)[k] * Cardinality(DOMAIN active[r]) + Fine \div 2
<1> SUFFICES ASSUME NEW k \in DOMAIN active[r]
             PROVE  /\ Advanced(r, now)[k] \in Nat
                    /\ Fine <= Advanced(r, now)[k] * Cardinality(DOMAIN active[r]) + Fine \div 2
  OBVIOUS
<1> DEFINE n == Cardinality(DOMAIN active[r])
           a == active[r][k]
           t == d.time
           l == last[r]
           s == (now - l) * Fine
           half == Fine \div 2
<1>1. /\ n \in Nat \ {0} /\ a \in Nat /\ l \in Nat /\ Fine \in Nat \ {0}
      /\ Advanced(r, now)[k] = a - s \div n
  BY AdvancedTypes
<1>2. t \in Nat /\ now < t /\ l <= now
  BY DEF IInv, TypeOK
<1>3. (t - l) * Fine <= a * n + half
  BY DEF IInv, Clocks
<1>4. half \in Nat /\ half <= Fine
  BY <1>1
<1> HIDE DEF n, a, t, l, half
<1>5. s \in Nat /\ s + Fine <= (t - l) * Fine
  <2> DEFINE u == now - l
             v == t - l
  <2>1. u \in Nat /\ v \in Nat /\ u + 1 <= v
    BY <1>1, <1>2
  <2> HIDE DEF u, v
  <2>2. (u + 1) * Fine <= v * Fine /\ (u + 1) * Fine = u * Fine + Fine /\ u * Fine \in Nat
    BY <1>1, <2>1, TimesGrows
  <2> QED
    BY <2>2 DEF u, v
<1>6. a * n \in Nat /\ (t - l) * Fine \in Int
  BY <1>1, <1>2
<1> HIDE DEF s
<1>7. s <= a * n
  BY <1>1, <1>3, <1>4, <1>5, <1>6
<1>8. a - (s \div n) \in Nat /\ a * n <= (a - (s \div n)) * n + s
  BY <1>1, <1>5, <1>7, ShareLeft
<1>9. (a - (s \div n)) * n \in Nat
  BY <1>1, <1>8
<1>10. Fine <= (a - (s \div n)) * n + half
  BY <1>1, <1>3, <1>4, <1>5, <1>6, <1>8, <1>9
<1> QED
  BY <1>1, <1>8, <1>10 DEF n, half

\* Someone leaves at every departure, and who stays has work left.
LEMMA SomeLeave ==
  ASSUME IInv, NEW S \in SUBSET Tasks, S # {}, NEW flows \in [S -> Int]
  PROVE  /\ Leaving(flows) \in SUBSET S /\ Leaving(flows) # {}
         /\ \A k \in S \ Leaving(flows) : flows[k] \in Nat
         /\ \A k \in Leaving(flows) : flows[k] <= Eps \/ \A j \in S : flows[k] <= flows[j]
<1> DEFINE ended == {k \in S : flows[k] <= Eps}
<1>1. DOMAIN flows = S /\ Eps \in Nat /\ S \in SUBSET Nat
  BY SchedAssumption, GraphTyping DEF IInv, TypeOK
<1>2. ended = {k \in DOMAIN flows : flows[k] <= Eps}
  BY <1>1
<1>3. \A k \in S \ ended : flows[k] \in Nat
  BY <1>1
<1>4. CASE ended # {}
  <2>1. Leaving(flows) = ended
    BY <1>2, <1>4 DEF Leaving
  <2> QED
    BY <1>3, <1>4, <2>1
<1>5. CASE ended = {}
  <2> DEFINE first(k) == \A j \in DOMAIN flows : Before(<<flows[k], k>>, <<flows[j], j>>)
  <2>1. \A k \in S : flows[k] \in Nat /\ [x \in S |-> x][k] \in Nat
    BY <1>1, <1>3, <1>5
  <2>2. \E k \in S : \A j \in S : Before(<<flows[k], [x \in S |-> x][k]>>, <<flows[j], [x \in S |-> x][j]>>)
    BY <2>1, FirstPair
  <2>3. \E k \in DOMAIN flows : first(k)
    BY <1>1, <2>2
  <2>4. Leaving(flows) = {CHOOSE k \in DOMAIN flows : first(k)}
    BY <1>2, <1>5 DEF Leaving
  <2> HIDE DEF first
  <2>5. (CHOOSE k \in DOMAIN flows : first(k)) \in S /\ first(CHOOSE k \in DOMAIN flows : first(k))
    BY <1>1, <2>3
  <2>6. \A k \in S : first(k) => \A j \in S : flows[k] <= flows[j]
    BY <1>1, <2>1 DEF first, Before
  <2> QED
    BY <1>3, <1>5, <2>4, <2>5, <2>6
<1> QED
  BY <1>4, <1>5

------------------------------------------------------------------------------
(***************************************************************************)
(* The next event is the earliest.                                         *)
(***************************************************************************)
LEMMA HeadDeparture ==
  ASSUME IInv, departures # {}
  PROVE  NextDepartures # {} /\ \A d \in NextDepartures, e \in departures : d.time <= e.time
<1> DEFINE T == {d.time : d \in departures}
<1>1. T # {} /\ T \in SUBSET Nat
  BY DEF IInv, TypeOK
<1>2. \E t \in T : \A u \in T : t <= u
  <2> HIDE DEF T
  <2> QED
    BY <1>1, LeastElement
<1> QED
  BY <1>2 DEF NextDepartures

LEMMA StartIsNext ==
  ASSUME IInv, StartsNext, NEW x \in NextReady
  PROVE  /\ x \in ready /\ x[1] \in Nat /\ x[2] \in Tasks /\ x = <<x[1], x[2]>>
         /\ x[2] \in Unfinished /\ start[x[2]] = NotYet /\ missing[x[2]] = 0
         /\ x[1] = readyAt[x[2]]
         /\ \A y \in ready : Before(x, y) /\ x[1] <= y[1] /\ y[1] \in Nat
         /\ \A d \in departures : x[1] < d.time
         /\ \A r \in Resources \cap Shared : last[r] <= x[1]
<1>1. /\ x \in ready /\ ready \in SUBSET (Nat \X Tasks)
      /\ \A y \in ready : Before(x, y)
  BY DEF IInv, TypeOK, NextReady
<1>2. /\ x[1] \in Nat /\ x[2] \in Tasks /\ x = <<x[1], x[2]>>
      /\ \A y \in ready : Before(x, y) /\ x[1] <= y[1] /\ y[1] \in Nat
  BY <1>1 DEF Before
<1>3. /\ x[2] \in Unfinished /\ start[x[2]] = NotYet /\ missing[x[2]] = 0
      /\ x[1] = readyAt[x[2]]
  BY <1>1 DEF IInv, Counts
<1>4. \A r \in Resources \cap Shared : last[r] <= x[1]
  BY <1>1 DEF IInv, Clocks
<1>5. ASSUME NEW d \in departures PROVE x[1] < d.time
  <2>1. PICK e \in NextDepartures : e.time <= d.time
    BY HeadDeparture
  <2>2. PICK y \in ready : ~(e.time <= y[1])
    BY <2>1 DEF StartsNext, DepartsFirst
  <2>3. e.time \in Nat /\ d.time \in Nat
    BY <2>1 DEF NextDepartures, IInv, TypeOK
  <2> QED
    BY <1>2, <2>1, <2>2, <2>3
<1> QED
  BY <1>1, <1>2, <1>3, <1>4, <1>5

LEMMA DepartureIsNext ==
  ASSUME IInv, NEW d \in NextDepartures, ~Stale(d), DepartsFirst(d)
  PROVE  /\ d \in departures /\ d.time \in Nat /\ d.res \in Resources \cap Shared
         /\ DOMAIN active[d.res] # {}
         /\ \A e \in departures : d.time <= e.time
         /\ \A y \in ready : d.time <= y[1] /\ y[1] \in Nat
         /\ \A r \in Resources \cap Shared : last[r] <= d.time
<1>1. d \in departures /\ d.time \in Nat /\ d.res \in Resources \cap Shared
  BY DEF IInv, TypeOK, NextDepartures
<1>2. DOMAIN active[d.res] # {}
  BY DEF Stale
<1>3. \A e \in departures : d.time <= e.time
  BY DEF NextDepartures
<1>4. \A y \in ready : d.time <= y[1] /\ y[1] \in Nat
  BY DEF DepartsFirst, IInv, TypeOK
<1>5. \A r \in Resources \cap Shared : last[r] <= d.time
  BY <1>1 DEF IInv, Clocks
<1> QED
  BY <1>1, <1>2, <1>3, <1>4, <1>5

------------------------------------------------------------------------------
(***************************************************************************)
(* A shared resource whose flows change at the instant now.                *)
(***************************************************************************)
LEMMA FlowsChange ==
  ASSUME IInv, graph' = graph, NEW r \in Resources \cap Shared, NEW now \in Nat,
         NEW S \in SUBSET On(r), NEW flows \in [S -> Nat],
         active' = [active EXCEPT ![r] = flows],
         last' = [last EXCEPT ![r] = now],
         epoch' = [epoch EXCEPT ![r] = @ + 1],
         busy' = [busy EXCEPT ![r] = @ + Worked(r, now)],
         NEW pending \in SUBSET departures,
         departures' = pending \cup DepartureOf(r, flows, now),
         \A e \in departures \ pending : e.res = r,
         \A e \in pending : now <= e.time,
         \A q \in Resources \cap Shared : last[q] <= now,
         ready' \in SUBSET (Nat \X Tasks), \A y \in ready' : now <= y[1]
  PROVE  /\ active' \in [Resources \cap Shared -> FlowsOf(Tasks)]
         /\ \A q \in Resources \cap Shared : DOMAIN active'[q] \in SUBSET On(q)
         /\ last' \in [Resources \cap Shared -> Nat]
         /\ epoch' \in [Resources \cap Shared -> Nat]
         /\ busy' \in [Resources -> Nat]
         /\ departures' \in SUBSET [time : Nat, res : Resources \cap Shared, epoch : Nat]
         /\ Clocks'
<1> DEFINE R == Resources \cap Shared
<1>1. /\ Resources' = Resources /\ Shared' = Shared
      /\ active \in [R -> FlowsOf(Tasks)] /\ \A q \in R : DOMAIN active[q] \in SUBSET On(q)
      /\ last \in [R -> Nat] /\ epoch \in [R -> Nat] /\ busy \in [Resources -> Nat]
      /\ departures \in SUBSET [time : Nat, res : R, epoch : Nat]
      /\ On(r) \in SUBSET Tasks /\ IsFiniteSet(Tasks)
  BY Static, GraphTyping DEF IInv, TypeOK
<1>2. flows \in FlowsOf(Tasks) /\ DOMAIN flows = S /\ IsFiniteSet(S)
  <2>1. S \in SUBSET Tasks /\ IsFiniteSet(S)
    BY <1>1, FS_Subset
  <2> QED
    BY <2>1 DEF FlowsOf
<1>3. /\ active'[r] = flows /\ last'[r] = now /\ epoch'[r] = epoch[r] + 1
      /\ \A q \in R : q # r => /\ active'[q] = active[q] /\ last'[q] = last[q]
                               /\ epoch'[q] = epoch[q]
  BY <1>1
<1>4. active' \in [R -> FlowsOf(Tasks)]
  BY <1>1, <1>2
<1>5. \A q \in R : DOMAIN active'[q] \in SUBSET On(q)
  BY <1>1, <1>2, <1>3
<1>6. last' \in [R -> Nat] /\ epoch' \in [R -> Nat]
  BY <1>1
<1>7. busy' \in [Resources -> Nat]
  <2>1. Worked(r, now) \in Nat
    BY <1>1 DEF Worked
  <2>2. busy[r] + Worked(r, now) \in Nat
    BY <1>1, <2>1
  <2> QED
    BY <1>1, <2>2
<1> DEFINE pushed == DepartureOf(r, flows, now)
<1>8. /\ pushed \in SUBSET [time : Nat, res : R, epoch : Nat]
      /\ \A e \in pushed :
           /\ e.res = r /\ e.epoch = epoch[r] + 1 /\ now <= e.time
           /\ \A k \in S : (e.time - now) * Fine <= flows[k] * Cardinality(S) + Fine \div 2
      /\ S # {} => pushed # {}
  <2>1. CASE S = {}
    <3>1. pushed = {}
      BY <1>2, <2>1 DEF DepartureOf
    <3> HIDE DEF pushed
    <3> QED
      BY <2>1, <3>1
  <2>2. CASE S # {}
    <3>1. PICK t \in Nat :
            /\ pushed = {[time |-> t, res |-> r, epoch |-> epoch[r] + 1]}
            /\ now <= t
            /\ \A k \in S : (t - now) * Fine <= flows[k] * Cardinality(S) + Fine \div 2
      BY <1>2, <2>2, DepartureTime
    <3>2. epoch[r] + 1 \in Nat
      BY <1>1
    <3> HIDE DEF pushed
    <3> QED
      BY <3>1, <3>2
  <2> QED
    BY <2>1, <2>2
<1>9. departures' = pending \cup pushed
  OBVIOUS
<1> HIDE DEF pushed
<1>10. departures' \in SUBSET [time : Nat, res : R, epoch : Nat]
  BY <1>1, <1>8, <1>9
<1>11. ASSUME NEW e \in pending
       PROVE  /\ e.res \in R /\ e.time \in Nat /\ e.epoch \in Nat /\ e.epoch <= epoch[e.res]
              /\ ~Stale(e)' => e.res # r /\ ~Stale(e)
  <2>1. e \in departures /\ e.res \in R /\ e.time \in Nat /\ e.epoch \in Nat
    BY <1>1
  <2>2. e.epoch <= epoch[e.res] /\ epoch[e.res] \in Nat
    BY <1>1, <2>1 DEF IInv, Clocks
  <2>3. ASSUME ~Stale(e)' PROVE e.res # r /\ ~Stale(e)
    <3>1. e.epoch = epoch'[e.res] /\ DOMAIN active'[e.res] # {}
      BY <2>3 DEF Stale
    <3>2. e.res # r
      BY <1>3, <2>1, <2>2, <3>1
    <3> QED
      BY <1>3, <2>1, <3>1, <3>2 DEF Stale
  <2> QED
    BY <2>1, <2>2, <2>3
<1>12. ASSUME NEW e \in departures'
       PROVE  /\ e.epoch <= epoch'[e.res]
              /\ ~Stale(e)' =>
                   \A k \in DOMAIN active'[e.res] :
                     (e.time - last'[e.res]) * Fine
                        <= active'[e.res][k] * Cardinality(DOMAIN active'[e.res]) + Fine \div 2
  <2>1. CASE e \in pushed
    <3>1. e.res = r /\ e.epoch = epoch'[e.res] /\ epoch'[e.res] \in Nat
      BY <1>3, <1>6, <1>8, <2>1
    <3>2. active'[e.res] = flows /\ last'[e.res] = now
      BY <1>3, <3>1
    <3>3. DOMAIN active'[e.res] = S
      BY <1>2, <3>2
    <3> QED
      BY <1>8, <2>1, <3>1, <3>2, <3>3
  <2>2. CASE e \in pending
    <3>1. e.res \in R /\ e.epoch \in Nat /\ e.epoch <= epoch[e.res]
      BY <1>11, <2>2
    <3>2. e.epoch <= epoch'[e.res]
      BY <1>1, <1>3, <3>1
    <3>3. ASSUME ~Stale(e)', NEW k \in DOMAIN active'[e.res]
          PROVE  (e.time - last'[e.res]) * Fine
                    <= active'[e.res][k] * Cardinality(DOMAIN active'[e.res]) + Fine \div 2
      <4>1. e.res # r /\ ~Stale(e)
        BY <1>11, <2>2, <3>3
      <4>2. active'[e.res] = active[e.res] /\ last'[e.res] = last[e.res]
        BY <1>3, <3>1, <4>1
      <4>3. k \in DOMAIN active[e.res]
        BY <4>2
      <4>4. (e.time - last[e.res]) * Fine
               <= active[e.res][k] * Cardinality(DOMAIN active[e.res]) + Fine \div 2
        BY <2>2, <4>1, <4>3 DEF IInv, Clocks
      <4> QED
        BY <4>2, <4>4
    <3> QED
      BY <3>2, <3>3
  <2> QED
    BY <1>9, <2>1, <2>2
<1>13. ASSUME NEW q \in R
       PROVE  /\ DOMAIN active'[q] # {} =>
                   \E e \in departures' : e.res = q /\ e.epoch = epoch'[q]
              /\ \A y \in ready' : last'[q] <= y[1]
              /\ \A e \in departures' : ~Stale(e)' => last'[q] <= e.time
  <2>1. last'[q] <= now /\ last'[q] \in Nat
    BY <1>1, <1>3
  <2>2. \A y \in ready' : last'[q] <= y[1]
    BY <2>1
  <2>3. \A e \in departures' : now <= e.time /\ e.time \in Nat
    BY <1>8, <1>9, <1>10
  <2>4. \A e \in departures' : ~Stale(e)' => last'[q] <= e.time
    BY <2>1, <2>3
  <2>5. ASSUME DOMAIN active'[q] # {}
        PROVE  \E e \in departures' : e.res = q /\ e.epoch = epoch'[q]
    <3>1. CASE q = r
      <4>1. S # {}
        BY <1>2, <1>3, <2>5, <3>1
      <4>2. PICK e \in pushed : TRUE
        BY <1>8, <4>1
      <4>3. e \in departures' /\ e.res = q /\ e.epoch = epoch'[q]
        BY <1>3, <1>8, <1>9, <3>1
      <4> QED
        BY <4>3
    <3>2. CASE q # r
      <4>1. PICK e \in departures : e.res = q /\ e.epoch = epoch[q]
        BY <1>3, <2>5, <3>2 DEF IInv, Clocks
      <4>2. e \in pending
        BY <3>2, <4>1
      <4>3. e \in departures' /\ e.epoch = epoch'[q]
        BY <1>3, <1>9, <3>2, <4>1, <4>2
      <4> QED
        BY <4>1, <4>3
    <3> QED
      BY <3>1, <3>2
  <2> QED
    BY <2>2, <2>4, <2>5
<1>14. Clocks'
  BY <1>1, <1>12, <1>13 DEF Clocks
<1> QED
  BY <1>4, <1>5, <1>6, <1>7, <1>10, <1>14

------------------------------------------------------------------------------
(***************************************************************************)
(* The steps.                                                              *)
(***************************************************************************)
\* A departure with the flows that leave and the work of those that stay.
DepartsAs(d, gone, stay) ==
  /\ d \in NextDepartures /\ ~Stale(d) /\ DepartsFirst(d)
  /\ gone # {}
  /\ \A k \in DOMAIN active[d.res] \ gone : stay[k] = Advanced(d.res, d.time)[k]
  /\ \A k \in gone : \/ Advanced(d.res, d.time)[k] <= Eps
                     \/ \A j \in DOMAIN active[d.res] :
                          Advanced(d.res, d.time)[k] <= Advanced(d.res, d.time)[j]
  /\ active' = [active EXCEPT ![d.res] = stay]
  /\ last' = [last EXCEPT ![d.res] = d.time]
  /\ busy' = [busy EXCEPT ![d.res] = @ + Worked(d.res, d.time)]
  /\ epoch' = [epoch EXCEPT ![d.res] = @ + 1]
  /\ departures' = (departures \ {d}) \cup DepartureOf(d.res, stay, d.time)
  /\ Release(gone, d.time, ready)
  /\ outcome = "running" /\ Unfinished # {}
  /\ UNCHANGED <<graph, slots, start, outcome>>

LEMMA DepartOf ==
  ASSUME IInv, Depart
  PROVE  \E d \in departures :
           \E gone \in SUBSET DOMAIN active[d.res] :
             \E stay \in [DOMAIN active[d.res] \ gone -> Nat] :
               DepartsAs(d, gone, stay)
<1>1. PICK d \in NextDepartures :
        LET r == d.res
            flows == Advanced(r, d.time)
            gone == Leaving(flows)
            stay == [k \in DOMAIN flows \ gone |-> flows[k]]
        IN /\ \A e \in NextDepartures : ~Stale(e)
           /\ DepartsFirst(d)
           /\ active' = [active EXCEPT ![r] = stay]
           /\ last' = [last EXCEPT ![r] = d.time]
           /\ busy' = [busy EXCEPT ![r] = @ + Worked(r, d.time)]
           /\ epoch' = [epoch EXCEPT ![r] = @ + 1]
           /\ departures' = (departures \ {d}) \cup DepartureOf(r, stay, d.time)
           /\ Release(gone, d.time, ready)
  BY DEF Depart
<1> DEFINE r == d.res
           S == DOMAIN active[r]
           flows == Advanced(r, d.time)
           gone == Leaving(flows)
           stay == [k \in DOMAIN flows \ gone |-> flows[k]]
<1>2. ~Stale(d) /\ DepartsFirst(d)
  BY <1>1
<1>3. d \in departures /\ d.time \in Nat /\ r \in Resources \cap Shared /\ S # {}
  BY <1>2, DepartureIsNext
<1>4. flows \in [S -> Int] /\ S \in SUBSET Tasks
  <2> DEFINE q == ((d.time - last[r]) * Fine) \div Cardinality(S)
  <2>1. /\ active[r] \in [S -> Nat] /\ S \in SUBSET Tasks /\ last[r] \in Nat /\ Fine \in Nat
        /\ Cardinality(S) \in Nat \ {0}
    BY <1>3, AdvancedTypes
  <2>2. q \in Int
    <3> DEFINE u == (d.time - last[r]) * Fine
               n == Cardinality(S)
    <3>1. u \in Int /\ n \in Nat \ {0}
      BY <1>3, <2>1
    <3> HIDE DEF u, n
    <3>2. u \div n \in Int
      BY <3>1
    <3> QED
      BY <3>2 DEF u, n
  <2>3. flows = [k \in S |-> active[r][k] - q]
    BY DEF Advanced
  <2> HIDE DEF q, S, flows
  <2> QED
    BY <2>1, <2>2, <2>3
<1> HIDE DEF flows
<1>5. /\ gone \in SUBSET S /\ gone # {}
      /\ \A k \in S \ gone : flows[k] \in Nat
      /\ \A k \in gone : flows[k] <= Eps \/ \A j \in S : flows[k] <= flows[j]
  <2> HIDE DEF S
  <2> QED
    BY <1>3, <1>4, SomeLeave
<1>6. stay \in [S \ gone -> Nat] /\ \A k \in S \ gone : stay[k] = flows[k]
  BY <1>4, <1>5
<1>7. /\ active' = [active EXCEPT ![r] = stay]
      /\ last' = [last EXCEPT ![r] = d.time]
      /\ busy' = [busy EXCEPT ![r] = @ + Worked(r, d.time)]
      /\ epoch' = [epoch EXCEPT ![r] = @ + 1]
      /\ departures' = (departures \ {d}) \cup DepartureOf(r, stay, d.time)
      /\ Release(gone, d.time, ready)
  BY <1>1 DEF flows
<1>8. outcome = "running" /\ Unfinished # {} /\ UNCHANGED <<graph, slots, start, outcome>>
  BY DEF Depart
<1>9. DepartsAs(d, gone, stay)
  <2> HIDE DEF stay, gone
  <2> QED
    BY <1>2, <1>5, <1>6, <1>7, <1>8 DEF DepartsAs, flows
<1> HIDE DEF stay, gone
<1> QED
  BY <1>3, <1>5, <1>6, <1>9

LEMMA DepartInv ==
  ASSUME IInv, Depart
  PROVE  IInv'
<1>a. PICK d \in departures :
        \E gone \in SUBSET DOMAIN active[d.res] :
          \E stay \in [DOMAIN active[d.res] \ gone -> Nat] : DepartsAs(d, gone, stay)
  BY DepartOf
<1>b. PICK gone \in SUBSET DOMAIN active[d.res] :
        \E stay \in [DOMAIN active[d.res] \ gone -> Nat] : DepartsAs(d, gone, stay)
  BY <1>a
<1>c. PICK stay \in [DOMAIN active[d.res] \ gone -> Nat] : DepartsAs(d, gone, stay)
  BY <1>b
<1>1. /\ d \in NextDepartures /\ ~Stale(d) /\ DepartsFirst(d)
      /\ gone # {}
      /\ active' = [active EXCEPT ![d.res] = stay]
      /\ last' = [last EXCEPT ![d.res] = d.time]
      /\ busy' = [busy EXCEPT ![d.res] = @ + Worked(d.res, d.time)]
      /\ epoch' = [epoch EXCEPT ![d.res] = @ + 1]
      /\ departures' = (departures \ {d}) \cup DepartureOf(d.res, stay, d.time)
      /\ Release(gone, d.time, ready)
      /\ outcome = "running" /\ Unfinished # {}
      /\ UNCHANGED <<graph, slots, start, outcome>>
  BY <1>c DEF DepartsAs
<1> DEFINE r == d.res
           now == d.time
<1>2. /\ now \in Nat /\ r \in Resources \cap Shared
      /\ \A e \in departures : now <= e.time
      /\ \A y \in ready : now <= y[1]
      /\ \A q \in Resources \cap Shared : last[q] <= now
  BY <1>1, DepartureIsNext
<1>3. /\ active \in [Resources \cap Shared -> FlowsOf(Tasks)]
      /\ \A q \in Resources \cap Shared : DOMAIN active[q] \in SUBSET On(q)
      /\ \A q \in Resources \cap Shared : \A k \in DOMAIN active[q] :
           k \in Unfinished /\ missing[k] = 0 /\ start[k] # NotYet
      /\ \A x \in ready : start[x[2]] = NotYet
      /\ ready \in SUBSET (Nat \X Tasks)
      /\ \A q : \A k \in On(q) : Task(k).res = q
      /\ \A q \in Resources \cap Shared : On(q) \in SUBSET Tasks
  BY GraphTyping DEF IInv, TypeOK, Counts
<1>4. /\ gone \in SUBSET Unfinished
      /\ \A k \in gone : missing[k] = 0 /\ start'[k] # NotYet /\ Task(k).res = r
  BY <1>1, <1>2, <1>3
<1>5. \A y \in ready : y \in ready <=> y[2] \notin gone
  BY <1>1, <1>3, <1>4
<1>6. \A q \in Resources \cap Shared : DOMAIN active'[q] = DOMAIN active[q] \ gone
  <2> SUFFICES ASSUME NEW q \in Resources \cap Shared
               PROVE  DOMAIN active'[q] = DOMAIN active[q] \ gone
    OBVIOUS
  <2>1. CASE q = r
    <3>1. active'[q] = stay /\ DOMAIN stay = DOMAIN active[r] \ gone
      BY <1>1, <1>2, <1>3, <2>1
    <3> QED
      BY <2>1, <3>1
  <2>2. CASE q # r
    <3>1. active'[q] = active[q]
      BY <1>1, <1>3, <2>2
    <3>2. \A k \in DOMAIN active[q] : k \notin gone
      BY <1>3, <1>4, <2>2
    <3> QED
      BY <3>1, <3>2
  <2> QED
    BY <2>1, <2>2
<1>7. /\ finish' \in [Tasks -> Nat \cup {NotYet}] /\ missing' \in [Tasks -> Nat]
      /\ Unfinished' = Unfinished \ gone
  BY <1>1, <1>2, <1>4, ReleasedCounts
<1>8. /\ readyAt' \in [Tasks -> Nat] /\ ready' \in SUBSET (Nat \X Tasks) /\ ReadyTimes'
      /\ ready' = ready \cup {<<readyAt'[c], c>> : c \in Freed}
      /\ \A c \in Freed : now <= readyAt'[c]
  BY <1>1, <1>2, <1>4, ReleasedTimes
<1>9. \A y \in ready' : now <= y[1]
  BY <1>2, <1>8
<1>10. Counts' /\ Knots'
  BY <1>1, <1>2, <1>4, <1>5, <1>6, CountsRelease
<1>11. /\ active' \in [Resources \cap Shared -> FlowsOf(Tasks)]
       /\ \A q \in Resources \cap Shared : DOMAIN active'[q] \in SUBSET On(q)
       /\ last' \in [Resources \cap Shared -> Nat]
       /\ epoch' \in [Resources \cap Shared -> Nat]
       /\ busy' \in [Resources -> Nat]
       /\ departures' \in SUBSET [time : Nat, res : Resources \cap Shared, epoch : Nat]
       /\ Clocks'
  <2> DEFINE S == DOMAIN active[r] \ gone
             pending == departures \ {d}
  <2>1. /\ S \in SUBSET On(r) /\ stay \in [S -> Nat] /\ pending \in SUBSET departures
        /\ \A e \in departures \ pending : e.res = r
        /\ \A e \in pending : now <= e.time
        /\ departures' = pending \cup DepartureOf(r, stay, now)
    BY <1>1, <1>2, <1>3
  <2> HIDE DEF S, pending
  <2> QED
    BY <1>1, <1>2, <1>8, <1>9, <2>1, FlowsChange
<1>12. TypeOK'
  BY <1>1, <1>7, <1>8, <1>11, Static DEF IInv, TypeOK
<1>13. Outcomes'
  BY <1>1 DEF Outcomes
<1> QED
  BY <1>8, <1>10, <1>11, <1>12, <1>13 DEF IInv

\* A start on a shared resource with the work of all its flows.
SharesAs(x, r, S, flows) ==
  /\ StartsNext /\ x \in NextReady
  /\ r = Task(x[2]).res /\ r \in Resources \cap Shared
  /\ S = DOMAIN active[r] \cup {x[2]} /\ x[2] \notin DOMAIN active[r] /\ S \in SUBSET On(r)
  /\ flows \in [S -> Nat]
  /\ flows[x[2]] = Task(x[2]).dur * Fine
  /\ \A j \in DOMAIN active[r] : flows[j] = Advanced(r, x[1])[j]
  /\ active' = [active EXCEPT ![r] = flows]
  /\ last' = [last EXCEPT ![r] = x[1]]
  /\ busy' = [busy EXCEPT ![r] = @ + Worked(r, x[1])]
  /\ epoch' = [epoch EXCEPT ![r] = @ + 1]
  /\ start' = [start EXCEPT ![x[2]] = x[1]]
  /\ departures' = departures \cup DepartureOf(r, flows, x[1])
  /\ ready' = ready \ {x}
  /\ UNCHANGED <<graph, missing, readyAt, slots, finish, outcome>>

\* The flows of a resource are due after the next start.
LEMMA FlowsBefore ==
  ASSUME IInv, StartsNext, NEW x \in NextReady, NEW r \in Resources \cap Shared
  PROVE  \A j \in DOMAIN active[r] :
           /\ Advanced(r, x[1])[j] \in Nat
           /\ Fine <= Advanced(r, x[1])[j] * Cardinality(DOMAIN active[r]) + Fine \div 2
<1> SUFFICES ASSUME DOMAIN active[r] # {}
             PROVE  \A j \in DOMAIN active[r] :
                      /\ Advanced(r, x[1])[j] \in Nat
                      /\ Fine <= Advanced(r, x[1])[j] * Cardinality(DOMAIN active[r])
                                   + Fine \div 2
  OBVIOUS
<1>1. PICK d \in departures : d.res = r /\ d.epoch = epoch[r]
  BY DEF IInv, Clocks
<1>2. ~Stale(d)
  BY <1>1 DEF Stale
<1>3. x[1] \in Nat /\ x[1] < d.time /\ last[r] <= x[1]
  BY StartIsNext
<1> QED
  BY <1>1, <1>2, <1>3, AdvancedBefore

LEMMA StartSharedOf ==
  ASSUME IInv, StartShared
  PROVE  \E x \in NextReady : \E r \in Resources \cap Shared :
           \E S \in SUBSET On(r) : \E flows \in [S -> Nat] : SharesAs(x, r, S, flows)
<1>1. PICK x \in NextReady :
        LET rt == x[1]
            k == x[2]
            r == Task(k).res
            old == Advanced(r, rt)
            flows == [j \in DOMAIN old \cup {k} |->
                        IF j = k THEN Task(k).dur * Fine ELSE old[j]]
        IN /\ r \in Shared
           /\ active' = [active EXCEPT ![r] = flows]
           /\ last' = [last EXCEPT ![r] = rt]
           /\ busy' = [busy EXCEPT ![r] = @ + Worked(r, rt)]
           /\ epoch' = [epoch EXCEPT ![r] = @ + 1]
           /\ start' = [start EXCEPT ![k] = rt]
           /\ departures' = departures \cup DepartureOf(r, flows, rt)
           /\ ready' = ready \ {x}
  BY DEF StartShared
<1> DEFINE rt == x[1]
           k == x[2]
           r == Task(k).res
           old == Advanced(r, rt)
           S == DOMAIN active[r] \cup {k}
           flows == [j \in DOMAIN old \cup {k} |-> IF j = k THEN Task(k).dur * Fine ELSE old[j]]
<1>2. StartsNext /\ UNCHANGED <<graph, missing, readyAt, slots, finish, outcome>>
  BY DEF StartShared
<1>3. rt \in Nat /\ k \in Tasks /\ start[k] = NotYet
  BY <1>2, StartIsNext
<1>4. /\ r \in Resources \cap Shared /\ k \in On(r) /\ Task(k).dur \in Nat
      /\ Fine \in Nat
  BY <1>1, <1>3, GraphTyping, SchedAssumption DEF IInv, TypeOK
<1>5. /\ DOMAIN old = DOMAIN active[r] /\ DOMAIN active[r] \in SUBSET On(r)
      /\ k \notin DOMAIN active[r]
  BY <1>3, <1>4, AdvancedTypes DEF IInv, Counts
<1>6. \A j \in DOMAIN active[r] : old[j] \in Nat
  BY <1>2, <1>4, FlowsBefore
<1>7. Task(k).dur * Fine \in Nat
  BY <1>4
<1> HIDE DEF old
<1>8. flows \in [S -> Nat] /\ S \in SUBSET On(r)
  BY <1>4, <1>5, <1>6, <1>7
<1>9. flows[k] = Task(k).dur * Fine /\ \A j \in DOMAIN active[r] : flows[j] = old[j]
  BY <1>5
<1>10. /\ active' = [active EXCEPT ![r] = flows]
       /\ last' = [last EXCEPT ![r] = rt]
       /\ busy' = [busy EXCEPT ![r] = @ + Worked(r, rt)]
       /\ epoch' = [epoch EXCEPT ![r] = @ + 1]
       /\ start' = [start EXCEPT ![k] = rt]
       /\ departures' = departures \cup DepartureOf(r, flows, rt)
       /\ ready' = ready \ {x}
  BY <1>1 DEF old
<1>11. SharesAs(x, r, S, flows)
  <2> HIDE DEF flows
  <2> QED
    BY <1>2, <1>4, <1>5, <1>8, <1>9, <1>10 DEF SharesAs, old
<1> HIDE DEF flows
<1> QED
  BY <1>4, <1>8, <1>11

LEMMA StartSharedInv ==
  ASSUME IInv, StartShared
  PROVE  IInv'
<1>1. PICK x \in NextReady, r \in Resources \cap Shared :
        \E S \in SUBSET On(r) : \E flows \in [S -> Nat] : SharesAs(x, r, S, flows)
  BY StartSharedOf
<1>2. PICK S \in SUBSET On(r) : \E flows \in [S -> Nat] : SharesAs(x, r, S, flows)
  BY <1>1
<1>3. PICK flows \in [S -> Nat] : SharesAs(x, r, S, flows)
  BY <1>2
<1> DEFINE k == x[2]
           now == x[1]
<1>4. /\ StartsNext /\ r = Task(k).res /\ S = DOMAIN active[r] \cup {k}
      /\ active' = [active EXCEPT ![r] = flows]
      /\ last' = [last EXCEPT ![r] = now]
      /\ busy' = [busy EXCEPT ![r] = @ + Worked(r, now)]
      /\ epoch' = [epoch EXCEPT ![r] = @ + 1]
      /\ start' = [start EXCEPT ![k] = now]
      /\ departures' = departures \cup DepartureOf(r, flows, now)
      /\ ready' = ready \ {x}
      /\ UNCHANGED <<graph, missing, readyAt, slots, finish, outcome>>
  BY <1>3 DEF SharesAs
<1>5. /\ x \in ready /\ now \in Nat /\ k \in Tasks /\ x = <<now, k>> /\ now = readyAt[k]
      /\ k \in Unfinished /\ start[k] = NotYet /\ missing[k] = 0
      /\ \A y \in ready : now <= y[1]
      /\ \A d \in departures : now < d.time /\ now <= d.time
      /\ \A q \in Resources \cap Shared : last[q] <= now
  <2>1. \A d \in departures : d.time \in Nat
    BY DEF IInv, TypeOK
  <2> QED
    BY <1>4, <2>1, StartIsNext
<1>6. /\ Tasks' = Tasks /\ Shared' = Shared /\ Resources' = Resources
      /\ Unfinished' = Unfinished /\ \A c : Task(c)' = Task(c)
      /\ ready \in SUBSET (Nat \X Tasks)
      /\ start \in [Tasks -> Nat \cup {NotYet}]
      /\ active \in [Resources \cap Shared -> FlowsOf(Tasks)]
      /\ \A c \in Tasks : Task(c).res \in Resources
  BY <1>4, Static, GraphTyping DEF IInv, TypeOK, Unfinished
<1>7. /\ active' \in [Resources \cap Shared -> FlowsOf(Tasks)]
      /\ \A q \in Resources \cap Shared : DOMAIN active'[q] \in SUBSET On(q)
      /\ last' \in [Resources \cap Shared -> Nat]
      /\ epoch' \in [Resources \cap Shared -> Nat]
      /\ busy' \in [Resources -> Nat]
      /\ departures' \in SUBSET [time : Nat, res : Resources \cap Shared, epoch : Nat]
      /\ Clocks'
  <2>1. ready' \in SUBSET (Nat \X Tasks) /\ \A y \in ready' : now <= y[1]
    BY <1>4, <1>5, <1>6
  <2>2. \A e \in departures \ departures : e.res = r
    OBVIOUS
  <2> QED
    BY <1>4, <1>5, <2>1, <2>2, FlowsChange
<1>8. /\ start' \in [Tasks -> Nat \cup {NotYet}]
      /\ start'[k] = now /\ now # NotYet
      /\ \A c \in Tasks : c # k => start'[c] = start[c]
  BY <1>4, <1>5, <1>6 DEF NotYet
<1>9. TypeOK'
  <2>1. ready' \in SUBSET (Nat \X Tasks)
    BY <1>4, <1>6
  <2> QED
    BY <1>4, <1>7, <1>8, <2>1, Static DEF IInv, TypeOK
<1>10. /\ \A q \in Resources \cap Shared : q # r => active'[q] = active[q]
       /\ DOMAIN active'[r] = S
  BY <1>4, <1>6
<1>11. ASSUME NEW c \in Tasks
       PROVE  /\ missing'[c] = Cardinality(Task(c).deps \cap Unfinished')
              /\ c \notin Unfinished' => missing'[c] = 0 /\ start'[c] # NotYet
              /\ c \in Unfinished' /\ start'[c] # NotYet =>
                   Task(c).res \in Shared /\ c \in DOMAIN active'[Task(c).res]
              /\ c \in Unfinished' /\ start'[c] = NotYet /\ missing'[c] = 0 =>
                   <<readyAt'[c], c>> \in ready'
  <2>1. /\ missing[c] = Cardinality(Task(c).deps \cap Unfinished)
        /\ c \notin Unfinished => missing[c] = 0 /\ start[c] # NotYet
        /\ c \in Unfinished /\ start[c] # NotYet =>
             Task(c).res \in Shared /\ c \in DOMAIN active[Task(c).res]
        /\ c \in Unfinished /\ start[c] = NotYet /\ missing[c] = 0 =>
             <<readyAt[c], c>> \in ready
    BY DEF IInv, Counts
  <2>2. CASE c = k
    BY <1>4, <1>5, <1>6, <1>8, <1>10, <2>1, <2>2
  <2>3. CASE c # k
    <3>1. start'[c] = start[c]
      BY <1>8, <2>3
    <3>2. DOMAIN active[Task(c).res] \subseteq DOMAIN active'[Task(c).res]
            \/ Task(c).res \notin Shared
      BY <1>4, <1>6, <1>10
    <3>3. <<readyAt[c], c>> # x
      BY <1>5, <2>3
    <3> QED
      BY <1>4, <1>6, <2>1, <3>1, <3>2, <3>3
  <2> QED
    BY <2>2, <2>3
<1>12. ASSUME NEW y \in ready'
       PROVE  /\ y[2] \in Unfinished' /\ start'[y[2]] = NotYet
              /\ missing'[y[2]] = 0 /\ y[1] = readyAt'[y[2]]
  <2>1. /\ y \in ready /\ y # x /\ y = <<y[1], y[2]>> /\ y[2] \in Tasks
        /\ y[2] \in Unfinished /\ start[y[2]] = NotYet
        /\ missing[y[2]] = 0 /\ y[1] = readyAt[y[2]]
    BY <1>4, <1>6 DEF IInv, Counts
  <2>2. y[2] # k
    BY <1>5, <2>1
  <2> QED
    BY <1>4, <1>6, <1>8, <2>1, <2>2
<1>13. ASSUME NEW q \in Resources \cap Shared, NEW j \in DOMAIN active'[q]
       PROVE  j \in Unfinished' /\ missing'[j] = 0 /\ start'[j] # NotYet
  <2>1. j = k \/ j \in DOMAIN active[q]
    BY <1>4, <1>10
  <2>2. j \in DOMAIN active[q] => j \in Unfinished /\ missing[j] = 0 /\ start[j] # NotYet
    BY DEF IInv, Counts
  <2>3. j \in Unfinished /\ j \in Tasks
    BY <1>5, <2>1, <2>2 DEF Unfinished
  <2> QED
    BY <1>4, <1>5, <1>6, <1>8, <2>1, <2>2, <2>3
<1>14. Counts'
  BY <1>6, <1>11, <1>12, <1>13 DEF Counts
<1>15. ReadyTimes' /\ Knots' /\ Outcomes'
  <2>1. ReadyTimes'
    BY <1>4, <1>6 DEF IInv, ReadyTimes
  <2>2. Knots'
    BY <1>6 DEF IInv, Knots
  <2>3. Outcomes'
    BY <1>4 DEF StartsNext, Outcomes
  <2> QED
    BY <2>1, <2>2, <2>3
<1> QED
  BY <1>7, <1>9, <1>14, <1>15 DEF IInv

\* A start on the server i of a FIFO resource, until `end`.
FifoAs(x, r, i, st) ==
  /\ StartsNext /\ x \in NextReady
  /\ r = Task(x[2]).res /\ r \in Resources \ Shared
  /\ i \in DOMAIN slots[r] /\ i \in FreeServer(r)
  /\ st \in Nat /\ x[1] <= st /\ slots[r][i] <= st /\ st \in {x[1], slots[r][i]}
  /\ slots' = [slots EXCEPT ![r][i] = st + Task(x[2]).dur]
  /\ start' = [start EXCEPT ![x[2]] = st]
  /\ busy' = [busy EXCEPT ![r] = @ + Task(x[2]).dur]
  /\ Release({x[2]}, st + Task(x[2]).dur, ready \ {x})
  /\ UNCHANGED <<graph, departures, active, last, epoch, outcome>>

LEMMA StartFifoOf ==
  ASSUME IInv, StartFifo
  PROVE  \E x \in NextReady : \E r \in Resources \ Shared :
           \E i \in DOMAIN slots[r] : \E st \in Nat : FifoAs(x, r, i, st)
<1>1. PICK x \in NextReady :
        LET k == x[2]
            r == Task(k).res
        IN /\ r \notin Shared
           /\ \E i \in FreeServer(r) :
                LET st == Max({x[1], slots[r][i]}) IN
                /\ slots' = [slots EXCEPT ![r][i] = st + Task(k).dur]
                /\ start' = [start EXCEPT ![k] = st]
                /\ busy' = [busy EXCEPT ![r] = @ + Task(k).dur]
                /\ Release({k}, st + Task(k).dur, ready \ {x})
  BY DEF StartFifo
<1> DEFINE k == x[2]
           r == Task(k).res
<1>2. PICK i \in FreeServer(r) :
        LET st == Max({x[1], slots[r][i]}) IN
        /\ slots' = [slots EXCEPT ![r][i] = st + Task(k).dur]
        /\ start' = [start EXCEPT ![k] = st]
        /\ busy' = [busy EXCEPT ![r] = @ + Task(k).dur]
        /\ Release({k}, st + Task(k).dur, ready \ {x})
  BY <1>1
<1> DEFINE st == Max({x[1], slots[r][i]})
<1>3. StartsNext /\ UNCHANGED <<graph, departures, active, last, epoch, outcome>>
  BY DEF StartFifo
<1>4. x[1] \in Nat /\ k \in Tasks
  BY <1>3, StartIsNext
<1>5. r \in Resources \ Shared
  BY <1>1, <1>4, GraphTyping DEF IInv, TypeOK
<1>6. i \in DOMAIN slots[r]
  BY DEF FreeServer
<1>7. slots[r][i] \in Nat
  BY <1>5, <1>6 DEF IInv, TypeOK, SlotsOf
<1>8. st \in Nat /\ x[1] <= st /\ slots[r][i] <= st /\ st \in {x[1], slots[r][i]}
  <2> DEFINE a == x[1]
             b == slots[r][i]
  <2>1. a \in Nat /\ b \in Nat /\ a \in Int /\ b \in Int /\ st = Max({a, b})
    BY <1>4, <1>7
  <2> HIDE DEF a, b, st
  <2>2. st \in {a, b} /\ a <= st /\ b <= st
    BY <2>1, MaxOfTwo
  <2> QED
    BY <2>1, <2>2 DEF a, b
<1>9. /\ slots' = [slots EXCEPT ![r][i] = st + Task(k).dur]
      /\ start' = [start EXCEPT ![k] = st]
      /\ busy' = [busy EXCEPT ![r] = @ + Task(k).dur]
      /\ Release({k}, st + Task(k).dur, ready \ {x})
  BY <1>2
<1> HIDE DEF st
<1>10. FifoAs(x, r, i, st)
  BY <1>3, <1>5, <1>6, <1>8, <1>9 DEF FifoAs
<1> QED
  BY <1>5, <1>6, <1>8, <1>10

LEMMA StartFifoInv ==
  ASSUME IInv, StartFifo
  PROVE  IInv'
<1>1. PICK x \in NextReady, r \in Resources \ Shared :
        \E i \in DOMAIN slots[r] : \E st \in Nat : FifoAs(x, r, i, st)
  BY StartFifoOf
<1>2. PICK i \in DOMAIN slots[r], st \in Nat : FifoAs(x, r, i, st)
  BY <1>1
<1> DEFINE k == x[2]
           ks == {k}
           end == st + Task(k).dur
           pending == ready \ {x}
<1>3. /\ StartsNext /\ r = Task(k).res /\ x[1] <= st
      /\ slots' = [slots EXCEPT ![r][i] = end]
      /\ start' = [start EXCEPT ![k] = st]
      /\ busy' = [busy EXCEPT ![r] = @ + Task(k).dur]
      /\ Release(ks, end, pending)
      /\ UNCHANGED <<graph, departures, active, last, epoch, outcome>>
  BY <1>2 DEF FifoAs
<1>4. /\ x \in ready /\ x[1] \in Nat /\ k \in Tasks /\ x = <<x[1], k>> /\ x[1] = readyAt[k]
      /\ k \in Unfinished /\ start[k] = NotYet /\ missing[k] = 0
      /\ \A y \in ready : x[1] <= y[1]
      /\ \A q \in Resources \cap Shared : last[q] <= x[1]
  BY <1>3, StartIsNext
<1>5. /\ Tasks' = Tasks /\ Shared' = Shared /\ Resources' = Resources
      /\ \A q : SlotsOf(q)' = SlotsOf(q) /\ On(q)' = On(q)
      /\ ready \in SUBSET (Nat \X Tasks)
      /\ start \in [Tasks -> Nat \cup {NotYet}]
      /\ Task(k).dur \in Nat /\ Task(k).res \in Resources
  BY <1>3, <1>4, Static, GraphTyping DEF IInv, TypeOK
<1>6. end \in Nat /\ ks \in SUBSET Unfinished /\ pending \in SUBSET ready
  BY <1>4, <1>5
<1>7. /\ start' \in [Tasks -> Nat \cup {NotYet}]
      /\ \A j \in ks : missing[j] = 0 /\ start'[j] # NotYet
      /\ \A c \in Tasks \ ks : start'[c] = start[c]
  BY <1>3, <1>4, <1>5 DEF NotYet
<1>8. \A y \in ready : y \in pending <=> y[2] \notin ks
  <2> SUFFICES ASSUME NEW y \in ready PROVE y = x <=> y[2] = k
    OBVIOUS
  <2>1. y = <<y[1], y[2]>> /\ y[1] = readyAt[y[2]]
    BY <1>5 DEF IInv, Counts
  <2> QED
    BY <1>4, <2>1
<1>9. \A q \in Resources \cap Shared : DOMAIN active'[q] = DOMAIN active[q] \ ks
  BY <1>3, <1>4 DEF IInv, Counts
<1> HIDE DEF ks, end, pending
<1>10. finish' \in [Tasks -> Nat \cup {NotYet}] /\ missing' \in [Tasks -> Nat]
  BY <1>3, <1>6, ReleasedCounts
<1>11. /\ readyAt' \in [Tasks -> Nat] /\ ready' \in SUBSET (Nat \X Tasks) /\ ReadyTimes'
       /\ ready' = pending \cup {<<readyAt'[c], c>> : c \in Freed}
       /\ \A c \in Freed : end <= readyAt'[c]
  BY <1>3, <1>6, ReleasedTimes
<1>12. Counts' /\ Knots'
  BY <1>3, <1>6, <1>7, <1>8, <1>9, CountsRelease
<1>13. \A y \in ready' : x[1] <= y[1]
  <2> SUFFICES ASSUME NEW y \in ready' PROVE x[1] <= y[1]
    OBVIOUS
  <2>1. CASE y \in pending
    BY <1>4, <2>1 DEF pending
  <2>2. CASE y \notin pending
    <3>1. PICK c \in Freed : y = <<readyAt'[c], c>>
      BY <1>11, <2>2
    <3>2. y[1] = readyAt'[c] /\ c \in Tasks /\ end <= readyAt'[c]
      BY <1>11, <3>1 DEF Freed
    <3>3. x[1] <= end
      BY <1>3, <1>4, <1>5 DEF end
    <3> QED
      BY <1>4, <1>6, <1>11, <3>2, <3>3
  <2> QED
    BY <2>1, <2>2
<1>14. slots' \in [Resources \ Shared -> UNION {SlotsOf(q) : q \in Resources \ Shared}]
         /\ \A q \in Resources \ Shared : slots'[q] \in SlotsOf(q)
  <2>1. /\ slots \in [Resources \ Shared -> UNION {SlotsOf(q) : q \in Resources \ Shared}]
        /\ \A q \in Resources \ Shared : slots[q] \in SlotsOf(q)
    BY DEF IInv, TypeOK
  <2>2. slots' = [slots EXCEPT ![r] = [slots[r] EXCEPT ![i] = end]]
    BY <1>3
  <2>3. [slots[r] EXCEPT ![i] = end] \in SlotsOf(r)
    BY <1>6, <2>1 DEF SlotsOf
  <2>4. \A q \in Resources \ Shared : slots'[q] \in SlotsOf(q)
    BY <2>1, <2>2, <2>3
  <2> QED
    BY <2>1, <2>2, <2>4
<1>15. busy' \in [Resources -> Nat]
  BY <1>3, <1>5 DEF IInv, TypeOK
<1>16. TypeOK'
  BY <1>3, <1>5, <1>7, <1>10, <1>11, <1>14, <1>15 DEF IInv, TypeOK
<1>17. Clocks'
  <2>1. \A d : Stale(d)' = Stale(d)
    BY <1>3 DEF Stale
  <2>2. \A q \in Resources \cap Shared : \A y \in ready' : last[q] <= y[1]
    <3> SUFFICES ASSUME NEW q \in Resources \cap Shared, NEW y \in ready'
                 PROVE  last[q] <= y[1]
      OBVIOUS
    <3>1. last[q] <= x[1] /\ x[1] <= y[1] /\ last[q] \in Nat /\ y[1] \in Nat
      BY <1>4, <1>11, <1>13 DEF IInv, TypeOK
    <3> QED
      BY <1>4, <3>1
  <2> QED
    BY <1>3, <1>5, <2>1, <2>2 DEF IInv, Clocks
<1>18. Outcomes'
  BY <1>3 DEF StartsNext, Outcomes
<1> QED
  BY <1>11, <1>12, <1>16, <1>17, <1>18 DEF IInv

LEMMA SkipStaleInv ==
  ASSUME IInv, SkipStale
  PROVE  IInv'
<1>1. PICK d \in departures : Stale(d) /\ departures' = departures \ {d}
  BY DEF SkipStale, NextDepartures
<1>2. /\ UNCHANGED <<graph, missing, readyAt, ready, slots, active, last, epoch,
                     start, finish, busy, outcome>>
      /\ outcome = "running"
  BY DEF SkipStale
<1>3. /\ Tasks' = Tasks /\ Shared' = Shared /\ Resources' = Resources
      /\ Unfinished' = Unfinished /\ \A c : Task(c)' = Task(c)
      /\ \A q : SlotsOf(q)' = SlotsOf(q) /\ On(q)' = On(q)
      /\ \A e : Stale(e)' = Stale(e)
  BY <1>2, Static DEF Unfinished, Tasks, Stale
<1>4. TypeOK'
  BY <1>1, <1>2, <1>3 DEF IInv, TypeOK
<1>5. Counts'
  BY <1>2, <1>3 DEF IInv, Counts
<1>6. ReadyTimes' /\ Knots' /\ Outcomes'
  BY <1>2, <1>3 DEF IInv, ReadyTimes, Knots, Outcomes
<1>7. Clocks'
  <2>1. ASSUME NEW r \in Resources \cap Shared, DOMAIN active[r] # {}
        PROVE  \E e \in departures' : e.res = r /\ e.epoch = epoch[r]
    <3>1. PICK e \in departures : e.res = r /\ e.epoch = epoch[r]
      BY <2>1 DEF IInv, Clocks
    <3>2. e # d
      BY <1>1, <2>1, <3>1 DEF Stale
    <3> QED
      BY <1>1, <3>1, <3>2
  <2>2. \A e \in departures' :
          /\ e.epoch <= epoch[e.res]
          /\ ~Stale(e) =>
               \A k \in DOMAIN active[e.res] :
                 (e.time - last[e.res]) * Fine
                    <= active[e.res][k] * Cardinality(DOMAIN active[e.res]) + Fine \div 2
    BY <1>1 DEF IInv, Clocks
  <2>3. \A r \in Resources \cap Shared :
          /\ \A x \in ready : last[r] <= x[1]
          /\ \A e \in departures' : ~Stale(e) => last[r] <= e.time
    BY <1>1 DEF IInv, Clocks
  <2> QED
    BY <1>2, <1>3, <2>1, <2>2, <2>3 DEF Clocks
<1> QED
  BY <1>4, <1>5, <1>6, <1>7 DEF IInv

LEMMA StillInv ==
  ASSUME IInv, Return \/ RaiseCycle \/ UNCHANGED vars
  PROVE  IInv'
<1>1. UNCHANGED <<graph, missing, readyAt, ready, departures, slots, active, last, epoch,
                  start, finish, busy>>
  BY DEF Return, RaiseCycle, vars
<1>2. /\ Tasks' = Tasks /\ Shared' = Shared /\ Resources' = Resources
      /\ Unfinished' = Unfinished /\ \A c : Task(c)' = Task(c)
      /\ \A q : SlotsOf(q)' = SlotsOf(q) /\ On(q)' = On(q)
      /\ \A e : Stale(e)' = Stale(e)
  BY <1>1, Static DEF Unfinished, Tasks, Stale
<1>3. outcome' \in {"running", "done", "cycle"} /\ Outcomes'
  <2>1. CASE Return
    BY <1>1, <1>2, <2>1 DEF Return, Outcomes
  <2>2. CASE RaiseCycle
    BY <1>1, <1>2, <2>2 DEF RaiseCycle, Outcomes
  <2>3. CASE UNCHANGED vars
    BY <1>1, <1>2, <2>3 DEF vars, IInv, TypeOK, Outcomes
  <2> QED
    BY <2>1, <2>2, <2>3
<1>4. TypeOK'
  BY <1>1, <1>2, <1>3 DEF IInv, TypeOK
<1>5. Counts'
  BY <1>1, <1>2 DEF IInv, Counts
<1>6. ReadyTimes' /\ Knots'
  BY <1>1, <1>2 DEF IInv, ReadyTimes, Knots
<1>7. Clocks'
  BY <1>1, <1>2 DEF IInv, Clocks
<1> QED
  BY <1>3, <1>4, <1>5, <1>6, <1>7 DEF IInv

LEMMA NextInv == IInv /\ [Next]_vars => IInv'
BY DepartInv, StartSharedInv, StartFifoInv, SkipStaleInv, StillInv DEF Next, Over

LEMMA Invariance == Spec => []IInv
BY InitInv, NextInv, PTL DEF Spec

LEMMA RightOutcome == IInv => OutcomeRight
<1> SUFFICES ASSUME IInv PROVE OutcomeRight
  OBVIOUS
<1>1. /\ Tasks \in SUBSET Nat /\ Unfinished \in SUBSET Tasks
      /\ \A k \in Tasks : IsFiniteSet(Task(k).deps) /\ Task(k).res \in Resources
  BY GraphTyping DEF IInv, TypeOK, Unfinished
<1>2. ASSUME outcome = "done" PROVE Acyclic
  <2>1. Unfinished = {}
    BY <1>2 DEF IInv, Outcomes
  <2>2. \A S \in (SUBSET Tasks) \ {{}} : \E k \in S : Task(k).deps \cap S = {}
    BY <2>1 DEF IInv, Knots
  <2> QED
    BY <2>2 DEF Acyclic
<1>3. ASSUME outcome = "cycle" PROVE ~Acyclic
  <2>1. Unfinished # {} /\ departures = {} /\ ready = {}
    BY <1>3 DEF IInv, Outcomes
  <2>2. \A r \in Resources \cap Shared : DOMAIN active[r] = {}
    BY <2>1 DEF IInv, Clocks
  <2>3. ASSUME NEW k \in Unfinished PROVE Task(k).deps \cap Unfinished # {}
    <3>1. k \in Tasks /\ Task(k).res \in Resources
      BY <1>1
    <3>2. missing[k] # 0
      BY <2>1, <2>2, <3>1 DEF IInv, Counts
    <3>3. missing[k] = Cardinality(Task(k).deps \cap Unfinished)
      BY <3>1 DEF IInv, Counts
    <3> QED
      BY <3>2, <3>3, FS_EmptySet
  <2>4. ~(\A S \in (SUBSET Tasks) \ {{}} : \E k \in S : Task(k).deps \cap S = {})
    <3>1. Unfinished \in (SUBSET Tasks) \ {{}}
      BY <1>1, <2>1
    <3> QED
      BY <2>3, <3>1
  <2>5. ~(\A k \in Tasks : \A d \in Task(k).deps : d < k)
    <3>1. PICK k \in Unfinished : \A j \in Unfinished : k <= j
      BY <1>1, <2>1, LeastElement
    <3>2. PICK d \in Task(k).deps : d \in Unfinished
      BY <2>3
    <3>3. k <= d /\ k \in Nat /\ d \in Nat
      BY <1>1, <3>1, <3>2
    <3>4. ~(d < k)
      BY <3>3
    <3> QED
      BY <1>1, <3>2, <3>4
  <2> QED
    BY <2>4, <2>5 DEF Acyclic
<1> QED
  BY <1>2, <1>3 DEF OutcomeRight

\* schedule() returns only for a graph without cycles, and raises its error only
\* for a graph with one: whatever is left when nothing is runnable waits for
\* itself, through any departures and stale events of shared resources.
THEOREM ErrorMeansCycle == Spec => []OutcomeRight
BY Invariance, RightOutcome, PTL

-----------------------------------------------------------------------------
(***************************************************************************)
(* The servers of the FIFO resources.  An assignment of the tasks to the   *)
(* servers is enough: on one server they do not overlap, a task waits only *)
(* while all servers are at work, and no server has a gap between the next *)
(* event and the time it is free.                                          *)
(***************************************************************************)
Due(x) == \/ \E y \in ready : y[1] <= x
          \/ \E d \in departures : ~Stale(d) /\ d.time <= x

AtWork(at, r, i, x) == \E j \in RunningAt(r, x) : at[j] = i

OnServer(at, r, k) ==
  /\ at[k] \in DOMAIN slots[r]
  /\ readyAt[k] <= start[k]
  /\ finish[k] = start[k] + Task(k).dur
  /\ finish[k] <= slots[r][at[k]]
  /\ \A j \in On(r) \ Unfinished :
       at[j] = at[k] /\ j # k => finish[j] <= start[k] \/ finish[k] <= start[j]
  /\ \A x \in readyAt[k] .. start[k] - 1 : \A i \in DOMAIN slots[r] : AtWork(at, r, i, x)

NoGap(at, r) ==
  \A i \in DOMAIN slots[r] : \A x \in 0 .. slots[r][i] - 1 :
    Due(x) => AtWork(at, r, i, x)

Placed(at) ==
  \A r \in Resources \ Shared :
    /\ \A k \in On(r) \ Unfinished : OnServer(at, r, k)
    /\ NoGap(at, r)

Places == \E at \in [Tasks -> Nat] : Placed(at)

LEMMA PlacesInit == Init => Places
<1> SUFFICES ASSUME Init PROVE Places
  OBVIOUS
<1> DEFINE at == [k \in Tasks |-> 0]
<1>1. Unfinished = Tasks
  BY InitState DEF Unfinished
<1>2. \A r \in Resources \ Shared : On(r) \ Unfinished = {}
  BY <1>1 DEF On
<1>3. ASSUME NEW r \in Resources \ Shared PROVE NoGap(at, r)
  <2>1. slots[r] = [i \in 1 .. Servers(graph, r) |-> 0]
    BY InitState
  <2>2. \A i \in DOMAIN slots[r] : slots[r][i] = 0 /\ 0 .. 0 - 1 = {}
    BY <2>1
  <2> QED
    BY <2>2 DEF NoGap
<1>4. Placed(at)
  <2> HIDE DEF at
  <2> QED
    BY <1>2, <1>3 DEF Placed
<1> QED
  BY <1>4 DEF Places

\* Who is at work at x has ended by the books, and nothing changes that.
LEMMA WorkStays ==
  ASSUME IInv, graph' = graph, NEW r \in Resources \ Shared, NEW x \in Nat, NEW i,
         NEW at, NEW more,
         \A k \in On(r) \ Unfinished : start'[k] = start[k] /\ finish'[k] = finish[k]
                                         /\ more[k] = at[k],
         AtWork(at, r, i, x)
  PROVE  AtWork(more, r, i, x)'
<1>1. PICK j \in RunningAt(r, x) : at[j] = i
  BY DEF AtWork
<1>2. j \in On(r) /\ j \in Tasks /\ start[j] <= x /\ x < finish[j]
  BY <1>1 DEF RunningAt, On
<1>3. j \notin Unfinished
  BY <1>2 DEF Unfinished, NotYet
<1>4. j \in RunningAt(r, x)'
  BY <1>2, <1>3, Static DEF RunningAt
<1> QED
  BY <1>1, <1>2, <1>3, <1>4 DEF AtWork

\* A step that neither starts nor ends a task of a FIFO resource, and after
\* which nothing is due that was not due before.
LEMMA PlacedSame ==
  ASSUME IInv, graph' = graph, slots' = slots, NEW at, Placed(at),
         \A r \in Resources \ Shared : \A k \in On(r) :
           /\ start'[k] = start[k] /\ finish'[k] = finish[k]
           /\ k \notin Unfinished => readyAt'[k] = readyAt[k],
         \A x \in Nat : Due(x)' => Due(x)
  PROVE  Placed(at)'
<1>1. /\ Resources' = Resources /\ Shared' = Shared
      /\ \A r : On(r)' = On(r) /\ \A k : Task(k)' = Task(k)
      /\ Tasks' = Tasks
  BY Static
<1> SUFFICES ASSUME NEW r \in Resources \ Shared
             PROVE  /\ \A k \in On(r) \ Unfinished' : OnServer(at, r, k)'
                    /\ NoGap(at, r)'
  BY <1>1 DEF Placed
<1>2. /\ \A k \in On(r) \ Unfinished : OnServer(at, r, k)
      /\ NoGap(at, r)
  BY DEF Placed
<1>3. /\ On(r) \ Unfinished' = On(r) \ Unfinished
      /\ \A k \in On(r) \ Unfinished : start'[k] = start[k] /\ finish'[k] = finish[k]
                                         /\ at[k] = at[k]
      /\ On(r) \in SUBSET Tasks
  BY <1>1 DEF Unfinished, On
<1>4. ASSUME NEW i, NEW x \in Nat, AtWork(at, r, i, x) PROVE AtWork(at, r, i, x)'
  BY <1>3, <1>4, WorkStays
<1>5. /\ slots[r] \in SlotsOf(r) /\ readyAt \in [Tasks -> Nat]
      /\ start \in [Tasks -> Nat \cup {NotYet}]
  BY DEF IInv, TypeOK
<1>6. ASSUME NEW k \in On(r) \ Unfinished PROVE OnServer(at, r, k)'
  <2>1. OnServer(at, r, k)
    BY <1>2
  <2>2. start'[k] = start[k] /\ finish'[k] = finish[k] /\ readyAt'[k] = readyAt[k]
    OBVIOUS
  <2>3. \A x \in readyAt'[k] .. start'[k] - 1 : x \in Nat
    BY <1>3, <1>5, <2>2
  <2>4. \A x \in readyAt'[k] .. start'[k] - 1 : \A i \in DOMAIN slots'[r] : AtWork(at, r, i, x)'
    BY <1>4, <2>1, <2>2, <2>3 DEF OnServer
  <2>5. \A j \in On(r) \ Unfinished' :
          at[j] = at[k] /\ j # k => finish'[j] <= start'[k] \/ finish'[k] <= start'[j]
    BY <1>3, <2>1, <2>2 DEF OnServer
  <2> QED
    BY <1>1, <2>1, <2>2, <2>4, <2>5 DEF OnServer
<1>7. NoGap(at, r)'
  <2> SUFFICES ASSUME NEW i \in DOMAIN slots[r], NEW x \in 0 .. slots[r][i] - 1, Due(x)'
               PROVE  AtWork(at, r, i, x)'
    BY DEF NoGap
  <2>1. x \in Nat
    OBVIOUS
  <2>2. AtWork(at, r, i, x)
    BY <1>2, <2>1 DEF NoGap
  <2> QED
    BY <1>4, <2>1, <2>2
<1> QED
  BY <1>3, <1>6, <1>7

\* What comes after an event of a shared resource is not before it.
LEMMA LaterThan ==
  ASSUME IInv', graph' = graph, NEW r \in Resources \cap Shared, NEW x \in Nat, Due(x)'
  PROVE  last'[r] <= x
<1>1. Resources' = Resources /\ Shared' = Shared
  BY Static
<1>2. /\ last'[r] \in Nat
      /\ \A y \in ready' : y[1] \in Nat
      /\ \A d \in departures' : d.time \in Nat
  BY <1>1 DEF IInv, TypeOK
<1>3. /\ \A y \in ready' : last'[r] <= y[1]
      /\ \A d \in departures' : ~Stale(d)' => last'[r] <= d.time
  BY <1>1 DEF IInv, Clocks
<1>4. \/ \E y \in ready' : y[1] <= x
      \/ \E d \in departures' : ~Stale(d)' /\ d.time <= x
  BY DEF Due
<1> QED
  BY <1>2, <1>3, <1>4

\* The tasks of one resource are not on another one.
LEMMA Elsewhere ==
  ASSUME IInv, NEW r \in Resources \cap Shared, NEW q \in Resources \ Shared
  PROVE  On(r) \cap On(q) = {}
BY DEF On

LEMMA PlacesDepart ==
  ASSUME IInv, IInv', Depart, Places
  PROVE  Places'
<1>a. PICK d \in departures :
        \E gone \in SUBSET DOMAIN active[d.res] :
          \E stay \in [DOMAIN active[d.res] \ gone -> Nat] : DepartsAs(d, gone, stay)
  BY DepartOf
<1>b. PICK gone \in SUBSET DOMAIN active[d.res] :
        \E stay \in [DOMAIN active[d.res] \ gone -> Nat] : DepartsAs(d, gone, stay)
  BY <1>a
<1>c. PICK stay \in [DOMAIN active[d.res] \ gone -> Nat] : DepartsAs(d, gone, stay)
  BY <1>b
<1> DEFINE r == d.res
<1>1. /\ d \in NextDepartures /\ ~Stale(d) /\ DepartsFirst(d)
      /\ last' = [last EXCEPT ![r] = d.time]
      /\ Release(gone, d.time, ready)
      /\ UNCHANGED <<graph, slots, start>>
  BY <1>c DEF DepartsAs
<1>2. d.time \in Nat /\ r \in Resources \cap Shared
  BY <1>1, DepartureIsNext
<1>3. gone \in SUBSET Unfinished /\ gone \in SUBSET On(r)
  BY <1>b, <1>2 DEF IInv, Counts, TypeOK
<1>4. /\ \A k \in Tasks : finish'[k] = IF k \in gone THEN d.time ELSE finish[k]
      /\ \A c \in Tasks : missing[c] = 0 => readyAt'[c] = readyAt[c]
  <2>1. ready \in SUBSET ready /\ graph' = graph
    BY <1>1
  <2>2. \A k \in Tasks : finish'[k] = IF k \in gone THEN d.time ELSE finish[k]
    BY <1>1 DEF Release
  <2>3. \A c \in Tasks : missing[c] = 0 => readyAt'[c] = readyAt[c]
    BY <1>1, <1>2, <1>3, <2>1, ReleasedTimes
  <2> QED
    BY <2>2, <2>3
<1>5. ASSUME NEW q \in Resources \ Shared, NEW k \in On(q)
      PROVE  /\ start'[k] = start[k] /\ finish'[k] = finish[k]
             /\ k \notin Unfinished => readyAt'[k] = readyAt[k]
  <2>1. k \in Tasks /\ k \notin gone
    BY <1>2, <1>3, Elsewhere DEF On
  <2>2. k \notin Unfinished => missing[k] = 0
    BY <2>1 DEF IInv, Counts
  <2> QED
    BY <1>1, <1>4, <2>1, <2>2
<1>6. \A x \in Nat : Due(x)' => Due(x)
  <2> SUFFICES ASSUME NEW x \in Nat, Due(x)' PROVE Due(x)
    OBVIOUS
  <2>1. last'[r] = d.time
    BY <1>1, <1>2 DEF IInv, TypeOK
  <2>2. d.time <= x
    BY <1>1, <1>2, <2>1, LaterThan
  <2> QED
    BY <1>1, <2>2 DEF Due
<1>7. PICK at \in [Tasks -> Nat] : Placed(at)
  BY DEF Places
<1>8. Placed(at)'
  BY <1>1, <1>5, <1>6, <1>7, PlacedSame
<1> QED
  BY <1>1, <1>7, <1>8, Static DEF Places

LEMMA PlacesShared ==
  ASSUME IInv, IInv', StartShared, Places
  PROVE  Places'
<1>1. PICK x \in NextReady, r \in Resources \cap Shared :
        \E S \in SUBSET On(r) : \E flows \in [S -> Nat] : SharesAs(x, r, S, flows)
  BY StartSharedOf
<1>2. /\ StartsNext /\ r = Task(x[2]).res
      /\ last' = [last EXCEPT ![r] = x[1]]
      /\ start' = [start EXCEPT ![x[2]] = x[1]]
      /\ UNCHANGED <<graph, readyAt, slots, finish>>
  BY <1>1 DEF SharesAs
<1>3. x \in ready /\ x[1] \in Nat /\ x[2] \in Tasks
  BY <1>2, StartIsNext
<1>4. ASSUME NEW q \in Resources \ Shared, NEW k \in On(q)
      PROVE  /\ start'[k] = start[k] /\ finish'[k] = finish[k]
             /\ k \notin Unfinished => readyAt'[k] = readyAt[k]
  <2>1. k \in Tasks /\ k # x[2]
    BY <1>2 DEF On
  <2> QED
    BY <1>2, <2>1 DEF IInv, TypeOK
<1>5. \A t \in Nat : Due(t)' => Due(t)
  <2> SUFFICES ASSUME NEW t \in Nat, Due(t)' PROVE Due(t)
    OBVIOUS
  <2>1. last'[r] = x[1]
    BY <1>2 DEF IInv, TypeOK
  <2>2. x[1] <= t
    BY <1>2, <2>1, LaterThan
  <2> QED
    BY <1>3, <2>2 DEF Due
<1>6. PICK at \in [Tasks -> Nat] : Placed(at)
  BY DEF Places
<1>7. Placed(at)'
  BY <1>2, <1>4, <1>5, <1>6, PlacedSame
<1> QED
  BY <1>2, <1>6, <1>7, Static DEF Places

LEMMA PlacesStill ==
  ASSUME IInv, SkipStale \/ Return \/ RaiseCycle \/ UNCHANGED vars, Places
  PROVE  Places'
<1>1. /\ UNCHANGED <<graph, readyAt, ready, slots, active, epoch, start, finish>>
      /\ departures' \in SUBSET departures
  BY DEF SkipStale, Return, RaiseCycle, vars
<1>2. \A d : Stale(d)' = Stale(d)
  BY <1>1 DEF Stale
<1>3. \A x \in Nat : Due(x)' => Due(x)
  BY <1>1, <1>2 DEF Due
<1>4. PICK at \in [Tasks -> Nat] : Placed(at)
  BY DEF Places
<1>5. Placed(at)'
  BY <1>1, <1>3, <1>4, PlacedSame
<1> QED
  BY <1>1, <1>4, <1>5, Static DEF Places

\* What a start on a FIFO server changes.
LEMMA FifoFacts ==
  ASSUME IInv, NEW x \in NextReady, NEW r \in Resources \ Shared,
         NEW i \in DOMAIN slots[r], NEW st \in Nat, FifoAs(x, r, i, st)
  PROVE  /\ x[2] \in Tasks /\ x[2] \in Unfinished /\ x[2] \in On(r)
         /\ Task(x[2]).dur \in Nat /\ x[1] = readyAt[x[2]]
         /\ finish'[x[2]] = st + Task(x[2]).dur /\ start'[x[2]] = st
         /\ \A c \in Tasks : c # x[2] => finish'[c] = finish[c] /\ start'[c] = start[c]
         /\ Unfinished' = Unfinished \ {x[2]}
         /\ \A c \in Tasks : missing[c] = 0 => readyAt'[c] = readyAt[c]
         /\ slots[r] \in [DOMAIN slots[r] -> Nat]
         /\ slots'[r] = [slots[r] EXCEPT ![i] = st + Task(x[2]).dur]
         /\ \A q \in Resources \ Shared : q # r => slots'[q] = slots[q]
         /\ \A y \in ready' :
              \/ y \in ready \ {x}
              \/ \E c \in Tasks : /\ y = <<readyAt'[c], c>> /\ x[2] \in Task(c).deps
                                  /\ x[1] <= readyAt'[c] /\ readyAt'[c] \in Nat
                                  /\ st + Task(x[2]).dur <= readyAt'[c]
         /\ \A t \in Nat : Due(t)' => x[1] <= t /\ Due(t)
<1> DEFINE k == x[2]
           ks == {k}
           end == st + Task(k).dur
           pending == ready \ {x}
<1>1. /\ StartsNext /\ r = Task(k).res /\ x[1] <= st
      /\ slots' = [slots EXCEPT ![r][i] = end]
      /\ start' = [start EXCEPT ![k] = st]
      /\ Release(ks, end, pending)
      /\ UNCHANGED <<graph, departures, active, last, epoch, outcome>>
  BY DEF FifoAs
<1>2. /\ x \in ready /\ x[1] \in Nat /\ k \in Tasks /\ x[1] = readyAt[k]
      /\ k \in Unfinished
      /\ \A y \in ready : x[1] <= y[1]
      /\ \A d \in departures : x[1] < d.time /\ d.time \in Nat
  <2>1. \A d \in departures : d.time \in Nat
    BY DEF IInv, TypeOK
  <2> QED
    BY <1>1, <2>1, StartIsNext
<1>3. /\ Task(k).dur \in Nat /\ k \in On(r)
      /\ start \in [Tasks -> Nat \cup {NotYet}]
      /\ slots \in [Resources \ Shared -> UNION {SlotsOf(q) : q \in Resources \ Shared}]
      /\ slots[r] \in [DOMAIN slots[r] -> Nat]
      /\ ready \in SUBSET (Nat \X Tasks)
  BY <1>1, <1>2, GraphTyping DEF IInv, TypeOK, SlotsOf
<1>4. end \in Nat /\ ks \in SUBSET Unfinished /\ pending \in SUBSET ready
  BY <1>2, <1>3
<1>5. /\ slots'[r] = [slots[r] EXCEPT ![i] = end]
      /\ \A q \in Resources \ Shared : q # r => slots'[q] = slots[q]
  BY <1>1, <1>3
<1>6. start'[k] = st /\ \A c \in Tasks : c # k => start'[c] = start[c]
  BY <1>1, <1>2, <1>3
<1>7. finish' = [c \in Tasks |-> IF c \in ks THEN end ELSE finish[c]]
  BY <1>1 DEF Release
<1>8. finish'[k] = end /\ \A c \in Tasks : c # k => finish'[c] = finish[c]
  BY <1>2, <1>7
<1> HIDE DEF ks, end, pending
<1>9. Unfinished' = Unfinished \ ks
  BY <1>1, <1>4, ReleasedCounts
<1>10. /\ readyAt' \in [Tasks -> Nat]
       /\ \A c \in Tasks : missing[c] = 0 => readyAt'[c] = readyAt[c]
       /\ \A c \in Freed : end <= readyAt'[c] /\ Task(c).deps \cap ks # {}
       /\ ready' = pending \cup {<<readyAt'[c], c>> : c \in Freed}
  BY <1>1, <1>4, ReleasedTimes
<1>11. x[1] <= end
  BY <1>1, <1>2, <1>3 DEF end
<1>12. \A y \in ready' :
         \/ y \in ready \ {x}
         \/ \E c \in Tasks : /\ y = <<readyAt'[c], c>> /\ k \in Task(c).deps
                             /\ x[1] <= readyAt'[c] /\ readyAt'[c] \in Nat
                             /\ end <= readyAt'[c]
  <2> SUFFICES ASSUME NEW y \in ready', y \notin pending
               PROVE  \E c \in Tasks : /\ y = <<readyAt'[c], c>> /\ k \in Task(c).deps
                                       /\ x[1] <= readyAt'[c] /\ readyAt'[c] \in Nat
                                       /\ end <= readyAt'[c]
    BY DEF pending
  <2>1. PICK c \in Freed : y = <<readyAt'[c], c>>
    BY <1>10
  <2>2. c \in Tasks /\ readyAt'[c] \in Nat /\ end <= readyAt'[c] /\ k \in Task(c).deps
    BY <1>10 DEF Freed, ks
  <2>3. x[1] <= readyAt'[c]
    BY <1>2, <1>4, <1>11, <2>2
  <2> QED
    BY <2>1, <2>2, <2>3
<1>13. \A y \in ready' : x[1] <= y[1] /\ y[1] \in Nat
  <2> SUFFICES ASSUME NEW y \in ready' PROVE x[1] <= y[1] /\ y[1] \in Nat
    OBVIOUS
  <2>1. CASE y \in ready \ {x}
    BY <1>2, <1>3, <2>1
  <2>2. CASE \E c \in Tasks : /\ y = <<readyAt'[c], c>> /\ k \in Task(c).deps
                              /\ x[1] <= readyAt'[c] /\ readyAt'[c] \in Nat
                              /\ end <= readyAt'[c]
    BY <2>2
  <2> QED
    BY <1>12, <2>1, <2>2
<1>14. ASSUME NEW t \in Nat, Due(t)' PROVE x[1] <= t /\ Due(t)
  <2>1. CASE \E y \in ready' : y[1] <= t
    <3>1. x[1] <= t
      BY <1>2, <1>13, <2>1
    <3> QED
      BY <1>2, <3>1 DEF Due
  <2>2. CASE \E d \in departures' : ~Stale(d)' /\ d.time <= t
    <3>1. x[1] <= t
      BY <1>1, <1>2, <2>2
    <3> QED
      BY <1>2, <3>1 DEF Due
  <2> QED
    BY <1>14, <2>1, <2>2 DEF Due
<1> QED
  BY <1>2, <1>3, <1>5, <1>6, <1>8, <1>9, <1>10, <1>12, <1>14 DEF ks, end

LEMMA PlacesFifo ==
  ASSUME IInv, StartFifo, Places
  PROVE  Places'
<1>a. PICK x \in NextReady, r \in Resources \ Shared :
        \E i \in DOMAIN slots[r] : \E st \in Nat : FifoAs(x, r, i, st)
  BY StartFifoOf
<1>b. PICK i \in DOMAIN slots[r], st \in Nat : FifoAs(x, r, i, st)
  BY <1>a
<1>c. PICK at \in [Tasks -> Nat] : Placed(at)
  BY DEF Places
<1> DEFINE k == x[2]
           more == [at EXCEPT ![k] = i]
           end == st + Task(k).dur
<1>1. /\ StartsNext /\ x \in ready /\ x[1] \in Nat
      /\ x[1] <= st /\ slots[r][i] <= st /\ st \in {x[1], slots[r][i]}
      /\ i \in FreeServer(r) /\ graph' = graph
  BY <1>b, StartIsNext DEF FifoAs
<1>2. /\ k \in Tasks /\ k \in Unfinished /\ k \in On(r)
      /\ Task(k).dur \in Nat /\ x[1] = readyAt[k]
      /\ finish'[k] = end /\ start'[k] = st
      /\ \A c \in Tasks : c # k => finish'[c] = finish[c] /\ start'[c] = start[c]
      /\ Unfinished' = Unfinished \ {k}
      /\ \A c \in Tasks : missing[c] = 0 => readyAt'[c] = readyAt[c]
      /\ slots[r] \in [DOMAIN slots[r] -> Nat]
      /\ slots'[r] = [slots[r] EXCEPT ![i] = end]
      /\ \A q \in Resources \ Shared : q # r => slots'[q] = slots[q]
      /\ \A t \in Nat : Due(t)' => x[1] <= t /\ Due(t)
  BY <1>b, FifoFacts
<1>3. /\ Tasks' = Tasks /\ Resources' = Resources /\ Shared' = Shared
      /\ \A q : On(q)' = On(q) /\ On(q) \in SUBSET Tasks
      /\ \A c : Task(c)' = Task(c)
      /\ start \in [Tasks -> Nat \cup {NotYet}] /\ finish \in [Tasks -> Nat \cup {NotYet}]
      /\ readyAt \in [Tasks -> Nat]
      /\ \A q \in Resources \ Shared : slots[q] \in SlotsOf(q)
  BY <1>1, Static, GraphTyping DEF IInv, TypeOK
<1>4. \A c \in Tasks \ Unfinished : /\ c # k /\ missing[c] = 0 /\ more[c] = at[c]
                                    /\ start'[c] = start[c] /\ finish'[c] = finish[c]
                                    /\ readyAt'[c] = readyAt[c]
  BY <1>2 DEF IInv, Counts
<1>5. more \in [Tasks -> Nat] /\ more[k] = i
  <2>1. DOMAIN slots[r] = 1 .. Servers(graph, r) /\ Servers(graph, r) \in Nat
    BY <1>3, GraphTyping DEF SlotsOf, IInv, TypeOK
  <2>2. i \in Nat
    BY <2>1
  <2> QED
    BY <1>2, <2>2
<1>6. st \in Nat /\ end \in Nat /\ st <= end
  BY <1>2
<1> HIDE DEF more, end
<1>7. ASSUME NEW q \in Resources \ Shared, NEW j, NEW t \in Nat, AtWork(at, q, j, t)
      PROVE  AtWork(more, q, j, t)'
  <2>1. \A c \in On(q) \ Unfinished : start'[c] = start[c] /\ finish'[c] = finish[c]
                                        /\ more[c] = at[c]
    BY <1>3, <1>4
  <2> QED
    BY <1>1, <1>7, <2>1, WorkStays
<1>8. ASSUME NEW q \in Resources \ Shared, NEW c \in On(q) \ Unfinished
      PROVE  /\ more[c] = at[c] /\ at[c] \in DOMAIN slots[q] /\ finish'[c] = finish[c]
             /\ start'[c] = start[c] /\ readyAt'[c] = readyAt[c]
             /\ readyAt[c] <= start[c] /\ finish[c] = start[c] + Task(c).dur
             /\ finish[c] <= slots[q][at[c]] /\ finish[c] \in Nat /\ start[c] \in Nat
             /\ \A t \in readyAt'[c] .. start'[c] - 1 : \A j \in DOMAIN slots[q] :
                  AtWork(more, q, j, t)'
  <2>1. OnServer(at, q, c) /\ c \in Tasks
    BY <1>c, <1>3 DEF Placed
  <2>2. more[c] = at[c] /\ start'[c] = start[c] /\ finish'[c] = finish[c]
        /\ readyAt'[c] = readyAt[c]
    BY <1>4, <2>1
  <2>3. finish[c] \in Nat /\ start[c] \in Nat /\ readyAt[c] \in Nat
    <3>1. finish[c] # NotYet /\ start[c] # NotYet
      BY <2>1 DEF IInv, Counts, Unfinished
    <3> QED
      BY <1>3, <2>1, <3>1
  <2>4. \A t \in readyAt'[c] .. start'[c] - 1 : \A j \in DOMAIN slots[q] :
          AtWork(more, q, j, t)'
    <3> SUFFICES ASSUME NEW t \in readyAt'[c] .. start'[c] - 1, NEW j \in DOMAIN slots[q]
                 PROVE  AtWork(more, q, j, t)'
      OBVIOUS
    <3>1. t \in Nat /\ AtWork(at, q, j, t)
      BY <2>1, <2>2, <2>3 DEF OnServer
    <3> QED
      BY <1>7, <3>1
  <2> QED
    BY <2>1, <2>2, <2>3, <2>4 DEF OnServer
\* The resources whose servers are left alone.
<1>9. ASSUME NEW q \in Resources \ Shared, q # r
      PROVE  /\ \A c \in On(q) \ Unfinished' : OnServer(more, q, c)'
             /\ NoGap(more, q)'
  <2>1. On(q) \ Unfinished' = On(q) \ Unfinished /\ slots'[q] = slots[q]
    <3>1. k \notin On(q)
      BY <1>2, <1>9 DEF On
    <3> QED
      BY <1>2, <1>9, <3>1
  <2>2. ASSUME NEW c \in On(q) \ Unfinished PROVE OnServer(more, q, c)'
    <3>1. OnServer(at, q, c)
      BY <1>c DEF Placed
    <3>2. \A j \in On(q) \ Unfinished' :
            more[j] = more[c] /\ j # c => finish'[j] <= start'[c] \/ finish'[c] <= start'[j]
      BY <1>8, <2>1, <3>1 DEF OnServer
    <3> QED
      BY <1>3, <1>8, <2>1, <3>2 DEF OnServer
  <2>3. NoGap(more, q)'
    <3> SUFFICES ASSUME NEW j \in DOMAIN slots[q], NEW t \in 0 .. slots[q][j] - 1, Due(t)'
                 PROVE  AtWork(more, q, j, t)'
      BY <2>1 DEF NoGap
    <3>1. t \in Nat
      OBVIOUS
    <3>2. Due(t)
      BY <1>2, <3>1
    <3>3. AtWork(at, q, j, t)
      BY <1>c, <3>2 DEF Placed, NoGap
    <3> QED
      BY <1>7, <3>1, <3>3
  <2> QED
    BY <2>1, <2>2, <2>3
<1>10. /\ DOMAIN slots'[r] = DOMAIN slots[r] /\ slots'[r][i] = end
       /\ \A j \in DOMAIN slots[r] : j # i => slots'[r][j] = slots[r][j]
       /\ \A j \in DOMAIN slots[r] : /\ slots[r][j] \in Nat /\ slots'[r][j] \in Nat
                                     /\ slots[r][i] <= slots[r][j]
                                     /\ slots[r][j] <= slots'[r][j]
  <2>1. \A j \in DOMAIN slots[r] : slots[r][i] <= slots[r][j] /\ slots[r][j] \in Nat
    BY <1>1, <1>2 DEF FreeServer, Before
  <2> QED
    BY <1>1, <1>2, <1>6, <2>1
<1>11. On(r) \ Unfinished' = (On(r) \ Unfinished) \cup {k}
  BY <1>2
\* The new task follows the last one of its server, and all servers were at
\* work from when it was ready.
<1>13. OnServer(more, r, k)'
  <2>1. readyAt'[k] = x[1]
    BY <1>2, StartIsNext, <1>1
  <2>2. \A j \in On(r) \ Unfinished' :
          more[j] = more[k] /\ j # k => finish'[j] <= start'[k] \/ finish'[k] <= start'[j]
    <3> SUFFICES ASSUME NEW j \in On(r) \ Unfinished, more[j] = i PROVE finish'[j] <= st
      BY <1>2, <1>5, <1>11
    <3>1. finish'[j] <= slots[r][i] /\ finish'[j] \in Nat
      BY <1>8
    <3> QED
      BY <1>1, <1>10, <3>1
  <2>3. \A t \in x[1] .. st - 1 : \A j \in DOMAIN slots[r] : AtWork(more, r, j, t)'
    <3> SUFFICES ASSUME NEW t \in x[1] .. st - 1, NEW j \in DOMAIN slots[r]
                 PROVE  AtWork(more, r, j, t)'
      OBVIOUS
    <3>1. t \in Nat /\ t < slots[r][i] /\ t \in 0 .. slots[r][j] - 1
      BY <1>1, <1>10
    <3>2. Due(t)
      BY <1>1, <3>1 DEF Due
    <3>3. AtWork(at, r, j, t)
      BY <1>c, <3>1, <3>2 DEF Placed, NoGap
    <3> QED
      BY <1>7, <3>1, <3>3
  <2>4. finish'[k] <= slots'[r][more[k]] /\ more[k] \in DOMAIN slots'[r]
    BY <1>2, <1>5, <1>6, <1>10
  <2> QED
    BY <1>1, <1>2, <1>3, <1>10, <2>1, <2>2, <2>3, <2>4 DEF OnServer, end
<1>14. ASSUME NEW c \in On(r) \ Unfinished PROVE OnServer(more, r, c)'
  <2>1. OnServer(at, r, c) /\ c # k
    BY <1>c, <1>2 DEF Placed
  <2>2. ASSUME NEW j \in On(r) \ Unfinished', more[j] = more[c], j # c
        PROVE  finish'[j] <= start'[c] \/ finish'[c] <= start'[j]
    <3>1. CASE j = k
      <4>1. finish'[c] <= slots[r][i] /\ finish'[c] \in Nat
        BY <1>5, <1>8, <2>2, <3>1
      <4> QED
        BY <1>1, <1>2, <1>10, <3>1, <4>1
    <3>2. CASE j # k
      <4>1. j \in On(r) \ Unfinished
        BY <1>11, <3>2
      <4> QED
        BY <1>8, <2>1, <2>2, <4>1 DEF OnServer
    <3> QED
      BY <3>1, <3>2
  <2>3. more[c] \in DOMAIN slots'[r] /\ finish'[c] <= slots'[r][more[c]]
    BY <1>8, <1>10
  <2> QED
    BY <1>3, <1>8, <1>10, <2>2, <2>3 DEF OnServer
<1>15. NoGap(more, r)'
  <2> SUFFICES ASSUME NEW j \in DOMAIN slots[r], NEW t \in 0 .. slots'[r][j] - 1, Due(t)'
               PROVE  AtWork(more, r, j, t)'
    BY <1>10 DEF NoGap
  <2>1. t \in Nat /\ x[1] <= t /\ Due(t)
    BY <1>2
  <2>2. CASE t < slots[r][j]
    <3>1. AtWork(at, r, j, t)
      BY <1>c, <1>10, <2>1, <2>2 DEF Placed, NoGap
    <3> QED
      BY <1>7, <2>1, <3>1
  <2>3. CASE ~(t < slots[r][j])
    <3>1. j = i /\ st <= t /\ t < end
      BY <1>1, <1>6, <1>10, <2>1, <2>3
    <3>2. k \in RunningAt(r, t)'
      BY <1>2, <1>3, <3>1 DEF RunningAt
    <3> QED
      BY <1>5, <3>1, <3>2 DEF AtWork
  <2> QED
    BY <2>2, <2>3
<1>16. Placed(more)'
  <2> SUFFICES ASSUME NEW q \in Resources \ Shared
               PROVE  /\ \A c \in On(q) \ Unfinished' : OnServer(more, q, c)'
                      /\ NoGap(more, q)'
    BY <1>3 DEF Placed
  <2> QED
    BY <1>9, <1>11, <1>13, <1>14, <1>15
<1> QED
  BY <1>3, <1>5, <1>16 DEF Places

LEMMA PlacesNext == IInv /\ IInv' /\ [Next]_vars /\ Places => Places'
BY PlacesDepart, PlacesShared, PlacesFifo, PlacesStill DEF Next, Over

LEMMA PlacesInvariance == Spec => []Places
BY Invariance, PlacesInit, PlacesNext, PTL DEF Spec

\* The ready time of a task whose dependencies have ended.
LEMMA ReadyTimeIs ==
  ASSUME IInv, Unfinished = {}, NEW k \in Tasks
  PROVE  ReadyTime(k) = readyAt[k]
<1> DEFINE V == {0} \cup {finish[d] : d \in Task(k).deps}
           m == readyAt[k]
<1>1. /\ m \in Nat /\ Task(k).deps \in SUBSET Tasks
      /\ finish \in [Tasks -> Nat \cup {NotYet}]
  BY GraphTyping DEF IInv, TypeOK
<1>2. V \in SUBSET Int
  BY <1>1 DEF NotYet
<1>3. /\ \A d \in Task(k).deps : finish[d] <= m
      /\ m = 0 \/ \E d \in Task(k).deps : finish[d] = m
  BY DEF IInv, ReadyTimes
<1>4. m \in V /\ \A y \in V : y <= m
  BY <1>1, <1>3
<1>5. ReadyTime(k) = Max(V)
  BY DEF ReadyTime
<1> HIDE DEF V, m
<1>6. Max(V) = m
  BY <1>2, <1>4, MaxIs
<1> QED
  BY <1>5, <1>6 DEF m

\* The tasks that run at one instant are on different servers.
LEMMA OnePerServer ==
  ASSUME IInv, Unfinished = {}, NEW at, Placed(at), NEW r \in Resources \ Shared,
         NEW x \in Nat
  PROVE  /\ IsFiniteSet(RunningAt(r, x))
         /\ Cardinality(RunningAt(r, x)) <= Servers(graph, r)
         /\ (\A i \in DOMAIN slots[r] : AtWork(at, r, i, x)) =>
              Cardinality(RunningAt(r, x)) = Servers(graph, r)
<1> DEFINE n == Servers(graph, r)
           N == 1 .. n
           S == RunningAt(r, x)
           f == [k \in S |-> at[k]]
<1>1. n \in Nat \ {0} /\ DOMAIN slots[r] = N /\ On(r) \in SUBSET Tasks
  BY GraphTyping DEF IInv, TypeOK, SlotsOf
<1>2. ASSUME NEW k \in S
      PROVE  /\ k \in On(r) \ Unfinished /\ OnServer(at, r, k)
             /\ start[k] <= x /\ x < finish[k] /\ start[k] \in Nat /\ finish[k] \in Nat
  <2>1. k \in On(r) /\ k \in Tasks /\ start[k] <= x /\ x < finish[k]
    BY <1>1 DEF RunningAt
  <2>2. finish[k] # NotYet /\ start[k] # NotYet
    BY <2>1 DEF IInv, Counts, Unfinished
  <2>3. start[k] \in Nat /\ finish[k] \in Nat
    BY <2>1, <2>2 DEF IInv, TypeOK
  <2> QED
    BY <2>1, <2>3 DEF Placed
<1>3. f \in [S -> N]
  BY <1>1, <1>2 DEF OnServer
<1>4. ASSUME NEW j \in S, NEW k \in S, at[j] = at[k], j # k PROVE FALSE
  <2>1. finish[j] <= start[k] \/ finish[k] <= start[j]
    BY <1>2, <1>4 DEF OnServer
  <2> QED
    BY <1>2, <2>1
<1> HIDE DEF n
<1>5. f \in Injection(S, N)
  BY <1>3, <1>4 DEF Injection, IsInjective
<1>6. IsFiniteSet(N) /\ Cardinality(N) = n
  BY <1>1, FS_Interval
<1>7. (\A i \in N : AtWork(at, r, i, x)) => f \in Surjection(S, N)
  BY <1>3 DEF Surjection, AtWork
<1> HIDE DEF f, S, N
<1>8. /\ IsFiniteSet(S) /\ Cardinality(S) <= Cardinality(N)
      /\ Cardinality(S) = Cardinality(N) <=> f \in Surjection(S, N)
  BY <1>5, <1>6, FS_Injection
<1> QED
  BY <1>1, <1>6, <1>7, <1>8 DEF S, n

\* A FIFO pool runs a task for its duration once it is ready, never more tasks
\* than it has servers, and lets a ready task wait only while all are taken.
Greedy ==
  outcome = "done" =>
    \A r \in Resources \ Shared : \A k \in On(r) :
      /\ start[k] >= ReadyTime(k)
      /\ finish[k] = start[k] + Task(k).dur
      /\ Cardinality(RunningAt(r, start[k])) <= Servers(graph, r)
      /\ \A x \in ReadyTime(k) .. start[k] - 1 :
           Cardinality(RunningAt(r, x)) = Servers(graph, r)

LEMMA PlacesGreedy ==
  ASSUME IInv, Places
  PROVE  Greedy
<1> SUFFICES ASSUME outcome = "done", NEW r \in Resources \ Shared, NEW k \in On(r)
             PROVE  /\ start[k] >= ReadyTime(k)
                    /\ finish[k] = start[k] + Task(k).dur
                    /\ Cardinality(RunningAt(r, start[k])) <= Servers(graph, r)
                    /\ \A x \in ReadyTime(k) .. start[k] - 1 :
                         Cardinality(RunningAt(r, x)) = Servers(graph, r)
  BY DEF Greedy
<1>1. PICK at \in [Tasks -> Nat] : Placed(at)
  BY DEF Places
<1>2. Unfinished = {} /\ k \in Tasks
  BY GraphTyping DEF IInv, Outcomes, TypeOK
<1>3. OnServer(at, r, k)
  BY <1>1, <1>2 DEF Placed
<1>4. ReadyTime(k) = readyAt[k] /\ readyAt[k] \in Nat
  BY <1>2, ReadyTimeIs DEF IInv, TypeOK
<1>5. start[k] \in Nat
  BY <1>2 DEF IInv, TypeOK, Counts
<1>6. Cardinality(RunningAt(r, start[k])) <= Servers(graph, r)
  BY <1>1, <1>2, <1>5, OnePerServer
<1>7. ASSUME NEW x \in readyAt[k] .. start[k] - 1
      PROVE  Cardinality(RunningAt(r, x)) = Servers(graph, r)
  <2>1. x \in Nat
    BY <1>4, <1>5
  <2>2. \A i \in DOMAIN slots[r] : AtWork(at, r, i, x)
    BY <1>3 DEF OnServer
  <2> QED
    BY <1>1, <1>2, <2>1, <2>2, OnePerServer
<1> QED
  BY <1>3, <1>4, <1>5, <1>6, <1>7 DEF OnServer

\* For every graph, whatever its shared resources do: the schedule of a FIFO
\* pool is list scheduling, with no more tasks at a time than servers and no
\* server left idle beside a ready task.
THEOREM ListScheduling == Spec => []Greedy
BY Invariance, PlacesInvariance, PlacesGreedy, PTL

------------------------------------------------------------------------------
(***************************************************************************)
(* The order of the starts.                                                *)
(***************************************************************************)
\* A task that takes no time is on a FIFO resource, and what waits for it has a
\* larger key.
Ordered ==
  \A k \in Tasks : Task(k).dur = 0 =>
    Task(k).res \notin Shared /\ \A c \in Tasks : k \in Task(c).deps => k < c

\* What has started comes before all that may still start ...
StartedFirst ==
  \A k \in Tasks : start[k] # NotYet =>
    /\ \A y \in ready : Before(<<readyAt[k], k>>, y)
    /\ \A d \in departures : ~Stale(d) => readyAt[k] < d.time

\* ... and a pool started its tasks in their order: none waited longer than for
\* the server that is free first.
PoolInTurn(r) ==
  \A k \in On(r) \ Unfinished :
    /\ \A i \in DOMAIN slots[r] : start[k] <= readyAt[k] \/ start[k] <= slots[r][i]
    /\ \A j \in On(r) \ Unfinished :
         Before(<<readyAt[j], j>>, <<readyAt[k], k>>) => start[j] <= start[k]

InTurn == Ordered /\ StartedFirst /\ \A r \in Resources \ Shared : PoolInTurn(r)

LEMMA InTurnInit == Init /\ Ordered => InTurn
<1> SUFFICES ASSUME Init, Ordered PROVE InTurn
  OBVIOUS
<1>1. \A r \in Resources \ Shared : On(r) \ Unfinished = {}
  BY InitState DEF Unfinished, On
<1>2. \A k \in Tasks : start[k] = NotYet
  BY InitState
<1> QED
  BY <1>1, <1>2 DEF InTurn, StartedFirst, PoolInTurn

LEMMA OrderedStays ==
  ASSUME graph' = graph, Ordered
  PROVE  Ordered'
BY Static DEF Ordered

\* A started task waits for nothing.
LEMMA StartedIsReady ==
  ASSUME IInv, NEW k \in Tasks, start[k] # NotYet
  PROVE  missing[k] = 0 /\ readyAt[k] \in Nat
<1>1. readyAt[k] \in Nat
  BY DEF IInv, TypeOK
<1>2. CASE k \notin Unfinished
  BY <1>1, <1>2 DEF IInv, Counts
<1>3. CASE k \in Unfinished
  <2>1. Task(k).res \in Resources \cap Shared /\ k \in DOMAIN active[Task(k).res]
    BY <1>3 DEF IInv, Counts, Resources
  <2> QED
    BY <1>1, <2>1 DEF IInv, Counts
<1> QED
  BY <1>2, <1>3

\* A step that neither starts nor ends a task of a FIFO resource.
LEMMA PoolSame ==
  ASSUME IInv, graph' = graph, slots' = slots, NEW r \in Resources \ Shared, PoolInTurn(r),
         \A k \in On(r) :
           /\ start'[k] = start[k] /\ finish'[k] = finish[k]
           /\ k \notin Unfinished => readyAt'[k] = readyAt[k]
  PROVE  PoolInTurn(r)'
<1>1. On(r)' = On(r) /\ Tasks' = Tasks /\ On(r) \in SUBSET Tasks
  BY Static DEF On
<1>2. On(r) \ Unfinished' = On(r) \ Unfinished
  BY <1>1 DEF Unfinished
<1>3. \A k \in On(r) \ Unfinished : start'[k] = start[k] /\ readyAt'[k] = readyAt[k]
  OBVIOUS
<1> QED
  BY <1>1, <1>2, <1>3 DEF PoolInTurn, Before

LEMMA InTurnDepart ==
  ASSUME IInv, Depart, InTurn
  PROVE  InTurn'
<1>a. PICK d \in departures :
        \E gone \in SUBSET DOMAIN active[d.res] :
          \E stay \in [DOMAIN active[d.res] \ gone -> Nat] : DepartsAs(d, gone, stay)
  BY DepartOf
<1>b. PICK gone \in SUBSET DOMAIN active[d.res] :
        \E stay \in [DOMAIN active[d.res] \ gone -> Nat] : DepartsAs(d, gone, stay)
  BY <1>a
<1>c. PICK stay \in [DOMAIN active[d.res] \ gone -> Nat] : DepartsAs(d, gone, stay)
  BY <1>b
<1> DEFINE r == d.res
           S == DOMAIN active[r] \ gone
<1>1. /\ d \in NextDepartures /\ ~Stale(d) /\ DepartsFirst(d)
      /\ departures' = (departures \ {d}) \cup DepartureOf(r, stay, d.time)
      /\ Release(gone, d.time, ready)
      /\ UNCHANGED <<graph, slots, start>>
  BY <1>c DEF DepartsAs
<1>2. /\ d.time \in Nat /\ r \in Resources \cap Shared
      /\ \A e \in departures : d.time <= e.time /\ e.time \in Nat
  BY <1>1, DepartureIsNext DEF IInv, TypeOK
<1>3. gone \in SUBSET Unfinished /\ gone \in SUBSET On(r)
  BY <1>b, <1>2 DEF IInv, Counts, TypeOK
<1>4. /\ \A k \in Tasks : finish'[k] = IF k \in gone THEN d.time ELSE finish[k]
      /\ readyAt' \in [Tasks -> Nat]
      /\ \A c \in Tasks : missing[c] = 0 => readyAt'[c] = readyAt[c]
      /\ \A c \in Freed : d.time <= readyAt'[c]
      /\ ready' = ready \cup {<<readyAt'[c], c>> : c \in Freed}
  <2>1. ready \in SUBSET ready /\ graph' = graph
    BY <1>1
  <2>2. \A k \in Tasks : finish'[k] = IF k \in gone THEN d.time ELSE finish[k]
    BY <1>1 DEF Release
  <2>3. /\ readyAt' \in [Tasks -> Nat]
        /\ \A c \in Tasks : missing[c] = 0 => readyAt'[c] = readyAt[c]
        /\ \A c \in Freed : d.time <= readyAt'[c]
        /\ ready' = ready \cup {<<readyAt'[c], c>> : c \in Freed}
    BY <1>1, <1>2, <1>3, <2>1, ReleasedTimes
  <2> QED
    BY <2>2, <2>3
<1>5. \A e \in departures' : d.time <= e.time /\ e.time \in Nat
  <2>1. IsFiniteSet(S) /\ stay \in [S -> Nat]
    BY <1>2, GraphTyping, FS_Subset DEF IInv, TypeOK
  <2>2. CASE S = {}
    BY <1>1, <1>2, <2>1, <2>2 DEF DepartureOf
  <2>3. CASE S # {}
    <3> HIDE DEF S, r
    <3>1. PICK t \in Nat :
            /\ DepartureOf(r, stay, d.time) = {[time |-> t, res |-> r, epoch |-> epoch[r] + 1]}
            /\ d.time <= t
      BY <1>2, <2>1, <2>3, DepartureTime
    <3> QED
      BY <1>1, <1>2, <3>1
  <2> QED
    BY <2>2, <2>3
<1>6. ASSUME NEW k \in Tasks, start[k] # NotYet
      PROVE  /\ \A y \in ready' : Before(<<readyAt'[k], k>>, y)
             /\ \A e \in departures' : readyAt'[k] < e.time
  <2>1. readyAt'[k] = readyAt[k] /\ readyAt[k] \in Nat
    BY <1>4, <1>6, StartedIsReady
  <2>2. readyAt[k] < d.time /\ \A y \in ready : Before(<<readyAt[k], k>>, y)
    BY <1>1, <1>6 DEF InTurn, StartedFirst
  <2>3. \A c \in Freed : Before(<<readyAt[k], k>>, <<readyAt'[c], c>>)
    BY <1>2, <1>4, <2>1, <2>2 DEF Before, Freed
  <2> QED
    BY <1>2, <1>4, <1>5, <2>1, <2>2, <2>3
<1>7. StartedFirst'
  BY <1>1, <1>6, Static DEF StartedFirst, Before
<1>8. ASSUME NEW q \in Resources \ Shared PROVE PoolInTurn(q)'
  <2>1. ASSUME NEW k \in On(q)
        PROVE  /\ start'[k] = start[k] /\ finish'[k] = finish[k]
               /\ k \notin Unfinished => readyAt'[k] = readyAt[k]
    <3>1. k \in Tasks /\ k \notin gone
      BY <1>2, <1>3, Elsewhere DEF On
    <3>2. k \notin Unfinished => missing[k] = 0
      BY <3>1 DEF IInv, Counts
    <3> QED
      BY <1>1, <1>4, <3>1, <3>2
  <2>2. PoolInTurn(q)
    BY DEF InTurn
  <2> QED
    BY <1>1, <2>1, <2>2, PoolSame
<1>9. Ordered'
  BY <1>1, OrderedStays DEF InTurn
<1> QED
  BY <1>1, <1>7, <1>8, <1>9, Static DEF InTurn

LEMMA InTurnShared ==
  ASSUME IInv, StartShared, InTurn
  PROVE  InTurn'
<1>1. PICK x \in NextReady, r \in Resources \cap Shared :
        \E S \in SUBSET On(r) : \E flows \in [S -> Nat] : SharesAs(x, r, S, flows)
  BY StartSharedOf
<1>2. PICK S \in SUBSET On(r) : \E flows \in [S -> Nat] : SharesAs(x, r, S, flows)
  BY <1>1
<1>3. PICK flows \in [S -> Nat] : SharesAs(x, r, S, flows)
  BY <1>2
<1> DEFINE k == x[2]
           now == x[1]
           A == DOMAIN active[r]
           half == Fine \div 2
<1>4. /\ StartsNext /\ r = Task(k).res /\ S = A \cup {k} /\ k \notin A
      /\ flows[k] = Task(k).dur * Fine
      /\ \A j \in A : flows[j] = Advanced(r, now)[j]
      /\ start' = [start EXCEPT ![k] = now]
      /\ departures' = departures \cup DepartureOf(r, flows, now)
      /\ ready' = ready \ {x}
      /\ UNCHANGED <<graph, readyAt, slots, finish>>
  BY <1>3 DEF SharesAs
<1>5. /\ x \in ready /\ now \in Nat /\ k \in Tasks /\ x = <<now, k>> /\ now = readyAt[k]
      /\ \A y \in ready : Before(x, y)
      /\ \A d \in departures : now < d.time
  BY <1>4, StartIsNext
<1>6. /\ Task(k).dur \in Nat \ {0} /\ Fine \in Nat \ {0} /\ half \in Nat
      /\ IsFiniteSet(A) /\ IsFiniteSet(S)
  <2>1. Task(k).dur \in Nat /\ Task(k).dur # 0
    BY <1>4, <1>5, GraphTyping DEF IInv, TypeOK, InTurn, Ordered
  <2>2. On(r) \in SUBSET Tasks /\ IsFiniteSet(Tasks)
    BY GraphTyping DEF IInv, TypeOK
  <2> QED
    BY <1>4, <2>1, <2>2, FS_Subset, SchedAssumption, Quotient
\* No flow of the resource is due at once.
<1>7. \A j \in S : Fine <= flows[j] * Cardinality(S) + half
  <2> DEFINE n == Cardinality(A)
  <2>1. n \in Nat /\ Cardinality(S) = n + 1
    BY <1>4, <1>6, FS_CardinalityType, FS_AddElement
  <2>2. ASSUME NEW j \in A PROVE Fine <= flows[j] * (n + 1) + half
    <3> DEFINE f == flows[j]
    <3>1. Fine <= f * n + half
      BY <1>4, FlowsBefore
    <3>2. f \in Nat
      BY <1>4
    <3> HIDE DEF f, n, half
    <3>3. f * (n + 1) = f * n + f /\ f * n \in Nat
      BY <2>1, <3>2
    <3> QED
      BY <1>6, <3>1, <3>2, <3>3 DEF f
  <2>3. Fine <= flows[k] * (n + 1) + half
    <3> DEFINE f == flows[k]
               w == Task(k).dur
    <3>1. f = w * Fine /\ w \in Nat \ {0}
      BY <1>4, <1>6
    <3> HIDE DEF f, w, n, half
    <3>2. w * Fine = (w - 1) * Fine + Fine /\ (w - 1) * Fine \in Nat
      BY <1>6, <3>1
    <3>3. f \in Nat /\ Fine <= f
      BY <1>6, <3>1, <3>2
    <3>4. f * (n + 1) = f * n + f /\ f * n \in Nat
      BY <2>1, <3>3
    <3> QED
      BY <1>6, <3>3, <3>4 DEF f
  <2> QED
    BY <1>4, <2>1, <2>2, <2>3
<1>8. PICK t \in Nat :
        /\ DepartureOf(r, flows, now) = {[time |-> t, res |-> r, epoch |-> epoch[r] + 1]}
        /\ now < t
  <2>1. S # {}
    BY <1>4
  <2> HIDE DEF now, k, A
  <2> QED
    BY <1>5, <1>6, <1>7, <2>1, DepartureTime
<1>9. \A d \in departures' : now < d.time /\ d.time \in Nat
  BY <1>4, <1>5, <1>8 DEF IInv, TypeOK
<1>10. \A j \in Tasks : j # k => start'[j] = start[j]
  BY <1>4 DEF IInv, TypeOK
<1>11. ASSUME NEW j \in Tasks, start'[j] # NotYet
       PROVE  /\ \A y \in ready' : Before(<<readyAt[j], j>>, y)
              /\ \A d \in departures' : readyAt[j] < d.time
  <2>1. CASE j = k
    BY <1>4, <1>5, <1>9, <2>1
  <2>2. CASE j # k
    <3>1. start[j] # NotYet
      BY <1>10, <1>11, <2>2
    <3>2. \A y \in ready : Before(<<readyAt[j], j>>, y)
      BY <3>1 DEF InTurn, StartedFirst
    <3>3. readyAt[j] \in Nat /\ readyAt[j] <= now
      BY <1>5, <3>1, <3>2, StartedIsReady DEF Before
    <3> QED
      BY <1>4, <1>5, <1>9, <3>2, <3>3
  <2> QED
    BY <2>1, <2>2
<1>12. StartedFirst'
  BY <1>4, <1>11, Static DEF StartedFirst
<1>13. ASSUME NEW q \in Resources \ Shared PROVE PoolInTurn(q)'
  <2>1. \A j \in On(q) : /\ start'[j] = start[j] /\ finish'[j] = finish[j]
                         /\ j \notin Unfinished => readyAt'[j] = readyAt[j]
    BY <1>4, <1>10 DEF On
  <2>2. PoolInTurn(q)
    BY DEF InTurn
  <2> QED
    BY <1>4, <2>1, <2>2, PoolSame
<1>14. Ordered'
  BY <1>4, OrderedStays DEF InTurn
<1> QED
  BY <1>4, <1>12, <1>13, <1>14, Static DEF InTurn

LEMMA InTurnFifo ==
  ASSUME IInv, StartFifo, InTurn
  PROVE  InTurn'
<1>a. PICK x \in NextReady, r \in Resources \ Shared :
        \E i \in DOMAIN slots[r] : \E st \in Nat : FifoAs(x, r, i, st)
  BY StartFifoOf
<1>b. PICK i \in DOMAIN slots[r], st \in Nat : FifoAs(x, r, i, st)
  BY <1>a
<1> DEFINE k == x[2]
           now == x[1]
           end == st + Task(k).dur
<1>1. /\ StartsNext /\ now <= st /\ slots[r][i] <= st /\ st \in {now, slots[r][i]}
      /\ i \in FreeServer(r)
      /\ UNCHANGED <<graph, departures, active, epoch>>
  BY <1>b DEF FifoAs
<1>2. /\ x \in ready /\ now \in Nat /\ x = <<now, k>>
      /\ \A y \in ready : Before(x, y)
      /\ \A d \in departures : now < d.time /\ d.time \in Nat
  <2>1. \A d \in departures : d.time \in Nat
    BY DEF IInv, TypeOK
  <2> QED
    BY <1>1, <2>1, StartIsNext
<1>3. /\ k \in Tasks /\ k \in Unfinished /\ k \in On(r) /\ Task(k).dur \in Nat
      /\ now = readyAt[k]
      /\ finish'[k] = end /\ start'[k] = st
      /\ \A c \in Tasks : c # k => finish'[c] = finish[c] /\ start'[c] = start[c]
      /\ Unfinished' = Unfinished \ {k}
      /\ \A c \in Tasks : missing[c] = 0 => readyAt'[c] = readyAt[c]
      /\ slots[r] \in [DOMAIN slots[r] -> Nat]
      /\ slots'[r] = [slots[r] EXCEPT ![i] = end]
      /\ \A q \in Resources \ Shared : q # r => slots'[q] = slots[q]
      /\ \A y \in ready' :
           \/ y \in ready \ {x}
           \/ \E c \in Tasks : /\ y = <<readyAt'[c], c>> /\ k \in Task(c).deps
                               /\ now <= readyAt'[c] /\ readyAt'[c] \in Nat
                               /\ end <= readyAt'[c]
  BY <1>b, FifoFacts
<1>4. missing[k] = 0 /\ start[k] = NotYet /\ readyAt'[k] = now
  BY <1>1, <1>3, StartIsNext
<1>5. Tasks \in SUBSET Nat /\ \A q : On(q)' = On(q) /\ On(q) \in SUBSET Tasks
  BY <1>1, Static, GraphTyping DEF IInv, TypeOK
\* The task comes before all that is ready afterwards.
<1>6. \A y \in ready' : Before(<<now, k>>, y) /\ y[1] \in Nat /\ y[2] \in Nat
  <2> SUFFICES ASSUME NEW y \in ready'
               PROVE  Before(<<now, k>>, y) /\ y[1] \in Nat /\ y[2] \in Nat
    OBVIOUS
  <2>1. CASE y \in ready \ {x}
    <3>1. ready \in SUBSET (Nat \X Tasks)
      BY DEF IInv, TypeOK
    <3> QED
      BY <1>2, <1>5, <2>1, <3>1
  <2>2. CASE \E c \in Tasks : /\ y = <<readyAt'[c], c>> /\ k \in Task(c).deps
                              /\ now <= readyAt'[c] /\ readyAt'[c] \in Nat
                              /\ end <= readyAt'[c]
    <3>1. PICK c \in Tasks : /\ y = <<readyAt'[c], c>> /\ k \in Task(c).deps
                             /\ now <= readyAt'[c] /\ readyAt'[c] \in Nat
                             /\ end <= readyAt'[c]
      BY <2>2
    <3>2. now < readyAt'[c] \/ k < c
      <4>1. CASE Task(k).dur = 0
        BY <1>3, <3>1, <4>1 DEF InTurn, Ordered
      <4>2. CASE Task(k).dur # 0
        BY <1>1, <1>2, <1>3, <3>1, <4>2
      <4> QED
        BY <4>1, <4>2
    <3> QED
      BY <1>2, <1>3, <1>5, <3>1, <3>2 DEF Before
  <2> QED
    BY <1>3, <2>1, <2>2
\* What had started comes before it.
<1>7. ASSUME NEW j \in Tasks, start[j] # NotYet
      PROVE  /\ readyAt'[j] = readyAt[j] /\ readyAt[j] \in Nat /\ j # k
             /\ Before(<<readyAt[j], j>>, <<now, k>>)
  BY <1>2, <1>3, <1>4, <1>7, StartedIsReady DEF InTurn, StartedFirst
<1>8. ASSUME NEW j \in Tasks, start'[j] # NotYet
      PROVE  /\ \A y \in ready' : Before(<<readyAt'[j], j>>, y)
             /\ \A d \in departures' : readyAt'[j] < d.time
  <2>1. CASE j = k
    BY <1>1, <1>2, <1>4, <1>6, <2>1
  <2>2. CASE j # k
    <3>1. /\ readyAt'[j] = readyAt[j] /\ readyAt[j] \in Nat
          /\ Before(<<readyAt[j], j>>, <<now, k>>)
      BY <1>3, <1>7, <1>8, <2>2
    <3>2. readyAt[j] < now \/ (readyAt[j] = now /\ j <= k)
      BY <3>1 DEF Before
    <3>3. readyAt[j] <= now
      BY <1>2, <3>1, <3>2
    <3>4. \A d \in departures' : readyAt'[j] < d.time
      BY <1>1, <1>2, <3>1, <3>3
    <3>5. \A y \in ready' : Before(<<readyAt'[j], j>>, y)
      BY <1>2, <1>3, <1>5, <1>6, <3>1, <3>2 DEF Before
    <3> QED
      BY <3>4, <3>5
  <2> QED
    BY <2>1, <2>2
<1>9. StartedFirst'
  <2>1. Tasks' = Tasks
    BY <1>1, Static
  <2> QED
    BY <1>8, <2>1 DEF StartedFirst, Before
<1>10. ASSUME NEW q \in Resources \ Shared, NEW j \in On(q) \ Unfinished
       PROVE  /\ j \in Tasks /\ j # k /\ start'[j] = start[j] /\ start[j] \in Nat
              /\ readyAt'[j] = readyAt[j] /\ readyAt[j] \in Nat
              /\ Before(<<readyAt[j], j>>, <<now, k>>)
  <2>1. j \in Tasks /\ start[j] # NotYet
    BY <1>5 DEF IInv, Counts
  <2>2. start[j] \in Nat
    BY <2>1 DEF IInv, TypeOK
  <2> QED
    BY <1>3, <1>7, <2>1, <2>2
<1>11. ASSUME NEW q \in Resources \ Shared, q # r PROVE PoolInTurn(q)'
  <2>1. On(q) \ Unfinished' = On(q) \ Unfinished /\ slots'[q] = slots[q]
    <3>1. k \notin On(q)
      BY <1>3, <1>11 DEF On
    <3> QED
      BY <1>3, <1>11, <3>1
  <2>2. PoolInTurn(q)
    BY DEF InTurn
  <2> QED
    BY <1>5, <1>10, <2>1, <2>2 DEF PoolInTurn, Before
<1>12. On(r) \ Unfinished' = (On(r) \ Unfinished) \cup {k}
  BY <1>3
<1>13. /\ DOMAIN slots'[r] = DOMAIN slots[r]
       /\ \A s \in DOMAIN slots[r] : /\ slots[r][s] \in Nat /\ slots'[r][s] \in Nat
                                     /\ slots[r][i] <= slots[r][s]
                                     /\ slots[r][s] <= slots'[r][s]
  <2>1. \A s \in DOMAIN slots[r] : slots[r][i] <= slots[r][s] /\ slots[r][s] \in Nat
    BY <1>1, <1>3 DEF FreeServer, Before
  <2>2. end \in Nat /\ slots[r][i] <= end
    BY <1>1, <1>3, <2>1
  <2> HIDE DEF end
  <2> QED
    BY <1>3, <2>1, <2>2
<1>14. ASSUME NEW j \in On(r) \ Unfinished'
       PROVE  \A s \in DOMAIN slots'[r] : start'[j] <= readyAt'[j] \/ start'[j] <= slots'[r][s]
  <2>1. CASE j = k
    BY <1>1, <1>3, <1>4, <1>13, <2>1
  <2>2. CASE j # k
    <3>1. j \in On(r) \ Unfinished
      BY <1>12, <2>2
    <3>2. \A s \in DOMAIN slots[r] : start[j] <= readyAt[j] \/ start[j] <= slots[r][s]
      BY <3>1 DEF InTurn, PoolInTurn
    <3>3. /\ start'[j] = start[j] /\ readyAt'[j] = readyAt[j]
          /\ start[j] \in Nat /\ readyAt[j] \in Nat
      BY <1>10, <3>1
    <3> SUFFICES ASSUME NEW s \in DOMAIN slots[r]
                 PROVE  start[j] <= readyAt[j] \/ start[j] <= slots'[r][s]
      BY <1>13, <3>3
    <3>4. slots[r][s] \in Nat /\ slots'[r][s] \in Nat /\ slots[r][s] <= slots'[r][s]
      BY <1>13
    <3> QED
      BY <3>2, <3>3, <3>4
  <2> QED
    BY <2>1, <2>2
<1>15. ASSUME NEW j \in On(r) \ Unfinished', NEW c \in On(r) \ Unfinished',
              Before(<<readyAt'[j], j>>, <<readyAt'[c], c>>)
       PROVE  start'[j] <= start'[c]
  <2>1. CASE j = k /\ c = k
    BY <1>3, <2>1
  <2>2. CASE j # k /\ c # k
    <3>1. j \in On(r) \ Unfinished /\ c \in On(r) \ Unfinished
      BY <1>12, <2>2
    <3>2. PoolInTurn(r)
      BY DEF InTurn
    <3>3. Before(<<readyAt[j], j>>, <<readyAt[c], c>>)
      BY <1>10, <1>15, <3>1
    <3> QED
      BY <1>10, <3>1, <3>2, <3>3 DEF PoolInTurn
  <2>3. CASE j # k /\ c = k
    <3>1. j \in On(r) \ Unfinished
      BY <1>12, <2>3
    <3>2. start[j] <= readyAt[j] \/ start[j] <= slots[r][i]
      BY <3>1 DEF InTurn, PoolInTurn
    <3>3. readyAt[j] <= now /\ readyAt[j] \in Nat /\ start[j] \in Nat
      BY <1>2, <1>10, <3>1 DEF Before
    <3>4. start[j] <= st
      BY <1>1, <1>2, <1>13, <3>2, <3>3
    <3> QED
      BY <1>3, <1>10, <2>3, <3>1, <3>4
  <2>4. CASE j = k /\ c # k
    <3>1. c \in On(r) \ Unfinished
      BY <1>12, <2>4
    <3>2. Before(<<readyAt[c], c>>, <<now, k>>) /\ Before(<<now, k>>, <<readyAt[c], c>>)
      BY <1>4, <1>10, <1>15, <2>4, <3>1
    <3>3. c \in Nat /\ k \in Nat /\ readyAt[c] \in Nat
      BY <1>3, <1>5, <1>10, <3>1
    <3>4. c = k
      BY <1>2, <3>2, <3>3 DEF Before
    <3> QED
      BY <2>4, <3>4
  <2> QED
    BY <2>1, <2>2, <2>3, <2>4
<1>16. PoolInTurn(r)'
  BY <1>5, <1>14, <1>15 DEF PoolInTurn, Before
<1>17. Ordered'
  BY <1>1, OrderedStays DEF InTurn
<1> QED
  BY <1>1, <1>9, <1>11, <1>16, <1>17, Static DEF InTurn

LEMMA InTurnStill ==
  ASSUME IInv, SkipStale \/ Return \/ RaiseCycle \/ UNCHANGED vars, InTurn
  PROVE  InTurn'
<1>1. /\ UNCHANGED <<graph, readyAt, ready, slots, active, epoch, start, finish>>
      /\ departures' \in SUBSET departures
  BY DEF SkipStale, Return, RaiseCycle, vars
<1>2. \A d : Stale(d)' = Stale(d)
  BY <1>1 DEF Stale
<1>3. StartedFirst'
  BY <1>1, <1>2, Static DEF InTurn, StartedFirst
<1>4. \A r \in Resources \ Shared : PoolInTurn(r)'
  <2> SUFFICES ASSUME NEW r \in Resources \ Shared PROVE PoolInTurn(r)'
    OBVIOUS
  <2>1. PoolInTurn(r)
    BY DEF InTurn
  <2> QED
    BY <1>1, <2>1, PoolSame
<1>5. Ordered'
  BY <1>1, OrderedStays DEF InTurn
<1> QED
  BY <1>1, <1>3, <1>4, <1>5, Static DEF InTurn

LEMMA InTurnNext == IInv /\ [Next]_vars /\ InTurn => InTurn'
BY InTurnDepart, InTurnShared, InTurnFifo, InTurnStill DEF Next, Over

LEMMA InTurnInvariance == Spec /\ Ordered => []InTurn
BY Invariance, InTurnInit, InTurnNext, PTL DEF Spec

LEMMA FifoFromParts ==
  ASSUME IInv, Greedy, InTurn
  PROVE  GreedyFifo
<1> SUFFICES ASSUME outcome = "done", NEW r \in Resources \ Shared, NEW k \in On(r),
                    NEW j \in On(r),
                    Before(<<ReadyTime(j), j>>, <<ReadyTime(k), k>>)
             PROVE  start[j] <= start[k]
  BY DEF Greedy, GreedyFifo
<1>1. Unfinished = {} /\ k \in Tasks /\ j \in Tasks
  BY GraphTyping DEF IInv, Outcomes, TypeOK
<1>2. Before(<<readyAt[j], j>>, <<readyAt[k], k>>)
  BY <1>1, ReadyTimeIs
<1> QED
  BY <1>1, <1>2 DEF InTurn, PoolInTurn

\* A pool also starts its tasks in the order of their ready times and then of
\* their keys, provided that a task that takes no time is not shared and has a
\* smaller key than what waits for it.
THEOREM StartsInOrder == Spec /\ Ordered => []GreedyFifo
BY Invariance, ListScheduling, InTurnInvariance, FifoFromParts, PTL

------------------------------------------------------------------------------
(***************************************************************************)
(* What comes before what, on every resource.                              *)
(***************************************************************************)
SharedStarts ==
  \A k \in Tasks : Task(k).res \in Shared /\ start[k] # NotYet =>
    /\ start[k] = readyAt[k]
    /\ k \in Unfinished => start[k] <= last[Task(k).res]
    /\ k \notin Unfinished => start[k] <= finish[k]

\* A task that has started found all it depends on ended, and ends no earlier
\* than it starts; on a shared resource it never waits.
Precedence ==
  \A k \in Tasks : start[k] # NotYet =>
    /\ \A d \in Task(k).deps : finish[d] # NotYet /\ finish[d] <= start[k]
    /\ finish[k] # NotYet => start[k] <= finish[k]
    /\ Task(k).res \in Shared => start[k] = readyAt[k]

LEMMA SharedDepart ==
  ASSUME IInv, Depart, SharedStarts
  PROVE  SharedStarts'
<1>a. PICK d \in departures :
        \E gone \in SUBSET DOMAIN active[d.res] :
          \E stay \in [DOMAIN active[d.res] \ gone -> Nat] : DepartsAs(d, gone, stay)
  BY DepartOf
<1>b. PICK gone \in SUBSET DOMAIN active[d.res] :
        \E stay \in [DOMAIN active[d.res] \ gone -> Nat] : DepartsAs(d, gone, stay)
  BY <1>a
<1>c. PICK stay \in [DOMAIN active[d.res] \ gone -> Nat] : DepartsAs(d, gone, stay)
  BY <1>b
<1> DEFINE r == d.res
           now == d.time
<1>1. /\ d \in NextDepartures /\ ~Stale(d) /\ DepartsFirst(d)
      /\ last' = [last EXCEPT ![r] = now]
      /\ Release(gone, now, ready)
      /\ graph' = graph /\ start' = start
  BY <1>c DEF DepartsAs
<1>2. /\ now \in Nat /\ r \in Resources \cap Shared
      /\ \A q \in Resources \cap Shared : last[q] <= now /\ last[q] \in Nat
  BY <1>1, DepartureIsNext DEF IInv, TypeOK
<1>3. gone \in SUBSET Unfinished /\ gone \in SUBSET On(r)
  BY <1>b, <1>2 DEF IInv, Counts, TypeOK
<1>4. /\ \A k \in Tasks : finish'[k] = IF k \in gone THEN now ELSE finish[k]
      /\ Unfinished' = Unfinished \ gone
      /\ \A c \in Tasks : missing[c] = 0 => readyAt'[c] = readyAt[c]
  <2>1. ready \in SUBSET ready
    OBVIOUS
  <2>2. \A k \in Tasks : finish'[k] = IF k \in gone THEN now ELSE finish[k]
    BY <1>1 DEF Release
  <2> HIDE DEF now
  <2>3. \A c \in Tasks : missing[c] = 0 => readyAt'[c] = readyAt[c]
    BY <1>1, <1>2, <1>3, <2>1, ReleasedTimes
  <2>4. Unfinished' = Unfinished \ gone
    BY <1>1, <1>2, <1>3, <2>1, ReleasedCounts
  <2> QED
    BY <2>2, <2>3, <2>4
<1>5. /\ Tasks' = Tasks /\ Shared' = Shared /\ \A k : Task(k)' = Task(k)
      /\ \A k \in Tasks : Task(k).res \in Resources
  BY <1>1, Static, GraphTyping DEF IInv, TypeOK
<1>6. last'[r] = now /\ \A q \in Resources \cap Shared : last[q] <= last'[q] /\ last'[q] \in Nat
  BY <1>1, <1>2 DEF IInv, TypeOK
<1> HIDE DEF now
<1>7. ASSUME NEW k \in Tasks, Task(k).res \in Shared, start[k] # NotYet
      PROVE  /\ start[k] = readyAt'[k]
             /\ k \in Unfinished' => start[k] <= last'[Task(k).res]
             /\ k \notin Unfinished' => start[k] <= finish'[k]
  <2> DEFINE q == Task(k).res
  <2>1. /\ start[k] = readyAt[k]
        /\ k \in Unfinished => start[k] <= last[q]
        /\ k \notin Unfinished => start[k] <= finish[k]
    BY <1>7 DEF SharedStarts
  <2>2. start[k] = readyAt'[k] /\ start[k] \in Nat
    BY <1>4, <1>7, <2>1, StartedIsReady
  <2>3. q \in Resources \cap Shared
    BY <1>5, <1>7
  <2>4. k \in gone => start[k] <= now
    BY <1>2, <1>3, <2>1, <2>2, <2>3
  <2>5. k \in Unfinished => start[k] <= last'[q]
    BY <1>2, <1>6, <2>1, <2>2, <2>3
  <2> QED
    BY <1>4, <2>1, <2>2, <2>4, <2>5
<1> QED
  BY <1>1, <1>5, <1>7 DEF SharedStarts

LEMMA SharedShared ==
  ASSUME IInv, StartShared, SharedStarts
  PROVE  SharedStarts'
<1>1. PICK x \in NextReady, r \in Resources \cap Shared :
        \E S \in SUBSET On(r) : \E flows \in [S -> Nat] : SharesAs(x, r, S, flows)
  BY StartSharedOf
<1> DEFINE k == x[2]
           now == x[1]
<1>2. /\ StartsNext /\ r = Task(k).res
      /\ last' = [last EXCEPT ![r] = now]
      /\ start' = [start EXCEPT ![k] = now]
      /\ graph' = graph /\ readyAt' = readyAt /\ finish' = finish
  BY <1>1 DEF SharesAs
<1>3. /\ now \in Nat /\ k \in Tasks /\ k \in Unfinished /\ now = readyAt[k]
      /\ \A q \in Resources \cap Shared : last[q] <= now /\ last[q] \in Nat
  BY <1>2, StartIsNext DEF IInv, TypeOK
<1>4. /\ Tasks' = Tasks /\ Shared' = Shared /\ Unfinished' = Unfinished
      /\ \A j : Task(j)' = Task(j)
      /\ \A j \in Tasks : Task(j).res \in Resources
  BY <1>2, Static, GraphTyping DEF IInv, TypeOK, Unfinished
<1>5. /\ last'[r] = now /\ start'[k] = now
      /\ \A j \in Tasks : j # k => start'[j] = start[j]
      /\ \A q \in Resources \cap Shared : last[q] <= last'[q] /\ last'[q] \in Nat
  BY <1>2, <1>3 DEF IInv, TypeOK
<1> HIDE DEF now, k
<1>6. ASSUME NEW j \in Tasks, Task(j).res \in Shared, start'[j] # NotYet
      PROVE  /\ start'[j] = readyAt[j]
             /\ j \in Unfinished => start'[j] <= last'[Task(j).res]
             /\ j \notin Unfinished => start'[j] <= finish[j]
  <2> DEFINE q == Task(j).res
  <2>1. CASE j = k
    BY <1>2, <1>3, <1>5, <2>1
  <2>2. CASE j # k
    <3>1. /\ start'[j] = start[j] /\ start[j] = readyAt[j]
          /\ j \in Unfinished => start[j] <= last[q]
          /\ j \notin Unfinished => start[j] <= finish[j]
      BY <1>5, <1>6, <2>2 DEF SharedStarts
    <3>2. start[j] \in Nat
      BY <1>6, <3>1, StartedIsReady
    <3>3. q \in Resources \cap Shared
      BY <1>4, <1>6
    <3> QED
      BY <1>3, <1>5, <3>1, <3>2, <3>3
  <2> QED
    BY <2>1, <2>2
<1> QED
  BY <1>2, <1>4, <1>6 DEF SharedStarts

LEMMA SharedFifo ==
  ASSUME IInv, StartFifo, SharedStarts
  PROVE  SharedStarts'
<1>a. PICK x \in NextReady, r \in Resources \ Shared :
        \E i \in DOMAIN slots[r] : \E st \in Nat : FifoAs(x, r, i, st)
  BY StartFifoOf
<1>b. PICK i \in DOMAIN slots[r], st \in Nat : FifoAs(x, r, i, st)
  BY <1>a
<1>1. graph' = graph /\ last' = last /\ r = Task(x[2]).res
  BY <1>b DEF FifoAs
<1>2. /\ Unfinished' = Unfinished \ {x[2]}
      /\ \A c \in Tasks : c # x[2] => finish'[c] = finish[c] /\ start'[c] = start[c]
      /\ \A c \in Tasks : missing[c] = 0 => readyAt'[c] = readyAt[c]
  BY <1>b, FifoFacts
<1>3. Tasks' = Tasks /\ Shared' = Shared /\ \A k : Task(k)' = Task(k)
  BY <1>1, Static
<1>4. ASSUME NEW k \in Tasks, Task(k).res \in Shared, start'[k] # NotYet
      PROVE  /\ start'[k] = readyAt'[k]
             /\ k \in Unfinished' => start'[k] <= last'[Task(k).res]
             /\ k \notin Unfinished' => start'[k] <= finish'[k]
  <2>1. k # x[2]
    BY <1>1, <1>4
  <2>2. start'[k] = start[k] /\ finish'[k] = finish[k] /\ start[k] # NotYet
    BY <1>2, <1>4, <2>1
  <2>3. readyAt'[k] = readyAt[k]
    BY <1>2, <2>2, StartedIsReady
  <2> QED
    BY <1>1, <1>2, <1>4, <2>1, <2>2, <2>3 DEF SharedStarts
<1> QED
  BY <1>3, <1>4 DEF SharedStarts

LEMMA SharedStill ==
  ASSUME SkipStale \/ Return \/ RaiseCycle \/ UNCHANGED vars, SharedStarts
  PROVE  SharedStarts'
<1>1. UNCHANGED <<graph, readyAt, last, start, finish>>
  BY DEF SkipStale, Return, RaiseCycle, vars
<1>2. /\ Tasks' = Tasks /\ Shared' = Shared /\ Unfinished' = Unfinished
      /\ \A k : Task(k)' = Task(k)
  BY <1>1, Static DEF Unfinished
<1> QED
  BY <1>1, <1>2 DEF SharedStarts

LEMMA SharedInvariance == Spec => []SharedStarts
<1>1. Init => SharedStarts
  BY InitState DEF SharedStarts
<1>2. IInv /\ [Next]_vars /\ SharedStarts => SharedStarts'
  BY SharedDepart, SharedShared, SharedFifo, SharedStill DEF Next, Over
<1> QED
  BY <1>1, <1>2, Invariance, PTL DEF Spec

LEMMA PrecedenceFromParts ==
  ASSUME IInv, Places, SharedStarts
  PROVE  Precedence
<1> SUFFICES ASSUME NEW k \in Tasks, start[k] # NotYet
             PROVE  /\ \A d \in Task(k).deps : finish[d] # NotYet /\ finish[d] <= start[k]
                    /\ finish[k] # NotYet => start[k] <= finish[k]
                    /\ Task(k).res \in Shared => start[k] = readyAt[k]
  BY DEF Precedence
<1>1. /\ Task(k).deps \in SUBSET Tasks /\ IsFiniteSet(Task(k).deps)
      /\ Task(k).res \in Resources /\ k \in On(Task(k).res) /\ Task(k).dur \in Nat
  BY GraphTyping DEF IInv, TypeOK
<1>2. missing[k] = 0 /\ readyAt[k] \in Nat /\ start[k] \in Nat
  BY StartedIsReady DEF IInv, TypeOK
<1>3. \A d \in Task(k).deps : finish[d] # NotYet /\ finish[d] \in Nat /\ finish[d] <= readyAt[k]
  <2> DEFINE W == Task(k).deps \cap Unfinished
  <2>1. Cardinality(W) = 0 /\ IsFiniteSet(W)
    BY <1>1, <1>2, FS_Subset DEF IInv, Counts
  <2>2. W = {}
    <3> HIDE DEF W
    <3> QED
      BY <2>1, FS_EmptySet
  <2> QED
    BY <1>1, <2>2 DEF Unfinished, IInv, ReadyTimes, TypeOK
<1>4. CASE Task(k).res \in Shared
  <2>1. start[k] = readyAt[k] /\ (k \notin Unfinished => start[k] <= finish[k])
    BY <1>4 DEF SharedStarts
  <2> QED
    BY <1>2, <1>3, <2>1 DEF Unfinished
<1>5. CASE Task(k).res \notin Shared
  <2>1. k \notin Unfinished
    BY <1>5 DEF IInv, Counts
  <2>2. PICK at \in [Tasks -> Nat] : Placed(at)
    BY DEF Places
  <2>3. readyAt[k] <= start[k] /\ finish[k] = start[k] + Task(k).dur
    BY <1>1, <1>5, <2>1, <2>2 DEF Placed, OnServer
  <2> QED
    BY <1>1, <1>2, <1>3, <1>5, <2>3
<1> QED
  BY <1>4, <1>5

\* On every resource and at every moment: a started task had all its
\* dependencies ended by its start, and takes no negative time.
THEOREM NothingEarly == Spec => []Precedence
BY Invariance, PlacesInvariance, SharedInvariance, PrecedenceFromParts, PTL

------------------------------------------------------------------------------
(***************************************************************************)
(* What the flows of a shared resource receive.                            *)
(***************************************************************************)
\* Fine is divisible by every number of flows, so that no share is rounded.
Exact ==
  \A r \in Resources \cap Shared : \A n \in 1 .. Cardinality(On(r)) :
    \E p \in Nat : Fine = p * n

\* The flows of r at the instant x, as far as the loop has come.
FlowsAt(r, x) == {k \in On(r) : /\ start[k] # NotYet /\ start[k] <= x
                                /\ finish[k] = NotYet \/ x < finish[k]}
History(r) == [x \in Nat |-> FlowsAt(r, x)]

\* The units of work that a flow receives from a until b.
Units(hist, a, b) ==
  {u \in (a .. b - 1) \X (1 .. Fine) : u[2] <= Fine \div Cardinality(hist[u[1]])}

\* A departure to come is no more than half a unit too late for some flow.
Tight ==
  \A d \in departures : ~Stale(d) =>
    \E k \in DOMAIN active[d.res] :
      active[d.res][k] * Cardinality(DOMAIN active[d.res]) + Fine \div 2
        < (d.time - last[d.res]) * Fine + Fine

\* The remaining work of a flow is what it has not received, and the time
\* charged to the resource is that with a flow.
Owed(r, k) ==
  /\ finish[k] = NotYet =>
       active[r][k] = Task(k).dur * Fine - Cardinality(Units(History(r), start[k], last[r]))
  /\ finish[k] # NotYet =>
       /\ finish[k] <= last[r]
       /\ 2 * (Task(k).dur * Fine - Cardinality(Units(History(r), start[k], finish[k])))
            \in -Fine .. Fine + 2 * Eps

Charged(r) == busy[r] = Cardinality({x \in 0 .. last[r] - 1 : History(r)[x] # {}})

FluidOn(r) == (\A k \in On(r) : start[k] # NotYet => Owed(r, k)) /\ Charged(r)

\* A product no larger than h has no factor larger than h.
LEMMA SmallFactor ==
  ASSUME NEW z \in Int, NEW n \in Nat \ {0}, NEW h \in Nat, z * n <= h
  PROVE  z <= h
<1> SUFFICES ASSUME h < z PROVE FALSE
  OBVIOUS
<1>1. z * n = z * (n - 1) + z
  OBVIOUS
<1>2. z * (n - 1) \in Nat
  OBVIOUS
<1> QED
  BY <1>1, <1>2

LEMMA ExactQuotient ==
  ASSUME NEW y \in Nat, NEW n \in Nat \ {0}
  PROVE  (y * n) \div n = y
<1> DEFINE s == y * n
           q == s \div n
<1>1. s \in Nat
  OBVIOUS
<1> HIDE DEF s
<1>2. q \in Nat /\ q * n <= s /\ s < q * n + n
  BY <1>1, Quotient
<1> HIDE DEF q
<1>3. ~(y < q)
  <2> SUFFICES ASSUME y + 1 <= q PROVE FALSE
    BY <1>2
  <2>1. (y + 1) * n <= q * n
    BY <1>2, TimesGrows
  <2>2. (y + 1) * n = y * n + n /\ y * n \in Nat /\ q * n \in Nat
    BY <1>2
  <2> QED
    BY <1>2, <2>1, <2>2 DEF s
<1>4. ~(q < y)
  <2> SUFFICES ASSUME q + 1 <= y PROVE FALSE
    BY <1>2
  <2>1. (q + 1) * n <= y * n
    BY <1>2, TimesGrows
  <2>2. (q + 1) * n = q * n + n /\ y * n \in Nat /\ q * n \in Nat
    BY <1>2
  <2> QED
    BY <1>2, <2>1, <2>2 DEF s
<1> QED
  BY <1>2, <1>3, <1>4 DEF q, s

LEMMA SpanSize ==
  ASSUME NEW a \in Nat, NEW b \in Nat, a <= b
  PROVE  IsFiniteSet(a .. b - 1) /\ Cardinality(a .. b - 1) = b - a
<1> DEFINE e == b - 1
<1>1. a \in Int /\ e \in Int /\ (a > e => b = a) /\ (a <= e => e - a + 1 = b - a)
  OBVIOUS
<1> HIDE DEF e
<1>2. /\ IsFiniteSet(a .. e)
      /\ Cardinality(a .. e) = IF a > e THEN 0 ELSE e - a + 1
  BY <1>1, FS_Interval
<1>3. Cardinality(a .. e) = b - a
  BY <1>1, <1>2
<1> QED
  BY <1>2, <1>3 DEF e

LEMMA UnitsFinite ==
  ASSUME NEW hist, NEW a \in Nat, NEW b \in Nat
  PROVE  IsFiniteSet(Units(hist, a, b))
<1> DEFINE X == a .. b - 1
           Y == 1 .. Fine
<1>1. IsFiniteSet(X) /\ IsFiniteSet(Y)
  <2>1. a \in Int /\ b - 1 \in Int /\ 1 \in Int /\ Fine \in Int
    BY SchedAssumption
  <2> QED
    BY <2>1, FS_Interval
<1>2. Units(hist, a, b) \in SUBSET (X \X Y)
  BY DEF Units
<1> HIDE DEF X, Y
<1>3. IsFiniteSet(X \X Y)
  BY <1>1, FS_Product
<1> QED
  BY <1>2, <1>3, FS_Subset

\* The share of one flow among n in y instants, and the same flows from b until c.
Given(y, n) == y * (Fine \div n)
Steady(hist, F, b, c) == \A x \in b .. c - 1 : hist[x] = F

\* While the flows stay the same, each receives its share of every instant.
LEMMA UnitsGrow ==
  ASSUME NEW hist, NEW a \in Nat, NEW b \in Nat, NEW c \in Nat, a <= b, b <= c,
         NEW F, Cardinality(F) \in Nat \ {0}, Steady(hist, F, b, c)
  PROVE  Cardinality(Units(hist, a, c))
           = Cardinality(Units(hist, a, b)) + Given(c - b, Cardinality(F))
<1> DEFINE q == Fine \div Cardinality(F)
           A == Units(hist, a, b)
           B == (b .. c - 1) \X (1 .. q)
           C == Units(hist, a, c)
<1>1. Fine \in Nat \ {0}
  BY SchedAssumption
<1>2. q \in Nat /\ q <= Fine
  <2> DEFINE n == Cardinality(F)
  <2>1. n \in Nat \ {0}
    OBVIOUS
  <2> HIDE DEF n
  <2>2. Fine \div n \in Nat /\ (Fine \div n) * n <= Fine
    BY <1>1, <2>1, Quotient
  <2>3. Fine \div n <= Fine
    BY <1>1, <2>1, <2>2, SmallFactor
  <2> QED
    BY <2>2, <2>3 DEF n
<1>3. \A x \in b .. c - 1 : Fine \div Cardinality(hist[x]) = q
  BY DEF Steady
<1> HIDE DEF q
<1>4. C = A \cup B
  <2>1. ASSUME NEW x \in b .. c - 1, NEW v \in 1 .. Fine
        PROVE  <<x, v>> \in C <=> <<x, v>> \in B
    BY <1>2, <1>3 DEF Units
  <2>2. ASSUME NEW x \in a .. b - 1, NEW v \in 1 .. Fine
        PROVE  <<x, v>> \in C <=> <<x, v>> \in A
    BY DEF Units
  <2>3. C \in SUBSET ((a .. c - 1) \X (1 .. Fine)) /\ A \in SUBSET ((a .. b - 1) \X (1 .. Fine))
    BY DEF Units
  <2>4. B \in SUBSET ((b .. c - 1) \X (1 .. Fine))
    BY <1>1, <1>2
  <2>5. (a .. c - 1) = (a .. b - 1) \cup (b .. c - 1)
    OBVIOUS
  <2> HIDE DEF A, B, C
  <2> QED
    BY <2>1, <2>2, <2>3, <2>4, <2>5
<1>5. A \cap B = {}
  BY DEF Units
<1>6. IsFiniteSet(A)
  BY UnitsFinite
<1>7. IsFiniteSet(B) /\ Cardinality(B) = (c - b) * q
  <2> DEFINE X == b .. c - 1
             Y == 1 .. q
  <2>1. IsFiniteSet(X) /\ Cardinality(X) = c - b
    BY SpanSize
  <2>2. IsFiniteSet(Y) /\ Cardinality(Y) = q
    BY <1>2, FS_Interval
  <2> HIDE DEF X, Y
  <2>3. IsFiniteSet(X \X Y) /\ Cardinality(X \X Y) = Cardinality(X) * Cardinality(Y)
    BY <2>1, <2>2, FS_Product
  <2> QED
    BY <2>1, <2>2, <2>3 DEF X, Y
<1> HIDE DEF A, B, C
<1>8. Cardinality(C) = Cardinality(A) + Cardinality(B) - Cardinality({})
  BY <1>4, <1>5, <1>6, <1>7, FS_Union
<1>9. Cardinality(A) \in Nat /\ Cardinality({}) = 0 /\ (c - b) * q \in Nat
  BY <1>2, <1>6, FS_CardinalityType, FS_EmptySet
<1> QED
  BY <1>7, <1>8, <1>9 DEF A, C, q, Given

LEMMA UnitsNone ==
  ASSUME NEW hist, NEW a \in Nat
  PROVE  Cardinality(Units(hist, a, a)) = 0
<1>1. Units(hist, a, a) = {}
  BY DEF Units
<1> QED
  BY <1>1, FS_EmptySet

\* Two histories that agree up to c.
Alike(hist, other, c) == \A x \in Nat : x < c => hist[x] = other[x]

LEMMA UnitsSame ==
  ASSUME NEW hist, NEW other, NEW a \in Nat, NEW b \in Nat, NEW c \in Nat, b <= c,
         Alike(hist, other, c)
  PROVE  Units(hist, a, b) = Units(other, a, b)
<1>1. \A x \in a .. b - 1 : hist[x] = other[x]
  BY DEF Alike
<1> QED
  BY <1>1 DEF Units

\* Since its last event a resource has had the flows it has now.
LEMMA FlowsNow ==
  ASSUME IInv, SharedStarts, NEW r \in Resources \cap Shared, FluidOn(r),
         NEW x \in Nat, last[r] <= x
  PROVE  History(r)[x] = DOMAIN active[r]
<1>1. /\ On(r) \in SUBSET Tasks /\ \A k \in On(r) : Task(k).res = r
      /\ last[r] \in Nat /\ DOMAIN active[r] \in SUBSET On(r)
      /\ start \in [Tasks -> Nat \cup {NotYet}] /\ finish \in [Tasks -> Nat \cup {NotYet}]
  BY GraphTyping DEF IInv, TypeOK
<1>2. ASSUME NEW k \in DOMAIN active[r] PROVE k \in FlowsAt(r, x)
  <2>1. k \in Unfinished /\ start[k] # NotYet /\ k \in Tasks
    BY <1>1 DEF IInv, Counts
  <2>2. start[k] <= last[r] /\ start[k] \in Nat
    BY <1>1, <2>1 DEF SharedStarts
  <2> QED
    BY <1>1, <2>1, <2>2 DEF FlowsAt, Unfinished
<1>3. ASSUME NEW k \in FlowsAt(r, x) PROVE k \in DOMAIN active[r]
  <2>1. k \in On(r) /\ k \in Tasks /\ start[k] # NotYet /\ (finish[k] = NotYet \/ x < finish[k])
    BY <1>1 DEF FlowsAt
  <2>2. finish[k] # NotYet => finish[k] <= last[r] /\ finish[k] \in Nat
    BY <1>1, <2>1 DEF FluidOn, Owed
  <2>3. k \in Unfinished
    BY <1>1, <2>1, <2>2 DEF Unfinished
  <2> QED
    BY <1>1, <2>1, <2>3 DEF IInv, Counts
<1> QED
  BY <1>2, <1>3 DEF History

\* The number of flows, and the share that is exact for it.
LEMMA ExactShare ==
  ASSUME IInv, Exact, NEW r \in Resources \cap Shared, DOMAIN active[r] # {}
  PROVE  \E p \in Nat : /\ Cardinality(DOMAIN active[r]) \in Nat \ {0}
                        /\ Fine = p * Cardinality(DOMAIN active[r])
                        /\ Fine \div Cardinality(DOMAIN active[r]) = p
                        /\ \A y \in Nat : (y * Fine) \div Cardinality(DOMAIN active[r]) = y * p
<1> DEFINE n == Cardinality(DOMAIN active[r])
<1>1. n \in Nat \ {0} /\ DOMAIN active[r] \in SUBSET On(r)
  BY AdvancedTypes
<1>2. IsFiniteSet(On(r))
  <2>1. On(r) \in SUBSET Tasks /\ IsFiniteSet(Tasks)
    BY GraphTyping DEF IInv, TypeOK
  <2> QED
    BY <2>1, FS_Subset
<1>3. n <= Cardinality(On(r)) /\ Cardinality(On(r)) \in Nat
  BY <1>1, <1>2, FS_Subset, FS_CardinalityType
<1> HIDE DEF n
<1>4. PICK p \in Nat : Fine = p * n
  BY <1>1, <1>3 DEF Exact
<1>5. Fine \div n = p
  BY <1>1, <1>4, ExactQuotient
<1>6. ASSUME NEW y \in Nat PROVE (y * Fine) \div n = y * p
  <2>1. y * p \in Nat /\ y * Fine = (y * p) * n
    BY <1>1, <1>4
  <2> HIDE DEF n
  <2>2. ((y * p) * n) \div n = y * p
    BY <1>1, <2>1, ExactQuotient
  <2> QED
    BY <2>1, <2>2
<1> QED
  BY <1>1, <1>4, <1>5, <1>6 DEF n

\* advance() takes off what a flow has received since the last event.
LEMMA Credited ==
  ASSUME IInv, SharedStarts, Exact, NEW r \in Resources \cap Shared, FluidOn(r),
         NEW now \in Nat, last[r] <= now, NEW k \in DOMAIN active[r]
  PROVE  /\ start[k] \in Nat /\ start[k] <= now
         /\ Advanced(r, now)[k]
              = Task(k).dur * Fine - Cardinality(Units(History(r), start[k], now))
<1> DEFINE n == Cardinality(DOMAIN active[r])
           a == start[k]
           b == last[r]
           hist == History(r)
<1>1. /\ k \in On(r) /\ k \in Tasks /\ Task(k).res = r /\ b \in Nat
      /\ start \in [Tasks -> Nat \cup {NotYet}]
      /\ Task(k).dur \in Nat /\ Fine \in Nat
  BY GraphTyping, SchedAssumption DEF IInv, TypeOK
<1>2. k \in Unfinished /\ start[k] # NotYet
  BY DEF IInv, Counts
<1>3. a \in Nat /\ a <= b
  BY <1>1, <1>2 DEF SharedStarts
<1>4. PICK p \in Nat : /\ n \in Nat \ {0} /\ Fine \div n = p
                       /\ \A y \in Nat : (y * Fine) \div n = y * p
  BY ExactShare
<1>5. \A x \in b .. now - 1 : hist[x] = DOMAIN active[r]
  BY <1>1, FlowsNow
<1>6. active[r][k] = Task(k).dur * Fine - Cardinality(Units(hist, a, b))
  BY <1>1, <1>2 DEF FluidOn, Owed, Unfinished
<1>7. Advanced(r, now)[k] = active[r][k] - ((now - b) * Fine) \div n
  BY AdvancedTypes
<1>b. b \in Nat /\ b <= now
  BY <1>1
<1> HIDE DEF hist, a, b
<1>8. Cardinality(Units(hist, a, now)) = Cardinality(Units(hist, a, b)) + (now - b) * (Fine \div n)
  <2> DEFINE F == DOMAIN active[r]
  <2>1. Cardinality(F) \in Nat \ {0} /\ Steady(hist, F, b, now)
    BY <1>4, <1>5 DEF Steady
  <2> HIDE DEF F
  <2>2. Cardinality(Units(hist, a, now))
          = Cardinality(Units(hist, a, b)) + Given(now - b, Cardinality(F))
    BY <1>3, <1>b, <2>1, UnitsGrow
  <2> QED
    BY <2>2 DEF F, Given
<1> HIDE DEF n
<1>9. ((now - b) * Fine) \div n = (now - b) * p /\ (now - b) * p \in Nat
  <2>1. now - b \in Nat
    BY <1>1 DEF b
  <2> QED
    BY <1>4, <2>1
<1>10. Cardinality(Units(hist, a, b)) \in Int /\ Task(k).dur * Fine \in Int
  <2>1. active[r][k] \in Nat
    BY AdvancedTypes
  <2>2. Task(k).dur * Fine \in Nat
    BY <1>1
  <2>3. IsFiniteSet(Units(hist, a, b))
    BY <1>1, <1>3, UnitsFinite DEF b
  <2> QED
    BY <2>2, <2>3, FS_CardinalityType
<1>11. Advanced(r, now)[k] = Task(k).dur * Fine - Cardinality(Units(hist, a, now))
  <2> DEFINE w == Task(k).dur * Fine
             c == Cardinality(Units(hist, a, b))
             g == (now - b) * p
  <2>1. /\ w \in Int /\ c \in Int /\ g \in Int
        /\ Cardinality(Units(hist, a, now)) = c + g
        /\ Advanced(r, now)[k] = (w - c) - g
    BY <1>4, <1>6, <1>7, <1>8, <1>9, <1>10
  <2> HIDE DEF w, c, g
  <2>2. Advanced(r, now)[k] = w - (c + g)
    BY <2>1
  <2> QED
    BY <2>1, <2>2 DEF w
<1> QED
  BY <1>1, <1>3, <1>11 DEF a, b, hist

\* Up to now the resource had a flow for the time charged and the time since.
LEMMA Charges ==
  ASSUME IInv, SharedStarts, NEW r \in Resources \cap Shared, FluidOn(r),
         NEW now \in Nat, last[r] <= now
  PROVE  busy[r] + Worked(r, now) = Cardinality({x \in 0 .. now - 1 : History(r)[x] # {}})
<1> DEFINE b == last[r]
           hist == History(r)
           A == {x \in 0 .. b - 1 : hist[x] # {}}
           C == {x \in 0 .. now - 1 : hist[x] # {}}
           B == b .. now - 1
<1>1. b \in Nat /\ busy[r] = Cardinality(A) /\ busy[r] \in Nat
  BY DEF IInv, TypeOK, FluidOn, Charged
<1>2. \A x \in B : hist[x] = DOMAIN active[r]
  BY <1>1, FlowsNow
<1> HIDE DEF hist, b
<1>3. CASE DOMAIN active[r] = {}
  <2>1. C = A
    BY <1>1, <1>2, <1>3 DEF b
  <2>2. Worked(r, now) = 0
    BY <1>3 DEF Worked
  <2>3. busy[r] + Worked(r, now) = Cardinality(C)
    <3> HIDE DEF A, C
    <3> QED
      BY <1>1, <2>1, <2>2
  <2> QED
    BY <2>3 DEF hist
<1>4. CASE DOMAIN active[r] # {}
  <2>1. C = A \cup B /\ A \cap B = {}
    BY <1>1, <1>2, <1>4 DEF b
  <2>2. IsFiniteSet(B) /\ Cardinality(B) = now - b
    <3>1. b \in Nat /\ b <= now
      BY <1>1 DEF b
    <3> QED
      BY <3>1, SpanSize
  <2>3. IsFiniteSet(A)
    <3>1. 0 \in Int /\ b - 1 \in Int /\ A \in SUBSET (0 .. b - 1)
      BY <1>1
    <3> HIDE DEF A
    <3> QED
      BY <3>1, FS_Interval, FS_Subset
  <2> HIDE DEF A, B
  <2>4. Cardinality(A \cup B) = Cardinality(A) + Cardinality(B) - Cardinality({})
    BY <2>1, <2>2, <2>3, FS_Union
  <2>5. Cardinality({}) = 0
    BY FS_EmptySet
  <2>6. Worked(r, now) = now - b
    BY <1>4 DEF Worked, b
  <2>7. Cardinality(A \cup B) = busy[r] + (now - b)
    BY <1>1, <2>2, <2>4, <2>5
  <2> QED
    BY <2>1, <2>6, <2>7 DEF hist
<1> QED
  BY <1>3, <1>4

\* A flow leaves with no more than half an instant of work lost to the rounding.
LEMMA LeavesRight ==
  ASSUME IInv, Exact, Tight, NEW d \in departures, ~Stale(d), last[d.res] <= d.time,
         NEW k \in DOMAIN active[d.res],
         \/ Advanced(d.res, d.time)[k] <= Eps
         \/ \A j \in DOMAIN active[d.res] :
              Advanced(d.res, d.time)[k] <= Advanced(d.res, d.time)[j]
  PROVE  /\ Advanced(d.res, d.time)[k] \in Int
         /\ 2 * Advanced(d.res, d.time)[k] \in -Fine .. Fine + 2 * Eps
<1> DEFINE r == d.res
           n == Cardinality(DOMAIN active[r])
           y == d.time - last[r]
           half == Fine \div 2
           left(j) == Advanced(r, d.time)[j]
<1>1. d.time \in Nat /\ r \in Resources \cap Shared /\ Eps \in Nat
  BY SchedAssumption DEF IInv, TypeOK
<1>2. /\ \A j \in DOMAIN active[r] : active[r][j] \in Nat /\ left(j) = active[r][j] - (y * Fine) \div n
      /\ last[r] \in Nat /\ Fine \in Nat \ {0}
  BY <1>1, AdvancedTypes
<1>3. y \in Nat
  BY <1>1, <1>2
<1>4. PICK p \in Nat : /\ n \in Nat \ {0} /\ Fine = p * n
                       /\ \A x \in Nat : (x * Fine) \div n = x * p
  BY <1>1, ExactShare
<1>5. half \in Nat /\ half * 2 <= Fine /\ Fine <= half * 2 + 1
  BY <1>2
<1>6. y * Fine <= active[r][k] * n + half
  BY <1>1 DEF IInv, Clocks
<1>7. PICK m \in DOMAIN active[r] : active[r][m] * n + half < y * Fine + Fine
  BY DEF Tight
<1> HIDE DEF half, y, n
<1>8. ASSUME NEW j \in DOMAIN active[r]
      PROVE  left(j) \in Int /\ left(j) * n = active[r][j] * n - y * Fine
  <2> DEFINE a == active[r][j]
             g == y * p
  <2>1. a \in Nat /\ g \in Nat /\ left(j) = a - g /\ g * n = y * Fine
    BY <1>2, <1>3, <1>4
  <2> HIDE DEF a, g, left
  <2>2. (a - g) * n = a * n - g * n
    BY <1>4, <2>1
  <2> QED
    BY <2>1, <2>2 DEF a
<1>9. -Fine <= 2 * left(k)
  <2> DEFINE z == left(k)
             w == active[r][k] * n
  <2>1. z \in Int /\ z * n = w - y * Fine /\ y * Fine <= w + half /\ w \in Nat /\ y * Fine \in Nat
    BY <1>2, <1>3, <1>4, <1>6, <1>8
  <2> HIDE DEF z, w
  <2>2. (-z) * n <= half /\ -z \in Int
    <3>1. (-z) * n = -(z * n)
      BY <1>4, <2>1
    <3> QED
      BY <1>5, <2>1, <3>1
  <2>3. -z <= half
    BY <1>4, <1>5, <2>2, SmallFactor
  <2>4. -Fine <= 2 * z
    BY <1>2, <1>5, <2>1, <2>3
  <2> QED
    BY <2>4 DEF z
<1>10. 2 * left(m) <= Fine
  <2> DEFINE z == left(m)
             w == active[r][m] * n
             h == Fine - half - 1
  <2>1. /\ z \in Int /\ z * n = w - y * Fine /\ w + half < y * Fine + Fine
        /\ w \in Nat /\ y * Fine \in Nat
    BY <1>2, <1>3, <1>4, <1>7, <1>8
  <2>2. h \in Nat /\ 2 * h <= Fine /\ h + half + 1 = Fine
    BY <1>2, <1>5
  <2> HIDE DEF z, w, h
  <2>3. z * n <= h
    BY <1>2, <1>5, <2>1, <2>2
  <2>4. z <= h
    BY <1>4, <2>1, <2>2, <2>3, SmallFactor
  <2>5. 2 * z <= Fine
    BY <1>2, <2>1, <2>2, <2>4
  <2> QED
    BY <2>5 DEF z
<1>11. left(k) <= Eps \/ left(k) <= left(m)
  OBVIOUS
<1>12. left(k) \in Int /\ left(m) \in Int
  BY <1>8
<1> HIDE DEF left
<1>13. 2 * left(k) <= Fine + 2 * Eps
  BY <1>1, <1>2, <1>10, <1>11, <1>12
<1>14. left(k) \in Int /\ 2 * left(k) \in -Fine .. Fine + 2 * Eps
  BY <1>1, <1>2, <1>9, <1>12, <1>13
<1> QED
  BY <1>14 DEF left

LEMMA TightChange ==
  ASSUME IInv, Tight, graph' = graph, NEW r \in Resources \cap Shared, NEW now \in Nat,
         NEW S \in SUBSET On(r), NEW flows \in [S -> Nat],
         active' = [active EXCEPT ![r] = flows],
         last' = [last EXCEPT ![r] = now],
         epoch' = [epoch EXCEPT ![r] = @ + 1],
         NEW pending \in SUBSET departures,
         departures' = pending \cup DepartureOf(r, flows, now)
  PROVE  Tight'
<1> DEFINE R == Resources \cap Shared
           pushed == DepartureOf(r, flows, now)
<1>1. /\ active \in [R -> FlowsOf(Tasks)] /\ last \in [R -> Nat] /\ epoch \in [R -> Nat]
      /\ departures \in SUBSET [time : Nat, res : R, epoch : Nat]
      /\ On(r) \in SUBSET Tasks /\ IsFiniteSet(Tasks)
  BY GraphTyping DEF IInv, TypeOK
<1>2. DOMAIN flows = S /\ IsFiniteSet(S)
  BY <1>1, FS_Subset
<1>3. /\ active'[r] = flows /\ last'[r] = now /\ epoch'[r] = epoch[r] + 1
      /\ \A q \in R : q # r => /\ active'[q] = active[q] /\ last'[q] = last[q]
                               /\ epoch'[q] = epoch[q]
  BY <1>1
<1>4. ASSUME NEW e \in pushed
      PROVE  \E k \in DOMAIN active'[e.res] :
               active'[e.res][k] * Cardinality(DOMAIN active'[e.res]) + Fine \div 2
                 < (e.time - last'[e.res]) * Fine + Fine
  <2>1. S # {}
    BY <1>2, <1>4 DEF DepartureOf
  <2>2. PICK t \in Nat :
          /\ pushed = {[time |-> t, res |-> r, epoch |-> epoch[r] + 1]}
          /\ \E k \in S : flows[k] * Cardinality(S) + Fine \div 2 < (t - now) * Fine + Fine
    BY <1>2, <2>1, DepartureTime
  <2> HIDE DEF pushed
  <2>3. e.res = r /\ e.time = t
    BY <1>4, <2>2
  <2> QED
    BY <1>2, <1>3, <2>2, <2>3
<1>5. ASSUME NEW e \in pending, ~Stale(e)'
      PROVE  \E k \in DOMAIN active'[e.res] :
               active'[e.res][k] * Cardinality(DOMAIN active'[e.res]) + Fine \div 2
                 < (e.time - last'[e.res]) * Fine + Fine
  <2>1. e \in departures /\ e.res \in R /\ e.epoch \in Nat
    BY <1>1
  <2>2. e.epoch <= epoch[e.res] /\ epoch[e.res] \in Nat
    BY <1>1, <2>1 DEF IInv, Clocks
  <2>3. e.epoch = epoch'[e.res] /\ DOMAIN active'[e.res] # {}
    BY <1>5 DEF Stale
  <2>4. e.res # r
    BY <1>3, <2>1, <2>2, <2>3
  <2>5. active'[e.res] = active[e.res] /\ last'[e.res] = last[e.res] /\ ~Stale(e)
    BY <1>3, <2>1, <2>3, <2>4 DEF Stale
  <2>6. \E k \in DOMAIN active[e.res] :
          active[e.res][k] * Cardinality(DOMAIN active[e.res]) + Fine \div 2
            < (e.time - last[e.res]) * Fine + Fine
    BY <2>1, <2>5 DEF Tight
  <2> QED
    BY <2>5, <2>6
<1> HIDE DEF pushed
<1>6. \A e \in departures' : e \in pending \/ e \in pushed
  BY DEF pushed
<1> QED
  BY <1>4, <1>5, <1>6 DEF Tight

\* What is past does not change: a flow starts, or ends, now.
LEMMA FlowsStay ==
  ASSUME IInv, graph' = graph, NEW r \in Resources \cap Shared, NEW now \in Nat,
         \A k \in On(r) : \/ start'[k] = start[k] /\ finish'[k] = finish[k]
                          \/ start[k] = NotYet /\ start'[k] = now
                          \/ start'[k] = start[k] /\ finish[k] = NotYet /\ finish'[k] = now
  PROVE  Alike(History(r)', History(r), now)
<1>1. On(r)' = On(r) /\ NotYet' = NotYet /\ now # NotYet
  BY Static DEF NotYet
<1>2. ASSUME NEW x \in Nat, x < now PROVE FlowsAt(r, x)' = FlowsAt(r, x)
  <2>1. ASSUME NEW k \in On(r)
        PROVE  (start'[k] # NotYet /\ start'[k] <= x /\ (finish'[k] = NotYet \/ x < finish'[k]))
           <=> (start[k] # NotYet /\ start[k] <= x /\ (finish[k] = NotYet \/ x < finish[k]))
    BY <1>1, <1>2
  <2> QED
    BY <1>1, <2>1 DEF FlowsAt
<1>3. ASSUME NEW x \in Nat PROVE History(r)[x] = FlowsAt(r, x) /\ History(r)'[x] = FlowsAt(r, x)'
  BY DEF History
<1> QED
  BY <1>2, <1>3 DEF Alike

LEMMA FluidNext ==
  ASSUME graph' = graph, NEW r \in Resources \cap Shared,
         \A k \in On(r) : start'[k] # NotYet =>
           /\ finish'[k] = NotYet =>
                active'[r][k] = Task(k).dur * Fine
                                  - Cardinality(Units(History(r)', start'[k], last'[r]))
           /\ finish'[k] # NotYet =>
                /\ finish'[k] <= last'[r]
                /\ 2 * (Task(k).dur * Fine
                          - Cardinality(Units(History(r)', start'[k], finish'[k])))
                     \in -Fine .. Fine + 2 * Eps,
         busy'[r] = Cardinality({x \in 0 .. last'[r] - 1 : History(r)'[x] # {}})
  PROVE  FluidOn(r)'
<1>1. On(r)' = On(r) /\ \A k : Task(k)' = Task(k)
  BY Static
<1>2. \A k \in On(r) : start'[k] # NotYet => Owed(r, k)'
  BY <1>1 DEF Owed, Units, NotYet
<1>3. Charged(r)'
  BY DEF Charged
<1> QED
  BY <1>1, <1>2, <1>3 DEF FluidOn, NotYet

\* A resource that has no part in the step.
LEMMA FluidSame ==
  ASSUME IInv, graph' = graph, NEW r \in Resources \cap Shared, FluidOn(r),
         active'[r] = active[r], last'[r] = last[r], busy'[r] = busy[r],
         \A k \in On(r) : start'[k] = start[k] /\ finish'[k] = finish[k]
  PROVE  FluidOn(r)'
<1>1. History(r)' = History(r)
  <2>1. On(r)' = On(r)
    BY Static
  <2>2. \A x \in Nat : FlowsAt(r, x)' = FlowsAt(r, x)
    BY <2>1 DEF FlowsAt, NotYet
  <2> QED
    BY <2>2 DEF History
<1>2. \A k \in On(r) : start'[k] # NotYet =>
        /\ finish'[k] = NotYet =>
             active'[r][k] = Task(k).dur * Fine
                               - Cardinality(Units(History(r)', start'[k], last'[r]))
        /\ finish'[k] # NotYet =>
             /\ finish'[k] <= last'[r]
             /\ 2 * (Task(k).dur * Fine
                       - Cardinality(Units(History(r)', start'[k], finish'[k])))
                  \in -Fine .. Fine + 2 * Eps
  BY <1>1 DEF FluidOn, Owed
<1>3. busy'[r] = Cardinality({x \in 0 .. last'[r] - 1 : History(r)'[x] # {}})
  BY <1>1 DEF FluidOn, Charged
<1> QED
  BY <1>2, <1>3, FluidNext

\* An event of the resource now: flows leave, or one is new.
LEMMA FluidChange ==
  ASSUME IInv, SharedStarts, Exact, graph' = graph,
         NEW r \in Resources \cap Shared, FluidOn(r), NEW now \in Nat, last[r] <= now,
         last'[r] = now, busy'[r] = busy[r] + Worked(r, now),
         \A k \in On(r) :
           \/ start'[k] = start[k] /\ finish'[k] = finish[k] /\ k \notin DOMAIN active[r]
           \/ /\ start'[k] = start[k] /\ finish'[k] = finish[k] /\ k \in DOMAIN active[r]
              /\ active'[r][k] = Advanced(r, now)[k]
           \/ /\ start'[k] = start[k] /\ finish'[k] = now /\ k \in DOMAIN active[r]
              /\ 2 * Advanced(r, now)[k] \in -Fine .. Fine + 2 * Eps
           \/ /\ start[k] = NotYet /\ start'[k] = now /\ finish'[k] = NotYet
              /\ active'[r][k] = Task(k).dur * Fine
  PROVE  FluidOn(r)'
<1> DEFINE old == History(r)
           new == History(r)'
<1>1. /\ On(r) \in SUBSET Tasks /\ now # NotYet
      /\ \A k \in On(r) : Task(k).res = r /\ Task(k).dur \in Nat
      /\ start \in [Tasks -> Nat \cup {NotYet}] /\ finish \in [Tasks -> Nat \cup {NotYet}]
      /\ last[r] \in Nat /\ Fine \in Nat
      /\ \A k \in DOMAIN active[r] : k \in On(r) /\ finish[k] = NotYet /\ start[k] # NotYet
      /\ \A k \in On(r) : finish[k] = NotYet /\ start[k] # NotYet => k \in DOMAIN active[r]
  <2>1. /\ On(r) \in SUBSET Tasks /\ now # NotYet
        /\ \A k \in On(r) : Task(k).res = r /\ Task(k).dur \in Nat
        /\ start \in [Tasks -> Nat \cup {NotYet}] /\ finish \in [Tasks -> Nat \cup {NotYet}]
        /\ last[r] \in Nat /\ Fine \in Nat /\ DOMAIN active[r] \in SUBSET On(r)
    BY GraphTyping, SchedAssumption DEF IInv, TypeOK, NotYet
  <2>2. \A k \in DOMAIN active[r] : finish[k] = NotYet /\ start[k] # NotYet
    BY DEF IInv, Counts, Unfinished
  <2>3. \A k \in On(r) : finish[k] = NotYet /\ start[k] # NotYet => k \in DOMAIN active[r]
    BY <2>1 DEF IInv, Counts, Unfinished
  <2> QED
    BY <2>1, <2>2, <2>3
<1>2. Alike(new, old, now)
  BY <1>1, FlowsStay
<1> HIDE DEF new
<1>3. ASSUME NEW k \in DOMAIN active[r]
      PROVE  /\ start[k] \in Nat /\ Units(new, start[k], now) = Units(old, start[k], now)
             /\ Advanced(r, now)[k] = Task(k).dur * Fine - Cardinality(Units(old, start[k], now))
  <2>1. /\ start[k] \in Nat
        /\ Advanced(r, now)[k] = Task(k).dur * Fine - Cardinality(Units(old, start[k], now))
    BY Credited
  <2> HIDE DEF old
  <2>2. now <= now
    OBVIOUS
  <2>3. Units(new, start[k], now) = Units(old, start[k], now)
    BY <1>2, <2>1, <2>2, UnitsSame
  <2> QED
    BY <2>1, <2>3
<1>4. ASSUME NEW k \in On(r), start'[k] # NotYet
      PROVE  /\ finish'[k] = NotYet =>
                  active'[r][k] = Task(k).dur * Fine - Cardinality(Units(new, start'[k], now))
             /\ finish'[k] # NotYet =>
                  /\ finish'[k] <= now
                  /\ 2 * (Task(k).dur * Fine - Cardinality(Units(new, start'[k], finish'[k])))
                       \in -Fine .. Fine + 2 * Eps
  <2>1. CASE start'[k] = start[k] /\ finish'[k] = finish[k] /\ k \notin DOMAIN active[r]
    <3>1. finish[k] # NotYet /\ finish[k] \in Nat /\ start[k] \in Nat
      BY <1>1, <1>4, <2>1
    <3>2. /\ finish[k] <= last[r] /\ finish[k] <= now
          /\ 2 * (Task(k).dur * Fine - Cardinality(Units(old, start[k], finish[k])))
               \in -Fine .. Fine + 2 * Eps
      BY <1>1, <1>4, <2>1, <3>1 DEF FluidOn, Owed
    <3> HIDE DEF old
    <3>3. Units(new, start[k], finish[k]) = Units(old, start[k], finish[k])
      BY <1>2, <3>1, <3>2, UnitsSame
    <3> QED
      BY <2>1, <3>1, <3>2, <3>3
  <2>2. CASE /\ start'[k] = start[k] /\ finish'[k] = finish[k] /\ k \in DOMAIN active[r]
             /\ active'[r][k] = Advanced(r, now)[k]
    BY <1>1, <1>3, <2>2
  <2>3. CASE /\ start'[k] = start[k] /\ finish'[k] = now /\ k \in DOMAIN active[r]
             /\ 2 * Advanced(r, now)[k] \in -Fine .. Fine + 2 * Eps
    BY <1>1, <1>3, <2>3
  <2>4. CASE /\ start[k] = NotYet /\ start'[k] = now /\ finish'[k] = NotYet
             /\ active'[r][k] = Task(k).dur * Fine
    <3>1. Cardinality(Units(new, now, now)) = 0
      BY UnitsNone
    <3>2. Task(k).dur * Fine - 0 = Task(k).dur * Fine
      <4>1. Task(k).dur * Fine \in Nat
        BY <1>1
      <4> QED
        BY <4>1
    <3> QED
      BY <2>4, <3>1, <3>2
  <2> QED
    BY <2>1, <2>2, <2>3, <2>4
<1>5. busy'[r] = Cardinality({x \in 0 .. now - 1 : new[x] # {}})
  <2>1. busy[r] + Worked(r, now) = Cardinality({x \in 0 .. now - 1 : old[x] # {}})
    BY Charges
  <2>2. {x \in 0 .. now - 1 : old[x] # {}} = {x \in 0 .. now - 1 : new[x] # {}}
    BY <1>2 DEF Alike
  <2> QED
    BY <2>1, <2>2
<1> QED
  BY <1>4, <1>5, FluidNext DEF new

\* What the flows received is as due, whatever the resource.
Fluid == \A r \in Resources \cap Shared : FluidOn(r)

FluidInv == SharedStarts /\ Exact /\ Tight /\ Fluid

LEMMA FluidInit == Init /\ Exact => FluidInv
<1> SUFFICES ASSUME Init, Exact PROVE FluidInv
  OBVIOUS
<1>1. IInv /\ departures = {} /\ \A k \in Tasks : start[k] = NotYet
  BY InitInv, InitState
<1>2. \A r \in Resources \cap Shared : last[r] = 0 /\ busy[r] = 0
  BY InitState DEF Init, Begin, Fresh, Resources, Shared, Tasks, Task
<1>3. \A r \in Resources \cap Shared : On(r) \in SUBSET Tasks
  BY <1>1, GraphTyping DEF IInv, TypeOK
<1>4. ASSUME NEW r \in Resources \cap Shared PROVE FluidOn(r)
  <2>1. \A k \in On(r) : start[k] = NotYet
    BY <1>1, <1>3
  <2>2. {x \in 0 .. last[r] - 1 : History(r)[x] # {}} = {}
    BY <1>2
  <2>3. Charged(r)
    BY <1>2, <2>2, FS_EmptySet DEF Charged
  <2> QED
    BY <2>1, <2>3 DEF FluidOn
<1>5. SharedStarts /\ Tight
  BY <1>1 DEF SharedStarts, Tight
<1> QED
  BY <1>4, <1>5 DEF FluidInv, Fluid

LEMMA ExactStays ==
  ASSUME graph' = graph, Exact
  PROVE  Exact'
BY Static DEF Exact

LEMMA FluidDepart ==
  ASSUME IInv, FluidInv, Depart
  PROVE  Tight' /\ Fluid'
<1>a. PICK d \in departures :
        \E gone \in SUBSET DOMAIN active[d.res] :
          \E stay \in [DOMAIN active[d.res] \ gone -> Nat] : DepartsAs(d, gone, stay)
  BY DepartOf
<1>b. PICK gone \in SUBSET DOMAIN active[d.res] :
        \E stay \in [DOMAIN active[d.res] \ gone -> Nat] : DepartsAs(d, gone, stay)
  BY <1>a
<1>c. PICK stay \in [DOMAIN active[d.res] \ gone -> Nat] : DepartsAs(d, gone, stay)
  BY <1>b
<1> DEFINE r == d.res
           now == d.time
<1>1. /\ d \in NextDepartures /\ ~Stale(d) /\ DepartsFirst(d)
      /\ \A k \in DOMAIN active[r] \ gone : stay[k] = Advanced(r, now)[k]
      /\ \A k \in gone : \/ Advanced(r, now)[k] <= Eps
                         \/ \A j \in DOMAIN active[r] : Advanced(r, now)[k] <= Advanced(r, now)[j]
      /\ active' = [active EXCEPT ![r] = stay]
      /\ last' = [last EXCEPT ![r] = now]
      /\ busy' = [busy EXCEPT ![r] = @ + Worked(r, now)]
      /\ epoch' = [epoch EXCEPT ![r] = @ + 1]
      /\ departures' = (departures \ {d}) \cup DepartureOf(r, stay, now)
      /\ finish' = [k \in Tasks |-> IF k \in gone THEN now ELSE finish[k]]
      /\ graph' = graph /\ start' = start
  BY <1>c DEF DepartsAs, Release
<1>2. now \in Nat /\ r \in Resources \cap Shared /\ last[r] <= now
  BY <1>1, DepartureIsNext
<1>3. /\ \A q \in Resources \cap Shared :
           /\ On(q) \in SUBSET Tasks /\ DOMAIN active[q] \in SUBSET On(q)
           /\ \A k \in On(q) : Task(k).res = q
      /\ active \in [Resources \cap Shared -> FlowsOf(Tasks)]
      /\ last \in [Resources \cap Shared -> Nat] /\ busy \in [Resources -> Nat]
  BY GraphTyping DEF IInv, TypeOK
<1>4. gone \in SUBSET DOMAIN active[r] /\ gone \in SUBSET On(r)
  BY <1>2, <1>3
<1>5. Tight'
  <2> DEFINE S == DOMAIN active[r] \ gone
             pending == departures \ {d}
  <2>1. /\ S \in SUBSET On(r) /\ stay \in [S -> Nat] /\ pending \in SUBSET departures
        /\ departures' = pending \cup DepartureOf(r, stay, now)
    BY <1>1, <1>2, <1>3
  <2> HIDE DEF S, pending
  <2> QED
    BY <1>1, <1>2, <2>1, TightChange DEF FluidInv
<1>6. FluidOn(r)'
  <2>1. /\ last'[r] = now /\ busy'[r] = busy[r] + Worked(r, now) /\ active'[r] = stay
    BY <1>1, <1>2, <1>3
  <2>2. ASSUME NEW k \in On(r)
        PROVE  \/ start'[k] = start[k] /\ finish'[k] = finish[k] /\ k \notin DOMAIN active[r]
               \/ /\ start'[k] = start[k] /\ finish'[k] = finish[k] /\ k \in DOMAIN active[r]
                  /\ active'[r][k] = Advanced(r, now)[k]
               \/ /\ start'[k] = start[k] /\ finish'[k] = now /\ k \in DOMAIN active[r]
                  /\ 2 * Advanced(r, now)[k] \in -Fine .. Fine + 2 * Eps
    <3>1. k \in Tasks
      BY <1>2, <1>3
    <3>2. CASE k \in gone
      <4>1. 2 * Advanced(r, now)[k] \in -Fine .. Fine + 2 * Eps
        BY <1>1, <1>2, <1>4, <3>2, LeavesRight DEF FluidInv
      <4> QED
        BY <1>1, <1>4, <3>1, <3>2, <4>1
    <3>3. CASE k \notin gone
      <4>1. start'[k] = start[k] /\ finish'[k] = finish[k]
        BY <1>1, <3>1, <3>3
      <4>2. k \in DOMAIN active[r] => active'[r][k] = Advanced(r, now)[k]
        BY <1>1, <2>1, <3>3
      <4> QED
        BY <4>1, <4>2
    <3> QED
      BY <3>2, <3>3
  <2>3. FluidOn(r)
    BY <1>2 DEF FluidInv, Fluid
  <2> HIDE DEF r, now
  <2> QED
    BY <1>1, <1>2, <2>1, <2>2, <2>3, FluidChange DEF FluidInv
<1>7. ASSUME NEW q \in Resources \cap Shared, q # r PROVE FluidOn(q)'
  <2>1. active'[q] = active[q] /\ last'[q] = last[q] /\ busy'[q] = busy[q]
    BY <1>1, <1>3, <1>7
  <2>2. \A k \in On(q) : start'[k] = start[k] /\ finish'[k] = finish[k]
    <3>1. \A k \in On(q) : k \in Tasks /\ k \notin gone
      BY <1>2, <1>3, <1>4, <1>7
    <3> QED
      BY <1>1, <3>1
  <2>3. FluidOn(q)
    BY DEF FluidInv, Fluid
  <2> QED
    BY <1>1, <2>1, <2>2, <2>3, FluidSame
<1>8. Resources' = Resources /\ Shared' = Shared
  BY <1>1, Static
<1>9. Fluid'
  BY <1>6, <1>7, <1>8 DEF Fluid
<1> QED
  BY <1>5, <1>9

LEMMA FluidShared ==
  ASSUME IInv, FluidInv, StartShared
  PROVE  Tight' /\ Fluid'
<1>1. PICK x \in NextReady, r \in Resources \cap Shared :
        \E S \in SUBSET On(r) : \E flows \in [S -> Nat] : SharesAs(x, r, S, flows)
  BY StartSharedOf
<1>2. PICK S \in SUBSET On(r) : \E flows \in [S -> Nat] : SharesAs(x, r, S, flows)
  BY <1>1
<1>3. PICK flows \in [S -> Nat] : SharesAs(x, r, S, flows)
  BY <1>2
<1> DEFINE k == x[2]
           now == x[1]
<1>4. /\ StartsNext /\ r = Task(k).res
      /\ S = DOMAIN active[r] \cup {k} /\ k \notin DOMAIN active[r]
      /\ flows[k] = Task(k).dur * Fine
      /\ \A j \in DOMAIN active[r] : flows[j] = Advanced(r, now)[j]
      /\ active' = [active EXCEPT ![r] = flows]
      /\ last' = [last EXCEPT ![r] = now]
      /\ busy' = [busy EXCEPT ![r] = @ + Worked(r, now)]
      /\ epoch' = [epoch EXCEPT ![r] = @ + 1]
      /\ start' = [start EXCEPT ![k] = now]
      /\ departures' = departures \cup DepartureOf(r, flows, now)
      /\ graph' = graph /\ finish' = finish
  BY <1>3 DEF SharesAs
<1>5. /\ now \in Nat /\ k \in Tasks /\ k \in Unfinished /\ start[k] = NotYet
      /\ last[r] <= now
  BY <1>4, StartIsNext
<1>6. /\ \A q \in Resources \cap Shared :
           On(q) \in SUBSET Tasks /\ \A j \in On(q) : Task(j).res = q
      /\ active \in [Resources \cap Shared -> FlowsOf(Tasks)]
      /\ last \in [Resources \cap Shared -> Nat] /\ busy \in [Resources -> Nat]
      /\ start \in [Tasks -> Nat \cup {NotYet}]
  BY GraphTyping DEF IInv, TypeOK
<1>7. start'[k] = now /\ \A j \in Tasks : j # k => start'[j] = start[j]
  BY <1>4, <1>5, <1>6
<1>8. Tight'
  <2>1. departures \in SUBSET departures
    OBVIOUS
  <2> HIDE DEF now
  <2> QED
    BY <1>4, <1>5, <2>1, TightChange DEF FluidInv
<1>9. FluidOn(r)'
  <2>1. last'[r] = now /\ busy'[r] = busy[r] + Worked(r, now) /\ active'[r] = flows
    BY <1>4, <1>6
  <2>2. ASSUME NEW j \in On(r)
        PROVE  \/ start'[j] = start[j] /\ finish'[j] = finish[j] /\ j \notin DOMAIN active[r]
               \/ /\ start'[j] = start[j] /\ finish'[j] = finish[j] /\ j \in DOMAIN active[r]
                  /\ active'[r][j] = Advanced(r, now)[j]
               \/ /\ start[j] = NotYet /\ start'[j] = now /\ finish'[j] = NotYet
                  /\ active'[r][j] = Task(j).dur * Fine
    <3>1. j \in Tasks
      BY <1>6
    <3>2. CASE j = k
      BY <1>4, <1>5, <1>7, <2>1, <3>2 DEF Unfinished
    <3>3. CASE j # k
      BY <1>4, <1>7, <2>1, <3>1, <3>3
    <3> QED
      BY <3>2, <3>3
  <2>3. FluidOn(r)
    BY DEF FluidInv, Fluid
  <2> HIDE DEF now, k
  <2> QED
    BY <1>4, <1>5, <2>1, <2>2, <2>3, FluidChange DEF FluidInv
<1>10. ASSUME NEW q \in Resources \cap Shared, q # r PROVE FluidOn(q)'
  <2>1. active'[q] = active[q] /\ last'[q] = last[q] /\ busy'[q] = busy[q]
    BY <1>4, <1>6, <1>10
  <2>2. \A j \in On(q) : start'[j] = start[j] /\ finish'[j] = finish[j]
    <3>1. \A j \in On(q) : j \in Tasks /\ j # k
      BY <1>4, <1>6, <1>10
    <3> QED
      BY <1>4, <1>7, <3>1
  <2>3. FluidOn(q)
    BY DEF FluidInv, Fluid
  <2> QED
    BY <1>4, <2>1, <2>2, <2>3, FluidSame
<1>11. Resources' = Resources /\ Shared' = Shared
  BY <1>4, Static
<1>12. Fluid'
  BY <1>9, <1>10, <1>11 DEF Fluid
<1> QED
  BY <1>8, <1>12

LEMMA FluidFifo ==
  ASSUME IInv, FluidInv, StartFifo
  PROVE  Tight' /\ Fluid'
<1>a. PICK x \in NextReady, r \in Resources \ Shared :
        \E i \in DOMAIN slots[r] : \E st \in Nat : FifoAs(x, r, i, st)
  BY StartFifoOf
<1>b. PICK i \in DOMAIN slots[r], st \in Nat : FifoAs(x, r, i, st)
  BY <1>a
<1>1. /\ r = Task(x[2]).res
      /\ busy' = [busy EXCEPT ![r] = @ + Task(x[2]).dur]
      /\ UNCHANGED <<graph, departures, active, last, epoch>>
  BY <1>b DEF FifoAs
<1>2. \A c \in Tasks : c # x[2] => finish'[c] = finish[c] /\ start'[c] = start[c]
  BY <1>b, FifoFacts
<1>3. /\ \A q \in Resources \cap Shared :
           On(q) \in SUBSET Tasks /\ \A j \in On(q) : Task(j).res = q
      /\ busy \in [Resources -> Nat]
  BY GraphTyping DEF IInv, TypeOK
<1>4. Tight'
  <2>1. \A e : Stale(e)' = Stale(e)
    BY <1>1 DEF Stale
  <2> QED
    BY <1>1, <2>1 DEF FluidInv, Tight
<1>5. ASSUME NEW q \in Resources \cap Shared PROVE FluidOn(q)'
  <2>1. active'[q] = active[q] /\ last'[q] = last[q] /\ busy'[q] = busy[q]
    BY <1>1, <1>3
  <2>2. \A j \in On(q) : start'[j] = start[j] /\ finish'[j] = finish[j]
    BY <1>1, <1>2, <1>3
  <2>3. FluidOn(q)
    BY DEF FluidInv, Fluid
  <2> QED
    BY <1>1, <2>1, <2>2, <2>3, FluidSame
<1>6. Resources' = Resources /\ Shared' = Shared
  BY <1>1, Static
<1> QED
  BY <1>4, <1>5, <1>6 DEF Fluid

LEMMA FluidStill ==
  ASSUME IInv, SkipStale \/ Return \/ RaiseCycle \/ UNCHANGED vars, FluidInv
  PROVE  Tight' /\ Fluid'
<1>1. UNCHANGED <<graph, active, last, epoch, start, finish, busy>>
  BY DEF SkipStale, Return, RaiseCycle, vars
<1>2. departures' \in SUBSET departures
  BY DEF SkipStale, Return, RaiseCycle, vars
<1>3. Tight'
  <2>1. \A e : Stale(e)' = Stale(e)
    BY <1>1 DEF Stale
  <2> QED
    BY <1>1, <1>2, <2>1 DEF FluidInv, Tight
<1>4. \A q \in Resources \cap Shared : FluidOn(q)'
  BY <1>1, FluidSame DEF FluidInv, Fluid
<1>5. Resources' = Resources /\ Shared' = Shared
  BY <1>1, Static
<1> QED
  BY <1>3, <1>4, <1>5 DEF Fluid

LEMMA FluidInvNext == IInv /\ [Next]_vars /\ FluidInv => FluidInv'
<1> SUFFICES ASSUME IInv, [Next]_vars, FluidInv PROVE FluidInv'
  OBVIOUS
<1>1. SharedStarts'
  BY SharedDepart, SharedShared, SharedFifo, SharedStill DEF Next, Over, FluidInv
<1>2. Exact'
  <2>1. graph' = graph
    BY DEF Next, SkipStale, Depart, StartShared, StartFifo, Return, RaiseCycle, Over, vars
  <2> QED
    BY <2>1, ExactStays DEF FluidInv
<1>3. Tight' /\ Fluid'
  BY FluidDepart, FluidShared, FluidFifo, FluidStill DEF Next, Over
<1> QED
  BY <1>1, <1>2, <1>3 DEF FluidInv

LEMMA FluidInvariance == Spec /\ Exact => []FluidInv
BY FluidInit, FluidInvNext, Invariance, PTL DEF Spec

\* The makespan is no smaller than any finish.
LEMMA MakespanBounds ==
  ASSUME IInv, \A k \in Tasks : finish[k] \in Nat, NEW k \in Tasks
  PROVE  Makespan \in Nat /\ finish[k] <= Makespan
<1> DEFINE N == Len(graph.tasks)
           bound(i) == {m \in Nat : \A j \in Tasks : j <= i => finish[j] <= m}
           bad == {i \in 0 .. N : bound(i) = {}}
<1>1. N \in Nat /\ Tasks = 1 .. N
  BY GraphAssumption DEF IInv, TypeOK, Tasks
<1>2. bad = {}
  <2> SUFFICES ASSUME bad # {} PROVE FALSE
    OBVIOUS
  <2>1. PICK i \in bad : \A j \in bad : i <= j
    <3>1. bad \in SUBSET Nat
      OBVIOUS
    <3> HIDE DEF bad
    <3> QED
      BY <3>1, LeastElement
  <2>2. i \in 0 .. N /\ bound(i) = {}
    OBVIOUS
  <2>3. i # 0
    <3>1. 0 \in bound(0)
      BY <1>1
    <3> QED
      BY <2>2, <3>1
  <2>4. bound(i - 1) # {}
    <3>1. i - 1 \in 0 .. N /\ ~(i <= i - 1)
      BY <1>1, <2>2, <2>3
    <3>2. i - 1 \notin bad
      <4> HIDE DEF bad
      <4> QED
        BY <2>1, <3>1
    <3> HIDE DEF bound
    <3> QED
      BY <3>1, <3>2
  <2>5. PICK m \in Nat : \A j \in Tasks : j <= i - 1 => finish[j] <= m
    BY <2>4
  <2>6. i \in Tasks /\ finish[i] \in Nat
    BY <1>1, <2>2, <2>3
  <2>7. \A j \in Tasks : j <= i => finish[j] <= m + finish[i]
    BY <1>1, <2>2, <2>5, <2>6
  <2>8. m + finish[i] \in bound(i)
    BY <2>6, <2>7
  <2> QED
    BY <2>2, <2>8
<1>3. PICK b \in bound(N) : \A c \in bound(N) : b <= c
  <2>1. bound(N) # {} /\ bound(N) \in SUBSET Nat
    BY <1>1, <1>2
  <2> HIDE DEF bound
  <2> QED
    BY <2>1, LeastElement
<1> DEFINE ends == {finish[j] : j \in Tasks}
<1>4. b \in Nat /\ \A j \in Tasks : finish[j] <= b
  BY <1>1
<1>5. b \in ends
  <2> SUFFICES ASSUME b \notin ends PROVE FALSE
    OBVIOUS
  <2>1. \A j \in Tasks : finish[j] < b
    BY <1>4
  <2>2. b - 1 \in Nat /\ \A j \in Tasks : finish[j] <= b - 1
    BY <1>4, <2>1
  <2>3. b - 1 \in bound(N)
    BY <2>2
  <2> QED
    BY <1>3, <1>4, <2>3
<1>6. Makespan = b
  <2>1. ends \in SUBSET Int /\ \A y \in ends : y <= b
    BY <1>4
  <2> HIDE DEF ends
  <2>2. Max(ends) = b
    BY <1>5, <2>1, MaxIs
  <2> QED
    BY <2>2 DEF ends, Makespan
<1> QED
  BY <1>4, <1>6

LEMMA FluidAtEnd ==
  ASSUME IInv, FluidInv
  PROVE  FluidShare
<1> SUFFICES ASSUME outcome = "done", NEW r \in Resources \cap Shared
             PROVE  /\ \A k \in On(r) :
                         /\ start[k] = ReadyTime(k)
                         /\ 2 * (Task(k).dur * Fine - Cardinality(Received(k)))
                              \in -Fine .. Fine + 2 * Eps
                    /\ busy[r] = Cardinality({x \in 0 .. Makespan : RunningAt(r, x) # {}})
  BY DEF FluidShare
<1>1. /\ On(r) \in SUBSET Tasks /\ \A k \in On(r) : Task(k).res = r
      /\ Unfinished = {}
  BY GraphTyping DEF IInv, TypeOK, Outcomes
<1>2. \A k \in Tasks : /\ finish[k] \in Nat /\ finish[k] # NotYet
                       /\ start[k] \in Nat /\ start[k] # NotYet
  <2>1. \A k \in Tasks : finish[k] # NotYet
    BY <1>1 DEF Unfinished
  <2>2. \A k \in Tasks : start[k] # NotYet
    BY <1>1 DEF IInv, Counts
  <2> QED
    BY <2>1, <2>2 DEF IInv, TypeOK
<1>3. \A x \in Nat : History(r)[x] = RunningAt(r, x)
  BY <1>1, <1>2 DEF History, FlowsAt, RunningAt
<1>4. ASSUME NEW k \in On(r)
      PROVE  /\ start[k] = ReadyTime(k) /\ finish[k] <= last[r]
             /\ 2 * (Task(k).dur * Fine - Cardinality(Received(k))) \in -Fine .. Fine + 2 * Eps
  <2>1. start[k] = readyAt[k]
    BY <1>1, <1>2 DEF FluidInv, SharedStarts
  <2>2. ReadyTime(k) = readyAt[k]
    BY <1>1, ReadyTimeIs
  <2>3. Received(k) = Units(History(r), start[k], finish[k])
    <3>1. \A x \in start[k] .. finish[k] - 1 : RunningAt(Task(k).res, x) = History(r)[x]
      BY <1>1, <1>2, <1>3
    <3> QED
      BY <3>1 DEF Received, Units
  <2>4. /\ finish[k] <= last[r]
        /\ 2 * (Task(k).dur * Fine - Cardinality(Units(History(r), start[k], finish[k])))
             \in -Fine .. Fine + 2 * Eps
    BY <1>1, <1>2 DEF FluidInv, Fluid, FluidOn, Owed
  <2> QED
    BY <2>1, <2>2, <2>3, <2>4
<1>5. {x \in 0 .. last[r] - 1 : History(r)[x] # {}} = {x \in 0 .. Makespan : RunningAt(r, x) # {}}
  <2>1. \A k \in On(r) : /\ finish[k] \in Nat /\ finish[k] <= last[r]
                         /\ finish[k] <= Makespan /\ Makespan \in Nat
    BY <1>1, <1>2, <1>4, MakespanBounds
  <2>2. last[r] \in Nat
    BY DEF IInv, TypeOK
  <2>3. ASSUME NEW x \in Nat, RunningAt(r, x) # {}
        PROVE  x \in 0 .. last[r] - 1 /\ x \in 0 .. Makespan
    <3>1. PICK k \in On(r) : x < finish[k]
      BY <2>3 DEF RunningAt
    <3>2. finish[k] \in Nat /\ finish[k] <= last[r] /\ finish[k] <= Makespan /\ Makespan \in Nat
      BY <2>1
    <3> QED
      BY <2>2, <3>1, <3>2
  <2> HIDE DEF Makespan
  <2>4. \A x \in 0 .. last[r] - 1 : x \in Nat
    OBVIOUS
  <2>5. \A x \in 0 .. Makespan : x \in Nat
    OBVIOUS
  <2> QED
    BY <1>3, <2>3, <2>4, <2>5
<1>6. busy[r] = Cardinality({x \in 0 .. last[r] - 1 : History(r)[x] # {}})
  BY DEF FluidInv, Fluid, FluidOn, Charged
<1> QED
  BY <1>4, <1>5, <1>6

\* On every shared resource of every graph, when Fine is divisible by every
\* number of flows: each flow has received its work, up to half an instant, when
\* it ends, and the resource is charged exactly for the time it had a flow.
THEOREM FairShares == Spec /\ Exact => []FluidShare
BY Invariance, FluidInvariance, FluidAtEnd, PTL

------------------------------------------------------------------------------
(***************************************************************************)
(* The lanes of a trace.  The function that packs them is unfolded first:  *)
(* a partial function that satisfies its equations up to m is extended to  *)
(* m + 1, so there is one for the whole sequence.                          *)
(***************************************************************************)
\* The lanes after one more task.
NextLanes(ends, k) ==
  LET free == {i \in DOMAIN ends : LaneIsFree(ends, i, k)}
  IN IF free = {} THEN Append(ends, k) ELSE [ends EXCEPT ![Min(free)] = k]

LanesAt(f, seq, n) == IF n = 0 THEN << >> ELSE NextLanes(f[n - 1], seq[n])

LanesUpTo(f, seq, m) == f = [n \in 0 .. m |-> LanesAt(f, seq, n)]

LEMMA LanesExtend ==
  ASSUME NEW seq, NEW m \in Nat, NEW f, LanesUpTo(f, seq, m)
  PROVE  \E g : LanesUpTo(g, seq, m + 1)
<1> DEFINE g == [n \in 0 .. m + 1 |-> IF n <= m THEN f[n] ELSE LanesAt(f, seq, n)]
<1>1. ASSUME NEW n \in 0 .. m + 1 PROVE g[n] = LanesAt(g, seq, n)
  <2>1. n = 0 \/ (n - 1 \in 0 .. m + 1 /\ n - 1 <= m)
    OBVIOUS
  <2>2. n = 0 \/ g[n - 1] = f[n - 1]
    BY <2>1
  <2> HIDE DEF g
  <2>3. LanesAt(g, seq, n) = LanesAt(f, seq, n)
    BY <2>2 DEF LanesAt
  <2>4. n <= m => f[n] = LanesAt(f, seq, n)
    BY DEF LanesUpTo
  <2> QED
    BY <2>3, <2>4 DEF g
<1>2. g = [n \in 0 .. m + 1 |-> g[n]]
  OBVIOUS
<1> HIDE DEF g
<1>3. LanesUpTo(g, seq, m + 1)
  BY <1>1, <1>2 DEF LanesUpTo
<1> QED
  BY <1>3

LEMMA LanesExist ==
  ASSUME NEW seq, NEW m \in Nat
  PROVE  \E f : LanesUpTo(f, seq, m)
<1> DEFINE T == {i \in Nat : ~ \E f : LanesUpTo(f, seq, i)}
<1> SUFFICES ASSUME T # {} PROVE FALSE
  OBVIOUS
<1>1. PICK i \in T : \A j \in T : i <= j
  BY LeastElement
<1>2. CASE i = 0
  <2> DEFINE f == [n \in 0 .. 0 |-> << >>]
  <2>1. \A n \in 0 .. 0 : n = 0
    OBVIOUS
  <2>2. f = [n \in 0 .. 0 |-> LanesAt(f, seq, n)]
    BY <2>1 DEF LanesAt
  <2>3. LanesUpTo(f, seq, i)
    BY <1>2, <2>2 DEF LanesUpTo
  <2> QED
    BY <2>3
<1>3. CASE i # 0
  <2>1. i - 1 \in Nat /\ i - 1 \notin T /\ (i - 1) + 1 = i
    BY <1>1, <1>3
  <2>2. PICK f : LanesUpTo(f, seq, i - 1)
    BY <2>1
  <2>3. \E g : LanesUpTo(g, seq, i)
    BY <2>1, <2>2, LanesExtend
  <2> QED
    BY <2>3
<1> QED
  BY <1>2, <1>3

LEMMA LanesUnfold ==
  ASSUME NEW seq, Len(seq) \in Nat
  PROVE  /\ Lanes(seq)[0] = << >>
         /\ \A n \in 1 .. Len(seq) : Lanes(seq)[n] = NextLanes(Lanes(seq)[n - 1], seq[n])
<1>1. Lanes(seq) = CHOOSE f : f = [n \in 0 .. Len(seq) |-> LanesAt(f, seq, n)]
  BY DEF Lanes, LanesAt, NextLanes
<1>2. Lanes(seq) = [n \in 0 .. Len(seq) |-> LanesAt(Lanes(seq), seq, n)]
  BY <1>1, LanesExist DEF LanesUpTo
<1>3. \A n \in 0 .. Len(seq) : Lanes(seq)[n] = LanesAt(Lanes(seq), seq, n)
  BY <1>2
<1> QED
  BY <1>3 DEF LanesAt

\* A finite set of tasks in the order of their starts, and then of their keys.
LEMMA TraceOrder ==
  ASSUME NEW S \in SUBSET Nat, IsFiniteSet(S), \A k \in S : start[k] \in Nat
  PROVE  /\ InTraceOrder(S) \in Seq(S) /\ Len(InTraceOrder(S)) = Cardinality(S)
         /\ \A p, n \in 1 .. Cardinality(S) : p < n =>
              /\ InTraceOrder(S)[p] # InTraceOrder(S)[n]
              /\ start[InTraceOrder(S)[p]] <= start[InTraceOrder(S)[n]]
<1> DEFINE below(k) == {j \in S : Before(<<start[j], j>>, <<start[k], k>>)}
           rank == [k \in S |-> Cardinality(below(k))]
           N == 1 .. Cardinality(S)
           nth(n) == CHOOSE k \in S : Cardinality(below(k)) = n
           seq == [n \in N |-> nth(n)]
<1>1. Cardinality(S) \in Nat /\ IsFiniteSet(N) /\ Cardinality(N) = Cardinality(S)
  BY FS_CardinalityType, FS_Interval
<1>2. \A k \in S : /\ IsFiniteSet(below(k)) /\ Cardinality(below(k)) <= Cardinality(S)
                   /\ Cardinality(below(k)) \in Nat
  BY FS_Subset, FS_CardinalityType
<1>3. \A k \in S : k \in below(k)
  BY DEF Before
<1>4. \A k \in S : Cardinality(below(k)) # 0
  <2> SUFFICES ASSUME NEW k \in S, Cardinality(below(k)) = 0 PROVE FALSE
    OBVIOUS
  <2>1. IsFiniteSet(below(k)) /\ below(k) # {}
    BY <1>2, <1>3
  <2> HIDE DEF below
  <2> QED
    BY <2>1, FS_EmptySet
<1>5. rank \in [S -> N]
  BY <1>1, <1>2, <1>4
<1>6. ASSUME NEW j \in S, NEW k \in S, j # k, Before(<<start[j], j>>, <<start[k], k>>)
      PROVE  rank[j] < rank[k]
  <2>1. j \in Nat /\ k \in Nat /\ start[j] \in Nat /\ start[k] \in Nat
    OBVIOUS
  <2>2. k \notin below(j)
    BY <1>6, <2>1 DEF Before
  <2>3. \A i \in S : start[i] \in Nat /\ i \in Nat
    OBVIOUS
  <2>4. ASSUME NEW i \in below(j) PROVE i \in below(k)
    <3>1. /\ i \in S /\ i \in Nat /\ start[i] \in Nat
          /\ Before(<<start[i], i>>, <<start[j], j>>)
      OBVIOUS
    <3>2. Before(<<start[i], i>>, <<start[k], k>>)
      <4> HIDE DEF below
      <4> QED
        BY <1>6, <2>1, <3>1 DEF Before
    <3> QED
      BY <3>1, <3>2
  <2>5. k \in below(k)
    BY <1>3
  <2>6. /\ IsFiniteSet(below(k)) /\ Cardinality(below(j)) \in Nat
        /\ Cardinality(below(k)) \in Nat
    BY <1>2
  <2> HIDE DEF below
  <2>7. /\ Cardinality(below(j)) <= Cardinality(below(k))
        /\ Cardinality(below(j)) # Cardinality(below(k))
    BY <2>2, <2>4, <2>5, <2>6, FS_Subset
  <2> QED
    BY <2>6, <2>7
<1>7. \A j, k \in S : j # k => rank[j] # rank[k]
  <2> SUFFICES ASSUME NEW j \in S, NEW k \in S, j # k PROVE rank[j] # rank[k]
    OBVIOUS
  <2>1. \/ Before(<<start[j], j>>, <<start[k], k>>)
        \/ Before(<<start[k], k>>, <<start[j], j>>)
    BY DEF Before
  <2>2. rank[j] \in Nat /\ rank[k] \in Nat
    BY <1>5
  <2> HIDE DEF rank
  <2> QED
    BY <1>6, <2>1, <2>2
<1>8. rank \in Injection(S, N)
  <2> HIDE DEF rank, N
  <2> QED
    BY <1>5, <1>7 DEF Injection, IsInjective
<1>9. rank \in Surjection(S, N)
  <2> HIDE DEF rank, N
  <2> QED
    BY <1>1, <1>8, FS_Injection
<1>10. \A n \in N : \E k \in S : rank[k] = n
  <2> HIDE DEF rank, N
  <2> QED
    BY <1>9 DEF Surjection
<1>11. InTraceOrder(S) = seq
  BY DEF InTraceOrder
<1>12. \A n \in N : nth(n) \in S /\ rank[nth(n)] = n
  <2>1. \A k \in S : rank[k] = Cardinality(below(k))
    OBVIOUS
  <2> HIDE DEF rank, below
  <2> QED
    BY <1>10, <2>1
<1> HIDE DEF nth
<1>13. seq \in Seq(S) /\ Len(seq) = Cardinality(S) /\ \A n \in N : seq[n] = nth(n)
  <2> HIDE DEF rank
  <2> QED
    BY <1>1, <1>12
<1>14. ASSUME NEW p \in N, NEW n \in N, p < n
       PROVE  seq[p] # seq[n] /\ start[seq[p]] <= start[seq[n]]
  <2> HIDE DEF rank, seq
  <2>1. seq[p] \in S /\ seq[n] \in S /\ rank[seq[p]] = p /\ rank[seq[n]] = n
    BY <1>12, <1>13
  <2>2. seq[p] # seq[n]
    BY <1>14, <2>1
  <2>3. ~Before(<<start[seq[n]], seq[n]>>, <<start[seq[p]], seq[p]>>)
    <3>1. p \in Nat /\ n \in Nat /\ ~(n < p)
      BY <1>1, <1>14
    <3> HIDE DEF N
    <3> QED
      BY <1>6, <2>1, <2>2, <3>1
  <2>4. /\ start[seq[p]] \in Nat /\ start[seq[n]] \in Nat
        /\ seq[p] \in Nat /\ seq[n] \in Nat
    BY <2>1
  <2> QED
    BY <2>2, <2>3, <2>4 DEF Before
<1> HIDE DEF seq
<1> QED
  BY <1>11, <1>13, <1>14

\* Some lane is free, the first of them is taken and its last task is over; or
\* none is, and there is a lane more.
LEMMA NextLanesIs ==
  ASSUME NEW S, NEW ends \in Seq(S), NEW k
  PROVE  \/ \E i \in DOMAIN ends : /\ LaneIsFree(ends, i, k)
                                   /\ NextLanes(ends, k) = [ends EXCEPT ![i] = k]
         \/ /\ \A i \in DOMAIN ends : ~LaneIsFree(ends, i, k)
            /\ NextLanes(ends, k) = Append(ends, k)
<1> DEFINE free == {i \in DOMAIN ends : LaneIsFree(ends, i, k)}
<1>1. NextLanes(ends, k) = IF free = {} THEN Append(ends, k)
                           ELSE [ends EXCEPT ![Min(free)] = k]
  BY DEF NextLanes
<1>2. free \in SUBSET Nat
  OBVIOUS
<1>3. free # {} => Min(free) \in free
  <2> HIDE DEF free
  <2> QED
    BY <1>2, MinOf
<1> QED
  BY <1>1, <1>3

Distinct(seq) == \A p, n \in 1 .. Len(seq) : p < n => seq[p] # seq[n]

\* The last tasks of the lanes: n tasks are placed, and no task twice.
LaneEnds(seq, ends, n) ==
  /\ ends \in Seq({seq[p] : p \in 1 .. n})
  /\ \A i, j \in DOMAIN ends : i # j => ends[i] # ends[j]

LEMMA LaneEndsStep ==
  ASSUME NEW S, NEW seq \in Seq(S), Distinct(seq), NEW n \in 1 .. Len(seq),
         NEW ends, LaneEnds(seq, ends, n - 1)
  PROVE  LaneEnds(seq, NextLanes(ends, seq[n]), n)
<1> DEFINE P == {seq[p] : p \in 1 .. n - 1}
           Q == {seq[p] : p \in 1 .. n}
           k == seq[n]
           next == NextLanes(ends, k)
<1>1. /\ ends \in Seq(P)
      /\ \A i, j \in DOMAIN ends : i # j => ends[i] # ends[j]
  BY DEF LaneEnds
<1>2. n \in Nat /\ n >= 1 /\ n <= Len(seq) /\ Len(seq) \in Nat
  OBVIOUS
<1>3. P \subseteq Q /\ k \in Q
  BY <1>2
<1>4. k \notin P
  <2> SUFFICES ASSUME NEW p \in 1 .. n - 1, seq[p] = seq[n] PROVE FALSE
    OBVIOUS
  <2>1. p \in 1 .. Len(seq) /\ p < n
    BY <1>2
  <2> QED
    BY <2>1 DEF Distinct
<1> HIDE DEF P, Q, k
<1>5. Len(ends) \in Nat /\ DOMAIN ends = 1 .. Len(ends) /\ \A i \in DOMAIN ends : ends[i] \in P
  BY <1>1
<1>6. next \in Seq(Q) /\ \A i, j \in DOMAIN next : i # j => next[i] # next[j]
  <2>1. CASE \E i \in DOMAIN ends : next = [ends EXCEPT ![i] = k]
    <3>1. PICK i \in DOMAIN ends : next = [ends EXCEPT ![i] = k]
      BY <2>1
    <3> HIDE DEF next
    <3>2. DOMAIN next = 1 .. Len(ends) /\ \A j \in DOMAIN next : next[j] \in Q
      BY <1>3, <1>5, <3>1
    <3>3. next = [j \in 1 .. Len(ends) |-> next[j]]
      BY <1>5, <3>1
    <3>4. next \in Seq(Q)
      BY <1>5, <3>2, <3>3
    <3>5. \A a, b \in DOMAIN next : a # b => next[a] # next[b]
      BY <1>1, <1>4, <1>5, <3>1
    <3> QED
      BY <3>4, <3>5
  <2>2. CASE next = Append(ends, k)
    <3> HIDE DEF next
    <3>0. ends \in [1 .. Len(ends) -> P]
      BY <1>1
    <3>1. ends \in Seq(Q)
      BY <1>3, <1>5, <3>0
    <3>2. /\ next \in Seq(Q) /\ DOMAIN next = 1 .. Len(ends) + 1
          /\ next[Len(ends) + 1] = k
          /\ \A i \in 1 .. Len(ends) : next[i] = ends[i]
      BY <1>3, <2>2, <3>1
    <3>3. \A i \in 1 .. Len(ends) + 1 : i = Len(ends) + 1 \/ i \in 1 .. Len(ends)
      BY <1>5
    <3>4. \A i, j \in DOMAIN next : i # j => next[i] # next[j]
      BY <1>1, <1>4, <1>5, <3>2, <3>3
    <3> QED
      BY <3>2, <3>4
  <2> QED
    BY <1>1, <2>1, <2>2, NextLanesIs
<1> QED
  BY <1>6 DEF LaneEnds, Q, k

LEMMA LaneEndsAlways ==
  ASSUME NEW S, NEW seq \in Seq(S), Distinct(seq), NEW n \in 0 .. Len(seq)
  PROVE  LaneEnds(seq, Lanes(seq)[n], n)
<1> DEFINE T == {i \in 0 .. Len(seq) : ~LaneEnds(seq, Lanes(seq)[i], i)}
<1> SUFFICES ASSUME T # {} PROVE FALSE
  OBVIOUS
<1>1. T \in SUBSET Nat /\ Len(seq) \in Nat
  OBVIOUS
<1>2. PICK i \in T : \A j \in T : i <= j
  <2> HIDE DEF T
  <2> QED
    BY <1>1, LeastElement
<1>3. CASE i = 0
  <2>1. Lanes(seq)[i] = << >>
    BY <1>3, LanesUnfold
  <2>2. LaneEnds(seq, << >>, i)
    BY DEF LaneEnds
  <2> QED
    BY <1>2, <2>1, <2>2
<1>4. CASE i # 0
  <2>1. i \in 1 .. Len(seq) /\ i - 1 \in 0 .. Len(seq) /\ ~(i <= i - 1)
    BY <1>4
  <2>2. LaneEnds(seq, Lanes(seq)[i - 1], i - 1)
    BY <1>2, <2>1
  <2>3. LaneEnds(seq, NextLanes(Lanes(seq)[i - 1], seq[i]), i)
    BY <2>1, <2>2, LaneEndsStep
  <2>4. Lanes(seq)[i] = NextLanes(Lanes(seq)[i - 1], seq[i])
    BY <2>1, LanesUnfold
  <2> QED
    BY <2>3, <2>4
<1> QED
  BY <1>3, <1>4

\* Each lane that the task n takes over has a last task that ended by its start.
LEMMA LaneTaken ==
  ASSUME NEW S, NEW seq \in Seq(S), Distinct(seq), NEW n \in 1 .. Len(seq),
         NEW i \in DOMAIN Lanes(seq)[n - 1],
         Lanes(seq)[n][i] # Lanes(seq)[n - 1][i]
  PROVE  finish[Lanes(seq)[n - 1][i]] <= start[Lanes(seq)[n][i]]
<1> DEFINE ends == Lanes(seq)[n - 1]
           k == seq[n]
           next == NextLanes(ends, k)
<1>1. Lanes(seq)[n] = next
  BY LanesUnfold
<1>2. LaneEnds(seq, ends, n - 1)
  BY LaneEndsAlways
<1>3. PICK R : ends \in Seq(R)
  BY <1>2 DEF LaneEnds
<1> HIDE DEF ends, k, next
<1>4. CASE \E j \in DOMAIN ends : LaneIsFree(ends, j, k) /\ next = [ends EXCEPT ![j] = k]
  <2>1. PICK j \in DOMAIN ends : LaneIsFree(ends, j, k) /\ next = [ends EXCEPT ![j] = k]
    BY <1>4
  <2>2. j = i /\ next[i] = k
    BY <1>1, <2>1 DEF ends
  <2> QED
    BY <1>1, <2>1, <2>2 DEF LaneIsFree, ends
<1>5. CASE next = Append(ends, k)
  <2>1. i \in 1 .. Len(ends)
    BY <1>3 DEF ends
  <2>2. next[i] = ends[i]
    BY <1>3, <1>5, <2>1
  <2> QED
    BY <1>1, <2>2 DEF ends
<1> QED
  BY <1>3, <1>4, <1>5, NextLanesIs DEF next

\* Tasks of a resource that are all running, and one more.
Crowd(seq, c) ==
  \A n \in 1 .. Len(seq) : \A U \in SUBSET {seq[p] : p \in 1 .. n - 1} :
    (\A j \in U : start[seq[n]] < finish[j]) => Cardinality(U) + 1 <= c

\* With room for every crowd there is room for every lane.
LEMMA LaneRoom ==
  ASSUME NEW S, NEW seq \in Seq(S), Distinct(seq), NEW c \in Nat, Crowd(seq, c),
         \A k \in S : start[k] \in Nat /\ finish[k] \in Nat,
         NEW n \in 1 .. Len(seq), Len(Lanes(seq)[n - 1]) <= c
  PROVE  Len(Lanes(seq)[n]) <= c
<1> DEFINE ends == Lanes(seq)[n - 1]
           k == seq[n]
           next == NextLanes(ends, k)
           P == {seq[p] : p \in 1 .. n - 1}
           U == {ends[i] : i \in DOMAIN ends}
<1>1. Lanes(seq)[n] = next
  BY LanesUnfold
<1>2. ends \in Seq(P) /\ \A i, j \in DOMAIN ends : i # j => ends[i] # ends[j]
  <2>1. n - 1 \in 0 .. Len(seq)
    OBVIOUS
  <2>2. LaneEnds(seq, ends, n - 1)
    BY <2>1, LaneEndsAlways
  <2> QED
    BY <2>2 DEF LaneEnds
<1>3. Len(ends) <= c
  OBVIOUS
<1>4. k \in S /\ P \in SUBSET S
  OBVIOUS
<1> HIDE DEF ends, k, next, P
<1>5. CASE \E j \in DOMAIN ends : next = [ends EXCEPT ![j] = k]
  <2>1. PICK j \in DOMAIN ends : next = [ends EXCEPT ![j] = k]
    BY <1>5
  <2>2. /\ DOMAIN next = 1 .. Len(ends) /\ Len(ends) \in Nat
        /\ \A i \in DOMAIN next : next[i] \in S
    BY <1>2, <1>4, <2>1
  <2>3. next = [i \in 1 .. Len(ends) |-> next[i]]
    <3>1. next = [i \in DOMAIN ends |-> IF i = j THEN k ELSE ends[i]]
      BY <2>1
    <3>2. next = [i \in 1 .. Len(ends) |-> IF i = j THEN k ELSE ends[i]]
      BY <1>2, <3>1
    <3> QED
      BY <3>2
  <2>4. Len(next) = Len(ends)
    BY <2>2, <2>3
  <2> QED
    BY <1>1, <1>3, <2>4
<1>6. CASE /\ \A i \in DOMAIN ends : ~LaneIsFree(ends, i, k)
           /\ next = Append(ends, k)
  <2>1. U \in SUBSET P /\ \A i \in DOMAIN ends : ends[i] \in P
    BY <1>2
  <2>2. \A j \in U : start[k] < finish[j]
    <3> SUFFICES ASSUME NEW i \in DOMAIN ends PROVE start[k] < finish[ends[i]]
      OBVIOUS
    <3>1. ~(finish[ends[i]] <= start[k])
      BY <1>6 DEF LaneIsFree
    <3> QED
      BY <1>4, <2>1, <3>1
  <2>3. Cardinality(U) + 1 <= c
    <3> HIDE DEF U
    <3> QED
      BY <2>1, <2>2 DEF Crowd, P, k
  <2>4. Len(ends) \in Nat /\ DOMAIN ends = 1 .. Len(ends)
    BY <1>2
  <2>5. ends \in Injection(1 .. Len(ends), U) /\ IsFiniteSet(U)
    <3>1. ends \in [1 .. Len(ends) -> U]
      BY <1>2, <2>4
    <3>2. ends \in Injection(1 .. Len(ends), U) /\ ends \in Surjection(1 .. Len(ends), U)
      BY <1>2, <2>4, <3>1 DEF Injection, IsInjective, Surjection
    <3>3. IsFiniteSet(1 .. Len(ends))
      BY <2>4, FS_Interval
    <3> HIDE DEF U
    <3> QED
      BY <3>2, <3>3, FS_Surjection
  <2>6. Cardinality(1 .. Len(ends)) <= Cardinality(U) /\ Cardinality(U) \in Nat
    <3> HIDE DEF U
    <3> QED
      BY <2>5, FS_Injection, FS_CardinalityType
  <2>7. Cardinality(1 .. Len(ends)) = Len(ends)
    <3> DEFINE b == Len(ends)
    <3>1. b \in Nat
      BY <2>4
    <3> HIDE DEF b
    <3>2. Cardinality(1 .. b) = b
      BY <3>1, FS_Interval
    <3> QED
      BY <3>2 DEF b
  <2>8. Len(next) = Len(ends) + 1
    BY <1>2, <1>6
  <2> QED
    BY <1>1, <2>3, <2>4, <2>6, <2>7, <2>8
<1> QED
  BY <1>2, <1>5, <1>6, NextLanesIs DEF next

LEMMA LaneRoomAlways ==
  ASSUME NEW S, NEW seq \in Seq(S), Distinct(seq), NEW c \in Nat, Crowd(seq, c),
         \A k \in S : start[k] \in Nat /\ finish[k] \in Nat,
         NEW n \in 0 .. Len(seq)
  PROVE  Len(Lanes(seq)[n]) <= c
<1> DEFINE T == {i \in 0 .. Len(seq) : ~(Len(Lanes(seq)[i]) <= c)}
<1> SUFFICES ASSUME T # {} PROVE FALSE
  OBVIOUS
<1>1. T \in SUBSET Nat /\ Len(seq) \in Nat
  OBVIOUS
<1>2. PICK i \in T : \A j \in T : i <= j
  <2> HIDE DEF T
  <2> QED
    BY <1>1, LeastElement
<1>3. CASE i = 0
  <2>1. Lanes(seq)[i] = << >>
    BY <1>3, LanesUnfold
  <2> QED
    BY <1>2, <2>1
<1>4. CASE i # 0
  <2>1. i \in 1 .. Len(seq) /\ i - 1 \in 0 .. Len(seq) /\ ~(i <= i - 1)
    BY <1>4
  <2>2. Len(Lanes(seq)[i - 1]) <= c
    BY <1>2, <2>1
  <2>3. Len(Lanes(seq)[i]) <= c
    BY <2>1, <2>2, LaneRoom
  <2> QED
    BY <1>2, <2>3
<1> QED
  BY <1>3, <1>4

\* The tasks that run when a task of a pool starts leave it a server.
LEMMA RunningAtStart ==
  ASSUME IInv, Greedy, outcome = "done", NEW r \in Resources \ Shared,
         NEW k \in On(r), Task(k).dur > 0, NEW U \in SUBSET (On(r) \ {k}),
         \A j \in U : start[j] <= start[k] /\ start[k] < finish[j]
  PROVE  Cardinality(U) + 1 <= Servers(graph, r)
<1> DEFINE R == RunningAt(r, start[k])
<1>1. /\ On(r) \in SUBSET Tasks /\ IsFiniteSet(Tasks) /\ Task(k).dur \in Nat
      /\ Servers(graph, r) \in Nat
  BY GraphTyping DEF IInv, TypeOK
<1>2. k \notin Unfinished
  BY <1>1 DEF IInv, Outcomes
<1>3. start[k] \in Nat
  <2>1. k \in Tasks /\ start[k] # NotYet
    BY <1>1, <1>2 DEF IInv, Counts
  <2> QED
    BY <2>1 DEF IInv, TypeOK
<1>4. finish[k] = start[k] + Task(k).dur /\ Cardinality(R) <= Servers(graph, r)
  BY DEF Greedy
<1>5. U \cup {k} \in SUBSET R
  BY <1>1, <1>3, <1>4 DEF RunningAt
<1>6. R \in SUBSET Tasks
  BY <1>1 DEF RunningAt
<1> HIDE DEF R
<1>7. IsFiniteSet(R) /\ Cardinality(R) \in Nat
  BY <1>1, <1>6, FS_Subset, FS_CardinalityType
<1>8. Cardinality(U \cup {k}) <= Cardinality(R) /\ IsFiniteSet(U)
  BY <1>5, <1>7, FS_Subset
<1>9. Cardinality(U \cup {k}) = Cardinality(U) + 1 /\ Cardinality(U) \in Nat
  BY <1>8, FS_AddElement, FS_CardinalityType
<1> QED
  BY <1>1, <1>4, <1>7, <1>8, <1>9

LEMMA LanesFromParts ==
  ASSUME IInv, Greedy
  PROVE  LanesPacked
<1> SUFFICES ASSUME outcome = "done", NEW r \in Resources
             PROVE  LET seq == InTraceOrder(On(r))
                        lanes == Lanes(seq)
                        used == lanes[Len(seq)]
                    IN /\ \A n \in 1 .. Len(seq), i \in DOMAIN used :
                            i \in DOMAIN lanes[n - 1] /\ lanes[n][i] # lanes[n - 1][i]
                              => finish[lanes[n - 1][i]] <= start[lanes[n][i]]
                       /\ r \notin Shared /\ (\A k \in On(r) : Task(k).dur > 0)
                              => Len(used) <= Servers(graph, r)
  BY DEF LanesPacked
<1> DEFINE S == On(r)
           seq == InTraceOrder(S)
           c == Servers(graph, r)
<1>1. /\ S \in SUBSET Tasks /\ Tasks \in SUBSET Nat /\ IsFiniteSet(Tasks)
      /\ Servers(graph, r) \in Nat
  BY GraphTyping DEF IInv, TypeOK
<1>2. \A k \in S : start[k] \in Nat /\ finish[k] \in Nat
  <2> SUFFICES ASSUME NEW k \in S PROVE start[k] \in Nat /\ finish[k] \in Nat
    OBVIOUS
  <2>1. k \in Tasks /\ k \notin Unfinished
    BY <1>1 DEF IInv, Outcomes
  <2> QED
    BY <2>1 DEF IInv, TypeOK, Counts, Unfinished
<1>3. IsFiniteSet(S) /\ Cardinality(S) \in Nat
  BY <1>1, FS_Subset, FS_CardinalityType
<1>4. /\ seq \in Seq(S) /\ Len(seq) = Cardinality(S)
      /\ \A p, n \in 1 .. Len(seq) : p < n => /\ seq[p] # seq[n]
                                               /\ start[seq[p]] <= start[seq[n]]
  BY <1>1, <1>2, <1>3, TraceOrder
<1> HIDE DEF seq
<1>5. Distinct(seq)
  BY <1>4 DEF Distinct
<1>6. ASSUME NEW n \in 1 .. Len(seq), NEW i \in DOMAIN Lanes(seq)[n - 1],
             Lanes(seq)[n][i] # Lanes(seq)[n - 1][i]
      PROVE  finish[Lanes(seq)[n - 1][i]] <= start[Lanes(seq)[n][i]]
  BY <1>4, <1>5, <1>6, LaneTaken
<1>7. ASSUME r \notin Shared, \A k \in On(r) : Task(k).dur > 0
      PROVE  Len(Lanes(seq)[Len(seq)]) <= c
  <2>1. Crowd(seq, c)
    <3> SUFFICES ASSUME NEW n \in 1 .. Len(seq),
                        NEW U \in SUBSET {seq[p] : p \in 1 .. n - 1},
                        \A j \in U : start[seq[n]] < finish[j]
                 PROVE  Cardinality(U) + 1 <= c
      BY DEF Crowd
    <3>1. seq[n] \in S /\ \A p \in 1 .. n - 1 : p \in 1 .. Len(seq) /\ p < n
      BY <1>4
    <3>2. U \in SUBSET (S \ {seq[n]}) /\ \A j \in U : start[j] <= start[seq[n]]
      BY <1>4, <3>1
    <3> QED
      BY <1>7, <3>1, <3>2, RunningAtStart
  <2>2. Len(seq) \in 0 .. Len(seq)
    BY <1>4
  <2> HIDE DEF c, S
  <2>3. c \in Nat
    BY <1>1 DEF c
  <2> QED
    BY <1>2, <1>4, <1>5, <2>1, <2>2, <2>3, LaneRoomAlways
<1> QED
  BY <1>6, <1>7 DEF seq

\* For every graph: in the trace no two tasks of a lane overlap, and a pool
\* whose tasks take time needs no more lanes than it has servers.
THEOREM TraceLanes == Spec => []LanesPacked
BY Invariance, PlacesInvariance, PlacesGreedy, LanesFromParts, PTL
=============================================================================
