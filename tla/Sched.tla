-------------------------------- MODULE Sched --------------------------------
(***************************************************************************)
(* schedule() of sched.py: the event loop that runs a task graph.  A       *)
(* resource is either a pool of FIFO servers, or shared: its flows all run *)
(* and split its rate evenly (processor sharing).                          *)
(*                                                                         *)
(* Time is counted in units of the spacing of the floats that hold it, so  *)
(* every computed departure is rounded to a whole unit; remaining work is  *)
(* counted in units of 1/Fine, where every share dt/N is exact.  The tasks *)
(* are 1 .. n; their graph is drawn from Graphs, once.                     *)
(*                                                                         *)
(* A definition whose comment starts with "Slip" is a plausible mistake in *)
(* the one after it; no behaviour uses it.                                 *)
(***************************************************************************)
EXTENDS Integers, SequencesExt, FiniteSetsExt

CONSTANTS
  Graphs,  \* the task graphs: records [tasks, servers, shared]
  Fine,    \* units of work per unit of time, divisible by the number of flows
  Eps      \* _EPS, in units of work

ASSUME SchedAssumption ==
  /\ Fine \in Nat \ {0}
  /\ Eps \in Nat

\* "key MUST equal the task's index in the list".
ASSUME GraphAssumption ==
  \A g \in Graphs :
    /\ Len(g.tasks) \in Nat /\ DOMAIN g.tasks = 1 .. Len(g.tasks)
    /\ \A k \in DOMAIN g.tasks : /\ g.tasks[k].dur \in Nat
                                 /\ g.tasks[k].deps \in SUBSET DOMAIN g.tasks
    /\ \A r \in DOMAIN g.servers : g.servers[r] \in Int

VARIABLES
  graph,      \* the arguments: tasks and resources
  missing,    \* per task, dependencies not yet done
  readyAt,    \* per task, when its last dependency ended
  ready,      \* ready_heap: <<time, task>>
  departures, \* dep_heap: [time, res, epoch]
  slots,      \* per FIFO resource, when each of its servers is free
  active,     \* per shared resource, its flows and their remaining work
  last,       \* per shared resource, when it last advanced
  epoch,      \* per shared resource, the number of changes to its flows
  start, finish, busy,
  outcome     \* "running", "done", or "cycle" for the ValueError

vars == <<graph, missing, readyAt, ready, departures, slots, active, last, epoch,
          start, finish, busy, outcome>>

Tasks == DOMAIN graph.tasks
Task(k) == graph.tasks[k]
NotYet == -1

\* The graph names the servers of the FIFO resources it declares; the others have one.
Shared == graph.shared
Resources == {Task(k).res : k \in Tasks}
Servers(g, r) == IF r \in DOMAIN g.servers THEN Max({1, g.servers[r]}) ELSE 1

\* The state before the first event of g.
Fresh(g) ==
  LET tasks == DOMAIN g.tasks
      res == {g.tasks[k].res : k \in tasks}
      none(R) == [r \in R |-> 0]
  IN [missing |-> [k \in tasks |-> Cardinality(g.tasks[k].deps)],
      ready |-> {<<0, k>> : k \in {j \in tasks : g.tasks[j].deps = {}}},
      slots |-> [r \in res \ g.shared |-> [i \in 1 .. Servers(g, r) |-> 0]],
      active |-> [r \in res \cap g.shared |-> << >>],
      counters |-> none(res \cap g.shared),
      unset |-> [k \in tasks |-> NotYet],
      zero |-> [k \in tasks |-> 0],
      idle |-> none(res)]

Begin ==
  LET f == Fresh(graph) IN
  /\ missing = f.missing /\ readyAt = f.zero /\ ready = f.ready /\ departures = {}
  /\ slots = f.slots /\ active = f.active /\ last = f.counters /\ epoch = f.counters
  /\ start = f.unset /\ finish = f.unset /\ busy = f.idle
  /\ outcome = "running"

Init == graph \in Graphs /\ Begin

\* Another call, with the graph g.
BeginAgain(g) ==
  LET f == Fresh(g) IN
  /\ graph' = g
  /\ missing' = f.missing /\ readyAt' = f.zero /\ ready' = f.ready /\ departures' = {}
  /\ slots' = f.slots /\ active' = f.active /\ last' = f.counters /\ epoch' = f.counters
  /\ start' = f.unset /\ finish' = f.unset /\ busy' = f.idle
  /\ outcome' = "running"

------------------------------------------------------------------------------
Before(x, y) == x[1] < y[1] \/ (x[1] = y[1] /\ x[2] <= y[2])

\* The heads of the two heaps.
NextReady == {x \in ready : \A y \in ready : Before(x, y)}
NextDepartures == {d \in departures : \A e \in departures : d.time <= e.time}

\* A departure computed before the flows of its resource changed.
\* Slip: any departure of a resource that has flows is taken for a live one.
StaleIfEmpty(d) == DOMAIN active[d.res] = {}
Stale(d) == d.epoch # epoch[d.res] \/ DOMAIN active[d.res] = {}

DepartsFirst(d) == \A x \in ready : d.time <= x[1]

Unfinished == {k \in Tasks : finish[k] = NotYet}

\* The tasks of ks end at `when`; `pending` is what else the heap holds.
\* Slip: a child's ready time is that of the dependency that ends last in the loop.
ReadyAfterLast(c, when) == when
ReadyAfter(c, when) == Max({readyAt[c], when})

\* The dependencies of c that end with ks.
\* Slip: a task whose dependencies end together counts one of them.
MetOnce(c, ks) == IF Task(c).deps \cap ks = {} THEN 0 ELSE 1
Met(c, ks) == Cardinality(Task(c).deps \cap ks)

Release(ks, when, pending) ==
  /\ finish' = [k \in Tasks |-> IF k \in ks THEN when ELSE finish[k]]
  /\ missing' = [c \in Tasks |-> missing[c] - Met(c, ks)]
  /\ readyAt' = [c \in Tasks |-> IF Met(c, ks) = 0 THEN readyAt[c]
                                 ELSE ReadyAfter(c, when)]
  /\ ready' = pending \cup
       {<<readyAt'[c], c>> : c \in {b \in Tasks : missing[b] > 0 /\ missing'[b] = 0}}

\* The remaining work of r's flows once each had its share of the time up to now.
Advanced(r, now) ==
  [k \in DOMAIN active[r] |->
     active[r][k] - ((now - last[r]) * Fine) \div Cardinality(DOMAIN active[r])]

\* The time with at least one flow up to now.
Worked(r, now) == IF DOMAIN active[r] = {} THEN 0 ELSE now - last[r]

\* The next departure among the flows, all of them active from now on.
DepartureOf(r, flows, now) ==
  IF DOMAIN flows = {} THEN {}
  ELSE LET work == Min({flows[k] : k \in DOMAIN flows}) * Cardinality(DOMAIN flows)
       IN {[time |-> now + (work + Fine \div 2) \div Fine,
            res |-> r, epoch |-> epoch[r] + 1]}

\* The flows that leave: those with no work left, or else the nearest one.
Leaving(flows) ==
  LET ended == {k \in DOMAIN flows : flows[k] <= Eps}
      nearest == CHOOSE k \in DOMAIN flows :
                   \A j \in DOMAIN flows : Before(<<flows[k], k>>, <<flows[j], j>>)
  IN IF ended = {} THEN {nearest} ELSE ended

------------------------------------------------------------------------------
\* The head of the departures is stale: drop it.
SkipStale ==
  /\ outcome = "running" /\ Unfinished # {}
  /\ \E d \in NextDepartures :
       /\ Stale(d)
       /\ departures' = departures \ {d}
  /\ UNCHANGED <<graph, missing, readyAt, ready, slots, active, last, epoch,
                 start, finish, busy, outcome>>

\* A flow ends.  Departures of other resources at the same instant commute.
Depart ==
  /\ outcome = "running" /\ Unfinished # {}
  /\ \E d \in NextDepartures :
       LET r == d.res
           flows == Advanced(r, d.time)
           gone == Leaving(flows)
           stay == [k \in DOMAIN flows \ gone |-> flows[k]]
       IN /\ \A e \in NextDepartures : ~Stale(e)
          /\ DepartsFirst(d)
          /\ active' = [active EXCEPT ![r] = stay]
          /\ last' = [last EXCEPT ![r] = d.time]
          /\ busy' = [busy EXCEPT ![r] = @ + Worked(r, d.time)]
          /\ epoch' = [epoch EXCEPT ![r] = @ + 1]
          /\ departures' = (departures \ {d}) \cup DepartureOf(r, stay, d.time)
          /\ Release(gone, d.time, ready)
  /\ UNCHANGED <<graph, slots, start, outcome>>

\* No departure comes first and some task is ready: the earliest starts.
StartsNext ==
  /\ outcome = "running" /\ Unfinished # {}
  /\ \A d \in NextDepartures : ~Stale(d) /\ ~DepartsFirst(d)

\* A shared resource admits the task at once.
StartShared ==
  /\ StartsNext
  /\ \E x \in NextReady :
       LET rt == x[1]
           k == x[2]
           r == Task(k).res
           old == Advanced(r, rt)
           flows == [j \in DOMAIN old \cup {k} |->
                       IF j = k THEN Task(k).dur * Fine ELSE old[j]]
       IN /\ r \in Shared
          /\ active' = [active EXCEPT ![r] = flows]
          /\ last' = [last EXCEPT ![r] = rt]
          /\ busy' = [busy EXCEPT ![r] = @ + Worked(r, rt)]
          /\ epoch' = [epoch EXCEPT ![r] = @ + 1]
          /\ start' = [start EXCEPT ![k] = rt]
          /\ departures' = departures \cup DepartureOf(r, flows, rt)
          /\ ready' = ready \ {x}
  /\ UNCHANGED <<graph, missing, readyAt, slots, finish, outcome>>

\* The server of r that is free first.
FreeServer(r) == {i \in DOMAIN slots[r] :
                    \A j \in DOMAIN slots[r] : Before(<<slots[r][i], i>>, <<slots[r][j], j>>)}

\* A FIFO resource books the task on a server; its end is known at once.
StartFifo ==
  /\ StartsNext
  /\ \E x \in NextReady :
       LET k == x[2]
           r == Task(k).res
       IN /\ r \notin Shared
          /\ \E i \in FreeServer(r) :
               LET st == Max({x[1], slots[r][i]}) IN
               /\ slots' = [slots EXCEPT ![r][i] = st + Task(k).dur]
               /\ start' = [start EXCEPT ![k] = st]
               /\ busy' = [busy EXCEPT ![r] = @ + Task(k).dur]
               /\ Release({k}, st + Task(k).dur, ready \ {x})
  /\ UNCHANGED <<graph, departures, active, last, epoch, outcome>>

\* Every task has ended: return.
Return ==
  /\ outcome = "running" /\ Unfinished = {}
  /\ outcome' = "done"
  /\ UNCHANGED <<graph, missing, readyAt, ready, departures, slots, active, last,
                 epoch, start, finish, busy>>

\* Nothing is runnable and tasks remain: raise.
RaiseCycle ==
  /\ outcome = "running" /\ Unfinished # {}
  /\ departures = {} /\ ready = {}
  /\ outcome' = "cycle"
  /\ UNCHANGED <<graph, missing, readyAt, ready, departures, slots, active, last,
                 epoch, start, finish, busy>>

\* The call is over.
Over == outcome # "running" /\ UNCHANGED vars

Next == SkipStale \/ Depart \/ StartShared \/ StartFifo \/ Return \/ RaiseCycle \/ Over

Spec == Init /\ [][Next]_vars /\ WF_vars(Next)

Makespan == Max({finish[k] : k \in Tasks})

------------------------------------------------------------------------------
\* chrome_trace(): the tasks of a resource, by start time, are packed into lanes.
\* A lane is reused once its last task has ended.
\* Slip: a lane is reused as soon as it has a task that started earlier.
LaneIsFreeEarly(ends, i, k) == start[k] > start[ends[i]]
LaneIsFree(ends, i, k) == finish[ends[i]] <= start[k]

InTraceOrder(S) ==
  LET rank(k) == Cardinality({j \in S : Before(<<start[j], j>>, <<start[k], k>>)})
  IN [n \in 1 .. Cardinality(S) |-> CHOOSE k \in S : rank(k) = n]

\* The last task of each lane after the tasks of seq: lanes[n] for its first n.
Lanes(seq) ==
  LET lanes[n \in 0 .. Len(seq)] ==
        IF n = 0 THEN << >>
        ELSE LET ends == lanes[n - 1]
                 free == {i \in DOMAIN ends : LaneIsFree(ends, i, seq[n])}
             IN IF free = {} THEN Append(ends, seq[n])
                ELSE [ends EXCEPT ![Min(free)] = seq[n]]
  IN lanes

------------------------------------------------------------------------------
(***************************************************************************)
(* Properties.  A finished schedule is judged from its start and finish    *)
(* times alone, without the heaps, slots and epochs that produced them.    *)
(***************************************************************************)
On(r) == {k \in Tasks : Task(k).res = r}
RunningAt(r, x) == {k \in On(r) : start[k] <= x /\ x < finish[k]}
ReadyTime(k) == Max({0} \cup {finish[d] : d \in Task(k).deps})

\* A FIFO pool is list scheduling: it never runs more tasks than it has
\* servers, starts them in the order of their ready times and then of their
\* keys, and lets a ready task wait only while every server is taken.
GreedyFifo ==
  outcome = "done" =>
    \A r \in Resources \ Shared : \A k \in On(r) :
      /\ start[k] >= ReadyTime(k)
      /\ finish[k] = start[k] + Task(k).dur
      /\ Cardinality(RunningAt(r, start[k])) <= Servers(graph, r)
      /\ \A x \in ReadyTime(k) .. start[k] - 1 : Cardinality(RunningAt(r, x)) = Servers(graph, r)
      /\ \A j \in On(r) : Before(<<ReadyTime(j), j>>, <<ReadyTime(k), k>>)
                            => start[j] <= start[k]

\* The units of work that k receives: of each instant that N flows are active, an N-th.
Received(k) ==
  {u \in (start[k] .. finish[k] - 1) \X (1 .. Fine) :
     u[2] <= Fine \div Cardinality(RunningAt(Task(k).res, u[1]))}

\* Processor sharing: a flow starts as soon as it is ready and ends when its
\* shares add up to its work, up to half an instant lost to the rounding of the
\* clock; and the time charged to the resource is the time it had a flow.
FluidShare ==
  outcome = "done" =>
    \A r \in Resources \cap Shared :
      /\ \A k \in On(r) :
           /\ start[k] = ReadyTime(k)
           /\ 2 * (Task(k).dur * Fine - Cardinality(Received(k))) \in -Fine .. Fine + 2 * Eps
      /\ busy[r] = Cardinality({x \in 0 .. Makespan : RunningAt(r, x) # {}})

\* No set of tasks waits only on itself.
Acyclic ==
  \/ \A k \in Tasks : \A d \in Task(k).deps : d < k
  \/ \A S \in (SUBSET Tasks) \ {{}} : \E k \in S : Task(k).deps \cap S = {}

\* The loop ends: with every task scheduled, or with the error if and only if
\* the graph has a cycle.
EndsOrCycle == <>[](outcome = IF Acyclic THEN "done" ELSE "cycle")

\* In a trace the tasks of a lane never overlap, and a pool of k servers needs
\* at most k lanes when its tasks take time.
LanesPacked ==
  outcome = "done" =>
    \A r \in Resources :
      LET seq == InTraceOrder(On(r))
          lanes == Lanes(seq)
          used == lanes[Len(seq)]
      IN /\ \A n \in 1 .. Len(seq), i \in DOMAIN used :
              i \in DOMAIN lanes[n - 1] /\ lanes[n][i] # lanes[n - 1][i]
                => finish[lanes[n - 1][i]] <= start[lanes[n][i]]
         /\ r \notin Shared /\ (\A k \in On(r) : Task(k).dur > 0)
                => Len(used) <= Servers(graph, r)
==============================================================================
