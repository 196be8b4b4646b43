------------------------------- MODULE HwGraph -------------------------------
(***************************************************************************)
(* graph.py: a machine as nodes with limits and edges with bandwidths,     *)
(* nested in composites.  A counted node stands for `count` instances; its *)
(* edges may select some of them.  Here are the structure and what is read *)
(* off it; what descends into composites is in HwNested, the queries in    *)
(* GraphQueries.                                                           *)
(*                                                                         *)
(* A name, such as "chip/bank[3]", is the sequence of its parts <<base,    *)
(* selector>>, a selector being << >>, <<i>>, or <<lo, hi>> in an endpoint *)
(* only.  A derate is in halves: Whole, 1 or 0 for a disabled instance.    *)
(* What has no limit has the limit Unlimited.  Power, cost and labels are  *)
(* left out.                                                               *)
(*   node: name, kind, count, flops, capacity (0: none), bandwidth,        *)
(*     latency, derate, derates (by instance), role, topo ("": unset),     *)
(*     inner (a graph, or NoGraph), ports                                  *)
(*   edge: src, dst, bandwidth, latency, count, pattern                    *)
(*   graph: nodes, edges (sequences)                                       *)
(***************************************************************************)
EXTENDS Integers, SequencesExt, FiniteSetsExt, Functions

Unlimited == 1000000
Whole == 2
NoGraph == [nodes |-> << >>, edges |-> << >>]

Plus(x, y) == IF Unlimited \in {x, y} THEN Unlimited ELSE x + y
Minus(x, y) == IF x = Unlimited THEN Unlimited ELSE x - y

------------------------------------------------------------------------------
Derates(n) == [i \in 0 .. n.count - 1 |->
                 IF i \in DOMAIN n.derates THEN n.derates[i] ELSE n.derate]

\* A rate scales with the derates of the instances, a capacity with the number of
\* those that do any work.
Enabled(n) == Cardinality({i \in DOMAIN Derates(n) : Derates(n)[i] > 0})
AggRate(rate, n) ==
  IF rate = Unlimited THEN Unlimited
  ELSE (rate * MapThenSumSet(LAMBDA i : Derates(n)[i], DOMAIN Derates(n))) \div Whole
AggBandwidth(n) == AggRate(n.bandwidth, n)
AggFlops(n) == AggRate(n.flops, n)
AggCapacity(n) == n.capacity * Enabled(n)

------------------------------------------------------------------------------
\* Endpoints.
Simple(base) == << <<base, << >> >> >>
Instance(name, i) == [name EXCEPT ![Len(name)][2] = <<i>>]
Base(name) == [name EXCEPT ![Len(name)][2] = << >>]
Selector(name) == Last(name)[2]

\* Only the last part of an endpoint may have brackets.
WellFormed(name) == \A i \in 1 .. Len(name) - 1 : name[i][2] = << >>

InRange(sel, count) ==
  CASE Len(sel) = 0 -> TRUE
    [] Len(sel) = 1 -> sel[1] \in 0 .. count - 1
    [] Len(sel) = 2 -> 0 <= sel[1] /\ sel[1] < sel[2] /\ sel[2] <= count
Selected(sel, count) ==
  CASE Len(sel) = 0 -> [i \in 1 .. count |-> i - 1]
    [] Len(sel) = 1 -> sel
    [] Len(sel) = 2 -> [i \in 1 .. sel[2] - sel[1] |-> sel[1] + i - 1]

\* INTERLEAVE wires the instances in turn, ALL every pair of them.
NLinks(pattern, ns, nd) == IF pattern = "all" THEN ns * nd ELSE Max({ns, nd})
Pair(pattern, i, ns, nd) == IF pattern = "all" THEN <<1 + (i \div nd), 1 + (i % nd)>>
                            ELSE <<1 + (i % ns), 1 + (i % nd)>>

Names(g) == {g.nodes[i].name : i \in DOMAIN g.nodes}
HasNode(g, name) == name \in Names(g)
NodeOf(g, name) == g.nodes[SelectInSeq(g.nodes, LAMBDA n : n.name = name)]

\* A literal name wins over a selector: expanded instances have bracketed names.
EndpointBase(g, end) == IF HasNode(g, end) THEN end ELSE Base(end)
EndpointWidth(g, end) ==
  IF HasNode(g, end) THEN NodeOf(g, end).count
  ELSE Len(Selected(Selector(end), NodeOf(g, Base(end)).count))

EdgeCapacity(g, e) ==
  IF e.bandwidth = Unlimited THEN Unlimited
  ELSE e.bandwidth * e.count
         * NLinks(e.pattern, EndpointWidth(g, e.src), EndpointWidth(g, e.dst))

------------------------------------------------------------------------------
\* validate().
ValidNode(n) ==
  /\ n.count >= 1
  /\ n.derate \in 0 .. Whole
  /\ \A i \in DOMAIN n.derates : i \in 0 .. n.count - 1 /\ n.derates[i] \in 0 .. Whole
  /\ n.kind = "composite" => n.inner # NoGraph /\ \A p \in Range(n.ports) : HasNode(n.inner, p)
  /\ n.kind # "composite" => n.inner = NoGraph
  /\ n.kind = "compute" => n.flops > 0
  /\ n.kind = "memory" => n.capacity > 0 \/ n.bandwidth # Unlimited

ValidEnd(g, end) ==
  HasNode(g, end) \/ /\ WellFormed(end)
                     /\ HasNode(g, Base(end))
                     /\ LET n == NodeOf(g, Base(end))
                        IN /\ n.kind = "composite" => Selector(end) = << >>
                           /\ InRange(Selector(end), n.count)

\* A group may be wired to itself through two different selectors only.
ValidEdge(g, e) ==
  /\ ValidEnd(g, e.src) /\ ValidEnd(g, e.dst)
  /\ EndpointBase(g, e.src) = EndpointBase(g, e.dst) =>
       Selector(e.src) # << >> /\ Selector(e.dst) # << >> /\ e.src # e.dst
  /\ e.count >= 1

\* derate_instances(): a single node has its own derate, a group one per instance.
DerateInstances(g, spec, derate) ==
  LET target == EndpointBase(g, spec)
      chosen(n) == Range(Selected(IF HasNode(g, spec) THEN << >> ELSE Selector(spec), n.count))
  IN [g EXCEPT !.nodes = [k \in DOMAIN @ |->
        LET n == @[k] IN
        IF n.name # target THEN n
        ELSE IF n.count = 1 THEN [n EXCEPT !.derate = derate]
        ELSE [n EXCEPT !.derates = [i \in DOMAIN @ \cup chosen(n) |->
                                      IF i \in chosen(n) THEN derate ELSE @[i]]]]]
==============================================================================
