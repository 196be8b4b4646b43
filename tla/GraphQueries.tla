----------------------------- MODULE GraphQueries -----------------------------
(***************************************************************************)
(* max_flow() and widest_path() of graph.py, as their loops.  A node of    *)
(* the graph is split into <<"in", name>> and <<"out", name>>, joined by an *)
(* arc with the capacity of the node.                                      *)
(*                                                                         *)
(* The order in which the code tries arcs, and breaks the last ties of its *)
(* heap, is left open.                                                     *)
(***************************************************************************)
EXTENDS HwGraph

VARIABLES
  hw,       \* the graph
  ends,     \* the names of the sources and of the destinations
  resid,    \* max_flow: what each arc can still carry
  flow,     \* max_flow: the result so far
  heap,     \* widest_path: [width, latency, path]
  settled,  \* widest_path: the nodes taken from the heap
  best,     \* widest_path: the greatest width found for a node
  widest,   \* widest_path: the result, NoPath until there is one
  query     \* "flow", "widest" or "answered"

queryVars == <<hw, ends, resid, flow, heap, settled, best, widest, query>>

NoPath == [width |-> 0, latency |-> 0, path |-> << >>]

NIn(name) == <<"in", name>>
NOut(name) == <<"out", name>>
Source == <<"src", << >>>>
Sink == <<"dst", << >>>>

------------------------------------------------------------------------------
\* The capacities of the arcs; edges carry as much both ways.
EdgeArcs(s, d) == {<<NOut(s), NIn(d)>>, <<NOut(d), NIn(s)>>}

Arcs(g, srcs, dsts) ==
  LET joins(e) == EdgeArcs(EndpointBase(g, e.src), EndpointBase(g, e.dst))
      capacity(a) == FoldLeft(LAMBDA x, e : IF a \in joins(e) THEN Plus(x, EdgeCapacity(g, e))
                                            ELSE x, 0, g.edges)
      nodes == {<<NIn(n), NOut(n)>> : n \in Names(g)}
      free == {<<Source, NIn(n)>> : n \in srcs} \cup {<<NOut(n), Sink>> : n \in dsts}
      there == nodes \cup free \cup UNION {joins(e) : e \in Range(g.edges)}
      back == {<<a[2], a[1]>> : a \in there}
  IN [a \in there \cup back |->
        CASE a \in nodes -> AggBandwidth(NodeOf(g, a[1][2]))
          [] a \in free -> Unlimited
          [] OTHER -> capacity(a)]

Start(n) == [width |-> AggBandwidth(NodeOf(hw, n)), latency |-> NodeOf(hw, n).latency,
             path |-> <<n>>]

InitQuery(g, srcs, dsts) ==
  /\ hw = g
  /\ ends = [srcs |-> srcs, dsts |-> dsts]
  /\ resid = Arcs(g, srcs, dsts)
  /\ flow = 0
  /\ heap = {} /\ settled = {} /\ best = << >> /\ widest = NoPath
  /\ query = "flow"

BeginQuery(g, srcs, dsts) ==
  /\ hw' = g
  /\ ends' = [srcs |-> srcs, dsts |-> dsts]
  /\ resid' = Arcs(g, srcs, dsts)
  /\ flow' = 0
  /\ heap' = {} /\ settled' = {} /\ best' = << >> /\ widest' = NoPath
  /\ query' = "flow"

------------------------------------------------------------------------------
Open(u) == {a[2] : a \in {x \in DOMAIN resid : x[1] = u /\ resid[x] > 0}}

\* Breadth first: the shortest routes with something left to carry.
Routes ==
  LET walks[k \in 0 .. Cardinality(DOMAIN resid)] ==
        IF k = 0 THEN {<<Source>>}
        ELSE LET known == walks[k - 1]
                 longer == UNION {{Append(r, v) : v \in Open(Last(r)) \ Range(r)} : r \in known}
             IN IF known = {} \/ \E r \in known : Last(r) = Sink THEN known ELSE longer
  IN {r \in walks[Cardinality(DOMAIN resid)] : Last(r) = Sink}

Steps(r) == {<<r[i], r[i + 1]>> : i \in 1 .. Len(r) - 1}

\* Push what the route can carry; what went there may come back.
\* Slip: nothing may come back.
ReturnedNothing(a, pushed) == resid[a]
Returned(a, pushed) == Plus(resid[a], pushed)

Augment ==
  /\ query = "flow"
  /\ \E r \in Routes :
       LET pushed == Min({resid[a] : a \in Steps(r)}) IN
       IF pushed = Unlimited
       THEN /\ flow' = Unlimited
            /\ query' = "widest"
            /\ UNCHANGED resid
       ELSE /\ flow' = flow + pushed
            /\ resid' = [a \in DOMAIN resid |->
                           CASE a \in Steps(r) -> Minus(resid[a], pushed)
                             [] <<a[2], a[1]>> \in Steps(r) -> Returned(a, pushed)
                             [] OTHER -> resid[a]]
            /\ UNCHANGED query
  /\ UNCHANGED <<hw, ends, heap, settled, best, widest>>

FlowFound ==
  /\ query = "flow"
  /\ Routes = {}
  /\ query' = "widest"
  /\ UNCHANGED <<hw, ends, resid, flow, heap, settled, best, widest>>

------------------------------------------------------------------------------
\* The widest path from one node to another: those of the flow, if there is one of each.
From == CHOOSE n \in ends.srcs : TRUE
To == CHOOSE n \in ends.dsts : TRUE

StartSearch ==
  /\ query = "widest" /\ best = << >>
  /\ Cardinality(ends.srcs) = 1 /\ Cardinality(ends.dsts) = 1
  /\ heap' = {Start(From)}
  /\ best' = [n \in Names(hw) |-> IF n = From THEN Start(From).width ELSE 0]
  /\ UNCHANGED <<hw, ends, resid, flow, settled, widest, query>>

NoSearch ==
  /\ query = "widest" /\ best = << >>
  /\ Cardinality(ends.srcs) # 1 \/ Cardinality(ends.dsts) # 1
  /\ query' = "answered"
  /\ UNCHANGED <<hw, ends, resid, flow, heap, settled, best, widest>>

Heads == {x \in heap : \A y \in heap : x.width > y.width
                                       \/ (x.width = y.width /\ x.latency <= y.latency)}

\* The edges at u, each with the node at its other end.
Neighbours(u) ==
  {n \in (DOMAIN hw.edges) \X Names(hw) :
     LET e == hw.edges[n[1]] IN {u, n[2]} = {EndpointBase(hw, e.src), EndpointBase(hw, e.dst)}}

\* The width of the path x once it goes on over the edge e to v.
\* Slip: the edge does not narrow the path.
WidthNodesOnly(x, e, v) == Min({x.width, AggBandwidth(NodeOf(hw, v))})
Width(x, e, v) == Min({x.width, EdgeCapacity(hw, e), AggBandwidth(NodeOf(hw, v))})

\* A node comes off the heap a second time.
Again ==
  /\ query = "widest"
  /\ \E x \in Heads : Last(x.path) \in settled /\ heap' = heap \ {x}
  /\ UNCHANGED <<hw, ends, resid, flow, settled, best, widest, query>>

Arrive ==
  /\ query = "widest"
  /\ \E x \in Heads : Last(x.path) = To /\ To \notin settled /\ widest' = x
  /\ query' = "answered"
  /\ UNCHANGED <<hw, ends, resid, flow, heap, settled, best>>

\* A neighbour is entered each time it is reached more widely than before.
Settle ==
  /\ query = "widest"
  /\ \E x \in Heads :
       LET u == Last(x.path)
           near == {n \in Neighbours(u) : n[2] \notin settled \cup {u}}
           width(n) == Width(x, hw.edges[n[1]], n[2])
           entered == {n \in near : /\ width(n) > best[n[2]]
                                    /\ \A m \in near : m[2] = n[2] /\ m[1] < n[1]
                                                          => width(m) < width(n)}
           onward(n) == [width |-> width(n), path |-> Append(x.path, n[2]),
                         latency |-> x.latency + hw.edges[n[1]].latency + NodeOf(hw, n[2]).latency]
       IN /\ u \notin settled /\ u # To
          /\ settled' = settled \cup {u}
          /\ best' = [v \in DOMAIN best |->
                        Max({best[v]} \cup {width(n) : n \in {m \in near : m[2] = v}})]
          /\ heap' = (heap \ {x}) \cup {onward(n) : n \in entered}
  /\ UNCHANGED <<hw, ends, resid, flow, widest, query>>

\* No path: raise.
Unreachable ==
  /\ query = "widest" /\ best # << >> /\ heap = {}
  /\ query' = "answered"
  /\ UNCHANGED <<hw, ends, resid, flow, heap, settled, best, widest>>

Query == Augment \/ FlowFound \/ StartSearch \/ NoSearch \/ Again \/ Arrive \/ Settle
           \/ Unreachable

------------------------------------------------------------------------------
(***************************************************************************)
(* Properties.  Both answers are judged from the graph alone.              *)
(***************************************************************************)
\* A node is on the near side of a separation, on the far side, or cut itself.
Separations == {sep \in [Names(hw) -> {"near", "cut", "far"}] :
                  /\ \A n \in ends.srcs : sep[n] # "far"
                  /\ \A n \in ends.dsts : sep[n] # "near"}
CutWidth(sep) ==
  LET severed(e) == {sep[EndpointBase(hw, e.src)], sep[EndpointBase(hw, e.dst)]} = {"near", "far"}
      wires == FoldLeft(LAMBDA x, e : IF severed(e) THEN Plus(x, EdgeCapacity(hw, e)) ELSE x,
                        0, hw.edges)
  IN FoldLeft(LAMBDA x, n : IF sep[n.name] = "cut" THEN Plus(x, AggBandwidth(n)) ELSE x,
              wires, hw.nodes)

\* What max_flow() returns is the narrowest separation of the sources from the
\* destinations: no set of nodes and edges between them carries less, and the
\* augmenting loop, which must be able to take back what it sent, stops no earlier.
MaxFlowIsMinCut ==
  query = "widest" /\ best = << >> => flow = Min({CutWidth(sep) : sep \in Separations})

\* The nodes that a path at least w wide joins to From.
Joined(w) ==
  LET wide == {n.name : n \in {m \in Range(hw.nodes) : AggBandwidth(m) >= w}}
      reach[k \in 0 .. Len(hw.nodes)] ==
        IF k = 0 THEN {From} \cap wide
        ELSE LET near == reach[k - 1]
                 wires == {n \in UNION {Neighbours(u) : u \in near} :
                             EdgeCapacity(hw, hw.edges[n[1]]) >= w}
             IN near \cup ({n[2] : n \in wires} \cap wide)
  IN reach[Len(hw.nodes)]
Breadths == {AggBandwidth(n) : n \in Range(hw.nodes)}
              \cup {EdgeCapacity(hw, e) : e \in Range(hw.edges)}

\* What widest_path() returns joins its ends, is as wide as any path between them,
\* and its width and latency are those of one choice of edges along its nodes; there
\* is no path only if there is none that carries anything.
WidestIsBest ==
  query = "answered" /\ best # << >> =>
    /\ widest.width = Max({0} \cup {w \in Breadths : To \in Joined(w)})
    /\ widest # NoPath =>
         LET path == widest.path
             hops == 1 .. Len(path) - 1
             through == {NodeOf(hw, path[i]) : i \in DOMAIN path}
         IN /\ path[1] = From /\ Last(path) = To
            /\ \E taken \in [hops -> DOMAIN hw.edges] :
                 /\ \A i \in hops : <<taken[i], path[i + 1]>> \in Neighbours(path[i])
                 /\ widest.width = Min({AggBandwidth(n) : n \in through}
                                         \cup {EdgeCapacity(hw, hw.edges[taken[i]]) : i \in hops})
                 /\ widest.latency = MapThenSumSet(LAMBDA n : n.latency, through)
                                       + MapThenSumSet(LAMBDA i : hw.edges[taken[i]].latency, hops)
==============================================================================
