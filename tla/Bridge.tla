-------------------------------- MODULE Bridge --------------------------------
(***************************************************************************)
(* bridge.py: a spec-sheet system as a graph, and any graph of that shape  *)
(* as the system that the roofline engine simulates.                       *)
(*                                                                         *)
(* The session of a caller: a system is read from a graph, the graph is    *)
(* then rewritten (its chip expanded, saved and loaded, or replaced by a   *)
(* finer model), and the system is read again.  The bandwidth of a chip is *)
(* the answer of max_flow(), whose loop runs in GraphQueries.              *)
(*                                                                         *)
(*   chip: flops, dram and path (stages), a stage being [kind, bandwidth,  *)
(*     capacity, latency]; net: [bw, lat], or NoNet; system: chip, chips,  *)
(*     net, topo, nodes, network                                           *)
(***************************************************************************)
EXTENDS GraphQueries, HwNested

CONSTANTS
  Specs,     \* spec-sheet systems
  Machines,  \* system graphs of other origin
  Finer      \* chip graphs, with their port, to put in the place of a chip

VARIABLES
  spec,      \* the spec sheet the graph was made from, or NoSpec
  root,      \* the system graph
  read,      \* the systems read so far
  steps      \* what was done to the graph between them

bridgeVars == <<queryVars, spec, root, read, steps>>

NoNet == [bw |-> 0, lat |-> 0]
NoSpec == << >>
NoSystem == << >>

------------------------------------------------------------------------------
Plain(name, kind) ==
  [name |-> name, kind |-> kind, count |-> 1, flops |-> 0, capacity |-> 0,
   bandwidth |-> Unlimited, latency |-> 0, derate |-> Whole, derates |-> << >>, role |-> "",
   topo |-> "", inner |-> NoGraph, ports |-> << >>]
Edge(src, dst, bandwidth, latency) ==
  [src |-> src, dst |-> dst, bandwidth |-> bandwidth, latency |-> latency, count |-> 1,
   pattern |-> "interleave"]

\* The stages of a chip have distinct names, without selectors: here, their place.
StageName(i) == Simple(<<"1st", "2nd", "3rd", "4th", "5th", "6th">>[i])
StageNode(stage, i) ==
  [Plain(StageName(i), IF stage.kind = "memory" THEN "memory" ELSE "switch") EXCEPT
     !.capacity = stage.capacity, !.bandwidth = stage.bandwidth, !.latency = stage.latency]

\* A chain from the DRAM to the compute.
ChipToGraph(chip) ==
  LET stages == <<chip.dram>> \o chip.path
      n == Len(stages)
  IN [nodes |-> Append([i \in 1 .. n |-> StageNode(stages[i], i)],
                       [Plain(StageName(n + 1), "compute") EXCEPT !.flops = chip.flops]),
      edges |-> [i \in 1 .. n |-> Edge(StageName(i), StageName(i + 1), Unlimited, 0)]]

\* Outer links land at the last on-chip fabric, or at the compute.
ChipPort(chip) ==
  LET links == {i \in DOMAIN chip.path : chip.path[i].kind = "link"}
  IN StageName(IF links = {} THEN Len(chip.path) + 2 ELSE Max(links) + 1)

Composite(name, role, count, inner, port) ==
  [Plain(Simple(name), "composite") EXCEPT
     !.role = role, !.count = count, !.inner = inner, !.ports = <<port>>]

\* More than one instance hangs off a switch, each by a link of its own.
\* Slip: the switch does not record the topology.
StarredPlain(name, role, count, inner, port, hub, net, topo) ==
  [nodes |-> <<Composite(name, role, count, inner, port), Plain(Simple(hub), "switch")>>,
   edges |-> <<Edge(Simple(name), Simple(hub), net.bw, net.lat)>>]
Starred(name, role, count, inner, port, hub, net, topo) ==
  [nodes |-> <<Composite(name, role, count, inner, port)>>
               \o (IF count = 1 THEN << >>
                   ELSE <<[Plain(Simple(hub), "switch") EXCEPT !.topo = topo]>>),
   edges |-> IF count = 1 THEN << >>
             ELSE <<Edge(Simple(name), Simple(hub), net.bw, net.lat)>>]

NodeToGraph(s) ==
  Starred("chip", "chip", s.chips, ChipToGraph(s.chip), ChipPort(s.chip), "fabric", s.net, s.topo)
NodePort(s) == Simple(IF s.chips > 1 THEN "fabric" ELSE "chip")
SystemToGraph(s) ==
  Starred("node", "node", s.nodes, NodeToGraph(s), NodePort(s), "network", s.network, "")

------------------------------------------------------------------------------
WithRole(g, role) == SelectSeq(g.nodes, LAMBDA n : n.role = role)

\* The graph of a node of the system, and of a chip of the node; a graph without
\* such composites is a node, or a chip, itself.
NodeGraph(g) == IF WithRole(g, "node") = << >> THEN g ELSE WithRole(g, "node")[1].inner
ChipGraph(g) == LET node == NodeGraph(g)
                IN Flatten(IF WithRole(node, "chip") = << >> THEN node
                           ELSE WithRole(node, "chip")[1].inner)

Computes(g) == SelectSeq(g.nodes, LAMBDA n : n.kind = "compute")
Memories(g) == SelectSeq(g.nodes, LAMBDA n : n.kind = "memory" /\ n.capacity > 0)
TotalFlops(nodes) == FoldLeft(LAMBDA x, n : x + AggFlops(n), 0, nodes)
TotalCapacity(nodes) == FoldLeft(LAMBDA x, n : x + AggCapacity(n), 0, nodes)

\* The DRAM is the group of memories with the largest capacity, the first of them.
Dram(g) ==
  LET memories == Memories(g)
      group(m) == SelectSeq(memories, LAMBDA o : Base(o.name) = Base(m.name))
      first == SelectInSeq(memories, LAMBDA m : \A o \in Range(memories) :
                              TotalCapacity(group(m)) >= TotalCapacity(group(o)))
  IN group(memories[first])

NamesOf(nodes) == {n.name : n \in Range(nodes)}

\* What chip_from_graph() accepts: a split of each memory's name, a compute node, a
\* memory with a capacity.
ChipReadable(g) ==
  /\ Valid(g)
  /\ Computes(g) # << >> /\ Memories(g) # << >>
  /\ \A m \in Range(Memories(g)) : WellFormed(m.name)

ChipFromGraph(g, bandwidth) ==
  [flops |-> TotalFlops(Computes(g)), capacity |-> TotalCapacity(Dram(g)),
   bandwidth |-> bandwidth, latency |-> Max({m.latency : m \in Range(Dram(g))})]

\* The slowest edge at a composite is the link of its instances.
LinkWidth(e) == e.bandwidth * e.count
LinkFromEdges(g, name) ==
  LET limited == SelectSeq(g.edges, LAMBDA e : name \in {e.src, e.dst} /\ e.bandwidth # Unlimited)
      slowest == SelectInSeq(limited, LAMBDA e : \A o \in Range(limited) :
                                                   LinkWidth(e) <= LinkWidth(o))
  IN IF limited = << >> THEN NoNet
     ELSE [bw |-> LinkWidth(limited[slowest]), lat |-> limited[slowest].latency]

Topology(g) ==
  LET declared == SelectSeq(g.nodes, LAMBDA n : n.kind = "switch" /\ n.topo # "")
  IN IF declared = << >> THEN "all-to-all" ELSE declared[1].topo

\* One kind of composite at each level, with a limited link if there are several.
Homogeneous(g, role) ==
  LET found == WithRole(g, role)
  IN /\ Len(found) <= 1
     /\ \A c \in Range(found) :
          LET touching == {e \in Range(g.edges) : c.name \in {e.src, e.dst}} IN
          /\ touching # {} => LinkFromEdges(g, c.name) # NoNet
          /\ c.count > 1 => touching # {}
Readable(g) ==
  /\ Valid(g) /\ Homogeneous(g, "node") /\ Homogeneous(NodeGraph(g), "chip")
  /\ ChipReadable(ChipGraph(g))

Counted(g, role) == IF WithRole(g, role) = << >> THEN 1 ELSE WithRole(g, role)[1].count
LinkOf(g, role) == IF WithRole(g, role) = << >> THEN NoNet
                   ELSE LinkFromEdges(g, WithRole(g, role)[1].name)
SystemFromGraph(g, bandwidth) ==
  LET node == NodeGraph(g) IN
  [chip |-> ChipFromGraph(ChipGraph(g), bandwidth), chips |-> Counted(node, "chip"),
   net |-> LinkOf(node, "chip"), nodes |-> Counted(g, "node"), network |-> LinkOf(g, "node"),
   topo |-> IF WithRole(node, "chip") = << >> THEN "all-to-all" ELSE Topology(node)]

\* swap_chip_model(): every chip of a system has another model inside.
RECURSIVE WithChip(_, _, _)
WithChip(g, inner, port) ==
  [g EXCEPT !.nodes = [k \in DOMAIN @ |->
     LET n == @[k] IN
     CASE n.role = "chip" -> [n EXCEPT !.inner = inner, !.ports = <<port>>]
       [] n.role # "chip" /\ n.inner # NoGraph -> [n EXCEPT !.inner = WithChip(@, inner, port)]
       [] OTHER -> n]]

------------------------------------------------------------------------------
Ask(g) == BeginQuery(ChipGraph(g), NamesOf(Dram(ChipGraph(g))), NamesOf(Computes(ChipGraph(g))))

BridgeInit ==
  /\ \/ \E s \in Specs : spec = s /\ root = SystemToGraph(s)
     \/ spec = NoSpec /\ root \in {g \in Machines : Readable(g)}
  /\ InitQuery(ChipGraph(root), NamesOf(Dram(ChipGraph(root))), NamesOf(Computes(ChipGraph(root))))
  /\ read = << >>
  /\ steps = << >>

Asking == Query /\ UNCHANGED <<spec, root, read, steps>>

\* Without any limit on the way from the DRAM, chip_from_graph() raises.
Read ==
  /\ query = "answered" /\ Len(read) = Len(steps)
  /\ read' = Append(read, IF flow = Unlimited THEN NoSystem ELSE SystemFromGraph(root, flow))
  /\ UNCHANGED <<queryVars, spec, root, steps>>

Rewrite(step, g) ==
  /\ Len(read) = 1 /\ steps = << >>
  /\ \E new \in {x \in {g} : Readable(x)} : root' = new /\ Ask(new)
  /\ steps' = <<step>>
  /\ UNCHANGED <<spec, read>>

\* The chip of the graph, or the graph if it is a chip, as its instances.
ChipExpanded(g) ==
  IF WithRole(NodeGraph(g), "chip") = << >> THEN Expand(g)
  ELSE LET cc == WithRole(NodeGraph(g), "chip")[1]
           inner == Expand(cc.inner)
       IN WithChip(g, inner, Instances(NodeOf(cc.inner, cc.ports[1]))[1])

ExpandChip == Rewrite("expand", ChipExpanded(root))
Reload == Rewrite("reload", FromDict(ToDict(root)))
Swap == \E f \in Finer : WithRole(NodeGraph(root), "chip") # << >>
                          /\ Rewrite("swap", WithChip(root, f.graph, f.port))

Closed == Len(read) = 2 /\ UNCHANGED bridgeVars

BridgeNext == Asking \/ Read \/ ExpandChip \/ Reload \/ Swap \/ Closed

BridgeSpec == BridgeInit /\ [][BridgeNext]_bridgeVars

------------------------------------------------------------------------------
\* Whatever the stages of its chip, a spec sheet made into a graph reads back as
\* itself: counts, links and topology, compute, DRAM capacity and latency, and as
\* bandwidth that of the narrowest stage (a link on a path counts once, not twice).
RoundTrip ==
  spec # NoSpec /\ read # << >> =>
    LET chip == spec.chip IN
    read[1] =
      [chip |-> [flops |-> chip.flops, capacity |-> chip.dram.capacity,
                 latency |-> chip.dram.latency,
                 bandwidth |-> Min({x.bandwidth : x \in {chip.dram} \cup Range(chip.path)})],
       chips |-> spec.chips, nodes |-> spec.nodes,
       net |-> IF spec.chips = 1 THEN NoNet ELSE spec.net,
       network |-> IF spec.nodes = 1 THEN NoNet ELSE spec.network,
       topo |-> IF spec.chips = 1 THEN "all-to-all" ELSE spec.topo]

\* Expanding the chip, or saving and loading the graph, does not change the system
\* that is read; another chip model changes the chip only.
SameMachine ==
  Len(read) = 2 =>
    IF steps = <<"swap">> THEN [read[2] EXCEPT !.chip = read[1].chip] = read[1]
    ELSE read[2] = read[1]
==============================================================================
