------------------------------- MODULE HwNested -------------------------------
(***************************************************************************)
(* graph.py: what descends into the composites of an HwGraph, its          *)
(* validation, flattening and expansion, and the serialised form.          *)
(*                                                                         *)
(* A definition whose comment starts with "Slip" is a plausible mistake in *)
(* the one after it.                                                       *)
(***************************************************************************)
EXTENDS HwGraph

RECURSIVE Valid(_)
Valid(g) ==
  /\ Cardinality(Names(g)) = Len(g.nodes)
  /\ \A n \in Range(g.nodes) : ValidNode(n) /\ (n.kind = "composite" => Valid(n.inner))
  /\ \A e \in Range(g.edges) : ValidEdge(g, e)

------------------------------------------------------------------------------
\* flatten(): one instance of each composite, whose edges go to its first port.
Under(name, g) ==
  [nodes |-> [i \in DOMAIN g.nodes |-> [g.nodes[i] EXCEPT !.name = name \o @]],
   edges |-> [i \in DOMAIN g.edges |-> [g.edges[i] EXCEPT !.src = name \o @, !.dst = name \o @]]]

RECURSIVE FlatPort(_)
FlatPort(n) ==
  LET port == NodeOf(n.inner, n.ports[1])
  IN n.name \o (IF port.kind = "composite" /\ port.ports # << >> THEN FlatPort(port) ELSE port.name)

RECURSIVE Flatten(_)
Flatten(g) ==
  LET parts == [i \in DOMAIN g.nodes |->
                  LET n == g.nodes[i]
                  IN IF n.kind = "composite" THEN Under(n.name, Flatten(n.inner))
                     ELSE [nodes |-> <<n>>, edges |-> << >>]]
      port(end) == IF HasNode(g, end) /\ NodeOf(g, end).kind = "composite"
                   THEN FlatPort(NodeOf(g, end)) ELSE end
  IN [nodes |-> FlattenSeq([i \in DOMAIN parts |-> parts[i].nodes]),
      edges |-> FlattenSeq([i \in DOMAIN parts |-> parts[i].edges])
                  \o [i \in DOMAIN g.edges |->
                        [g.edges[i] EXCEPT !.src = port(@), !.dst = port(@)]]]

------------------------------------------------------------------------------
\* expand(): a node of its own for each instance, an edge for each link.
Instances(n) == IF n.count = 1 THEN <<n.name>>
                ELSE [i \in 1 .. n.count |-> Instance(n.name, i - 1)]

\* Slip: every instance has the derate of the group.
InstanceDerateGroup(n, i) == n.derate
InstanceDerate(n, i) == Derates(n)[i]

Concrete(g, end) ==
  IF HasNode(g, end) THEN Instances(NodeOf(g, end))
  ELSE LET n == NodeOf(g, Base(end))
           chosen == Selected(Selector(end), n.count)
       IN [i \in DOMAIN chosen |-> Instances(n)[chosen[i] + 1]]

Wires(g, e) ==
  LET srcs == Concrete(g, e.src)
      dsts == Concrete(g, e.dst)
      pair(i) == Pair(e.pattern, i - 1, Len(srcs), Len(dsts))
  IN [i \in 1 .. NLinks(e.pattern, Len(srcs), Len(dsts)) |->
        [e EXCEPT !.src = srcs[pair(i)[1]], !.dst = dsts[pair(i)[2]],
                  !.pattern = "interleave"]]

RECURSIVE Expand(_)
Expand(g) ==
  LET port(n, p) == Instances(NodeOf(n.inner, n.ports[p]))[1]
      inside(n) == IF n.inner = NoGraph THEN n
                   ELSE [n EXCEPT !.inner = Expand(@),
                                  !.ports = [p \in DOMAIN @ |-> port(n, p)]]
      single(n, i) == [inside(n) EXCEPT !.name = Instances(n)[i], !.count = 1,
                                        !.derate = InstanceDerate(n, i - 1), !.derates = << >>]
  IN [nodes |-> FlattenSeq([k \in DOMAIN g.nodes |->
                              [i \in 1 .. g.nodes[k].count |-> single(g.nodes[k], i)]]),
      edges |-> FlattenSeq([k \in DOMAIN g.edges |-> Wires(g, g.edges[k])])]

------------------------------------------------------------------------------
\* to_dict() leaves out what has its default value, from_dict() puts it back.
Defaults == [count |-> 1, flops |-> 0, capacity |-> 0, bandwidth |-> Unlimited, latency |-> 0,
             derate |-> Whole, derates |-> << >>, role |-> "", topo |-> "", inner |-> NoGraph,
             ports |-> << >>, pattern |-> "interleave"]

Kept(field, value) == field \notin DOMAIN Defaults \/ value # Defaults[field]

Record(r) == [f \in {x \in DOMAIN r : Kept(x, r[x])} |-> r[f]]
Restored(d, fields) == [f \in fields |-> IF f \in DOMAIN d THEN d[f] ELSE Defaults[f]]

RECURSIVE ToDict(_), FromDict(_)
ToDict(g) ==
  [nodes |-> [i \in DOMAIN g.nodes |->
                LET d == Record(g.nodes[i])
                IN IF "inner" \in DOMAIN d THEN [d EXCEPT !.inner = ToDict(@)] ELSE d],
   edges |-> [i \in DOMAIN g.edges |-> Record(g.edges[i])]]

NodeFields == {"name", "kind", "count", "flops", "capacity", "bandwidth", "latency", "derate",
               "derates", "role", "topo", "inner", "ports"}
EdgeFields == {"src", "dst", "bandwidth", "latency", "count", "pattern"}
FromDict(d) ==
  [nodes |-> [i \in DOMAIN d.nodes |->
                LET n == Restored(d.nodes[i], NodeFields)
                IN IF n.inner = NoGraph THEN n ELSE [n EXCEPT !.inner = FromDict(@)]],
   edges |-> [i \in DOMAIN d.edges |-> Restored(d.edges[i], EdgeFields)]]
==============================================================================
