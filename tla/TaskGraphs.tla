------------------------------ MODULE TaskGraphs ------------------------------
(***************************************************************************)
(* Task graphs for the event loop of Sched: every small graph over a FIFO  *)
(* resource, a pool of two servers and a shared one, graphs with cycles,   *)
(* collectives on their own (Collectives), and the tiles of an op on a     *)
(* chip (ChipTiles).  The field `of` says what a graph was made from.      *)
(***************************************************************************)
EXTENDS Sched, Collectives, ChipTiles, HwNested

NoServers == << >>
Lone == <<"lone", 0, 0, 0>>
Pool == <<"pool", 0, 0, 0>>
Bus == <<"bus", 0, 0, 0>>

SmallTask(res, durs, earlier) == [res : res, dur : durs, deps : SUBSET earlier]
Small(tasks) == [tasks |-> tasks, servers |-> [r \in {Pool} |-> 2], shared |-> {Bus},
                 of |-> [kind |-> "any"]]
Three == {Small(<<a, b, c>>) :
            a \in SmallTask({Lone, Pool, Bus}, {0, 1, 4}, {}),
            b \in SmallTask({Lone, Pool, Bus}, {0, 1, 4}, {1}),
            c \in SmallTask({Lone, Pool, Bus}, {0, 1, 4}, {1, 2})}
Four == {Small(<<a, b, c, d>>) :
           a \in SmallTask({Pool, Bus}, {2, 3}, {}), b \in SmallTask({Bus}, {2, 3}, {1}),
           c \in SmallTask({Pool, Bus}, {3}, {1, 2}),
           d \in SmallTask({Pool, Bus}, {2, 5}, {1, 2, 3})}
AnyDeps == {Small([k \in 1 .. 3 |-> [res |-> Lone, dur |-> 1, deps |-> deps[k]]]) :
              deps \in [1 .. 3 -> SUBSET (1 .. 3)]}

------------------------------------------------------------------------------
\* An all-to-all or an allreduce between g members that starts at once.
Call(g, payload, weights, on, topo) ==
  [kind |-> "all_to_all", g |-> g, payload |-> payload, weights |-> weights, on |-> on,
   net |-> [bw |-> 2, lat |-> 3, topo |-> topo]]
Built(call) ==
  LET empty == Builder(<< >>, None) IN
  IF call.kind = "allreduce" THEN Allreduce(empty, 0, call.g, call.payload, call.net)
  ELSE AllToAll(empty, 0, call.g, call.payload, call.net, call.weights, call.on)
Collective(call) ==
  [tasks |-> Built(call).tasks, servers |-> NoServers, shared |-> {}, of |-> call]

AllTo == {Call(g, p * (g - 1), << >>, "dest", t) :
            g \in 2 .. 4, p \in {2, 6}, t \in {"ring", "all-to-all"}}
Skewed == {Call(3, 24, <<3, 2, 1>>, on, t) :
             on \in {"src", "dest"}, t \in {"ring", "all-to-all"}}
Reduced == {[Call(g, 4 * g, << >>, "dest", t) EXCEPT !.kind = "allreduce"] :
              g \in 2 .. 4, t \in {"ring", "all-to-all"}}

------------------------------------------------------------------------------
\* Chips of two banks and two cores: around a fabric, on a mesh of four routers, bare.
Thing(name, kind, count, flops, capacity, bandwidth) ==
  [name |-> Simple(name), kind |-> kind, count |-> count, flops |-> flops, capacity |-> capacity,
   bandwidth |-> bandwidth, latency |-> 0, derate |-> Whole, derates |-> << >>, role |-> "",
   topo |-> "", inner |-> NoGraph, ports |-> << >>]
Cable(src, dst, bandwidth) ==
  [src |-> src, dst |-> dst, bandwidth |-> bandwidth, latency |-> 0, count |-> 1,
   pattern |-> "interleave"]
At(name, i) == << <<name, <<i>> >> >>

Banks == Thing("bank", "memory", 2, 0, 64, 2)
L1s == Thing("l1", "memory", 2, 0, 8, Unlimited)
Fpus == Thing("core", "compute", 2, 2, 0, Unlimited)
Fabric(bankDerates, coreDerates) ==
  [nodes |-> <<[Banks EXCEPT !.derates = bankDerates], Thing("noc", "switch", 1, 0, 0, 4), L1s,
               [Fpus EXCEPT !.derates = coreDerates]>>,
   edges |-> <<Cable(Simple("bank"), Simple("noc"), 2),
               Cable(Simple("noc"), Simple("l1"), Unlimited),
               Cable(Simple("l1"), Simple("core"), 4)>>]
Mesh ==
  LET r(i) == At("router", i)
  IN [nodes |-> <<Banks, Thing("router", "switch", 4, 0, 0, Unlimited), L1s, Fpus>>,
      edges |-> <<Cable(r(0), r(1), 2), Cable(r(2), r(3), 2), Cable(r(0), r(2), 2),
                  Cable(r(1), r(3), 2),
                  Cable(At("bank", 0), r(0), Unlimited), Cable(At("bank", 1), r(3), Unlimited),
                  Cable(At("l1", 0), r(3), Unlimited), Cable(At("l1", 1), r(1), Unlimited),
                  Cable(Simple("l1"), Simple("core"), Unlimited)>>]
Bare == [nodes |-> <<Banks, Fpus>>,
         edges |-> <<Cable(Simple("bank"), Simple("core"), Unlimited)>>]

Eff == [memory |-> 1, compute |-> 1, overhead |-> 0]
Slow == [memory |-> 2, compute |-> 2, overhead |-> 3]
Model(g, mesh, fill, eff) ==
  [lumped |-> g, graph |-> Expand(g), mesh |-> mesh, fill |-> fill, eff |-> eff]
Grid == [router |-> "router", cols |-> 2]
Off == (0 :> 0)
Half == (1 :> 1)
Models ==
  {Model(Fabric(d, e), NoMesh, f, Eff) :
     d \in {<< >>, Off}, e \in {<< >>, Off, Half}, f \in {<<1, 2>>, <<1, 1>>}}
  \cup {Model(Mesh, m, <<1, 2>>, e) : m \in {NoMesh, Grid}, e \in {Eff, Slow}}
  \cup {Model(Bare, NoMesh, <<1, 2>>, Slow)}
Ops == {[flops |-> f, read |-> r, write |-> w] : f \in {0, 32}, r \in {0, 32}, w \in {0, 16}}
         \ {[flops |-> 0, read |-> 0, write |-> 0]}
Tiling(c, op, t) ==
  [tasks |-> t.tasks, servers |-> NoServers, shared |-> t.shared,
   of |-> [kind |-> "op", c |-> c, op |-> op, first |-> t.first, release |-> t.release]]
OpGraphs == {Tiling(c, op, OpTiles(c, op)) : c \in Models, op \in Ops}

SomeGraphs == Three \cup Four \cup AnyDeps \cup OpGraphs
                \cup {Collective(call) : call \in AllTo \cup Skewed \cup Reduced}

------------------------------------------------------------------------------
\* The bytes of an all-to-all between two members, and whether the short way between
\* them, clockwise on a tie, passes the link out of member m.
Sent(call, i, j) ==
  IF call.weights = << >> THEN call.payload \div (call.g - 1)
  ELSE (call.g * call.payload * call.weights[(IF call.on = "src" THEN i ELSE j) + 1])
         \div ((call.g - 1) * SumSeq(call.weights))
PassesCw(g, i, j, m) == 2 * ((j - i) % g) <= g /\ (m - i) % g < (j - i) % g
PassesCcw(g, i, j, m) == 2 * ((j - i) % g) > g /\ (i - m) % g < (i - j) % g

\* On its own, a collective keeps each link busy for exactly the bytes that must cross
\* it: an all-to-all those of the messages that a member sends, receives or has to
\* pass on, an allreduce twice the payload but one share of it.  And members that
\* send the same never queue behind each other on a switch: all are received one
\* message after the first was sent.
LinkLoads ==
  outcome = "done" /\ graph.of.kind \in {"all_to_all", "allreduce"} =>
    LET call == graph.of
        g == call.g
        members == 0 .. g - 1
        load(res) == MapThenSumSet(LAMBDA k : Task(k).dur, On(res))
        carried(P(_, _)) ==
          MapThenSumSet(LAMBDA p : Sent(call, p[1], p[2]),
                        {p \in members \X members : p[1] # p[2] /\ P(p[1], p[2])}) \div call.net.bw
    IN IF call.kind = "allreduce"
       THEN /\ \A m \in members : load(Egress(0, m, call.net.topo)) * g * call.net.bw
                                    = 2 * (g - 1) * call.payload
            /\ Makespan = 2 * (g - 1) * (call.payload \div (g * call.net.bw) + call.net.lat)
       ELSE IF call.net.topo = "ring"
       THEN \A m \in members :
              /\ load(Cw(0, m)) = carried(LAMBDA i, j : PassesCw(g, i, j, m))
              /\ load(Ccw(0, m)) = carried(LAMBDA i, j : PassesCcw(g, i, j, m))
       ELSE /\ \A m \in members : /\ load(Out(0, m)) = carried(LAMBDA i, j : i = m)
                                  /\ load(In(0, m)) = carried(LAMBDA i, j : j = m)
            /\ call.weights = << >> =>
                 Makespan = g * (call.payload \div ((g - 1) * call.net.bw)) + call.net.lat

\* From the first byte it reads until it has computed, a tile fills its part of the
\* SRAM of its core: those in flight on one core never fill more than all of it, and
\* a disabled core has none.
TileBuffers ==
  outcome = "done" /\ graph.of.kind = "op" =>
    LET of == graph.of
        core(i) == (i - 1) % Len(Cores(of.c.graph))
        inFlight(i) == {j \in DOMAIN of.first :
                          /\ core(j) = core(i)
                          /\ start[of.first[j]] <= start[of.first[i]]
                          /\ start[of.first[i]] < finish[of.release[j]]}
    IN /\ \A i \in DOMAIN of.first : Cardinality(inFlight(i)) * of.c.fill[1] <= of.c.fill[2]
       /\ \A n \in Range(of.c.graph.nodes) : n.derate = 0 => On(NodeRes(n.name)) = {}

\* The tiles of an op are never faster than the roofline of the chip they were cut
\* from: all its cores at their derated rates, all its banks at theirs.
NeverOptimistic ==
  outcome = "done" /\ graph.of.kind = "op" =>
    LET c == graph.of.c
        op == graph.of.op
        wall == OpWall(c, Makespan) - c.eff.overhead
        group(name) == NodeOf(c.lumped, Simple(name))
    IN /\ wall * AggFlops(group("core")) >= op.flops * c.eff.compute
       /\ wall * AggBandwidth(group("bank")) >= (op.read + op.write) * c.eff.memory
==============================================================================
