------------------------------ MODULE ChipTiles ------------------------------
(***************************************************************************)
(* graphdes.py: one op on the expanded graph of a chip, as the task graph  *)
(* of its tiles.  Tiles take the banks and the cores in turn; each crosses *)
(* the limited nodes and edges from its bank to its core one by one,       *)
(* computes, and writes back along the same way.                           *)
(*                                                                         *)
(* A chip model is [graph, fill, mesh, eff]: fill = <<n, d>> is the part   *)
(* n/d of a core's SRAM that a tile may fill; mesh is NoMesh or the base   *)
(* name of the routers and their columns; eff holds the divisors of the    *)
(* rates and the overhead of an op.  An op is [flops, read, write].        *)
(* Sizes are such that the divisions are exact.                            *)
(*                                                                         *)
(* A definition whose comment starts with "Slip" is a plausible mistake in *)
(* the one after it.                                                       *)
(***************************************************************************)
EXTENDS HwGraph

NoMesh == [router |-> "", cols |-> 1]

\* A disabled instance does no work and is left out.
InPool(g, kind) == SelectSeq(g.nodes, LAMBDA n : n.kind = kind /\ n.derate > 0)
Cores(g) == InPool(g, "compute")

\* The banks are the group of memories with the largest capacity, the first of them.
BankGroup(g) ==
  LET memories == SelectSeq(InPool(g, "memory"), LAMBDA m : m.capacity > 0)
      group(m) == SelectSeq(memories, LAMBDA o : Base(o.name) = Base(m.name))
      size(m) == FoldLeft(LAMBDA x, o : x + o.capacity, 0, group(m))
  IN group(memories[SelectInSeq(memories, LAMBDA m : \A o \in Range(memories) :
                                                       size(m) >= size(o))])

\* The edges at u in the order of the graph, each as <<node at its other end, edge>>.
Adjacent(g, u) ==
  LET at(i) == LET e == g.edges[i] IN
               (IF e.src = u THEN << <<e.dst, i>> >> ELSE << >>)
                 \o (IF e.dst = u THEN << <<e.src, i>> >> ELSE << >>)
  IN FlattenSeq([i \in DOMAIN g.edges |-> at(i)])

\* The first neighbour of u among the names, as a sequence of at most one name.
FirstNext(g, u, names) ==
  LET found == SelectSeq(Adjacent(g, u), LAMBDA a : a[1] \in names)
  IN IF found = << >> THEN << >> ELSE <<found[1][1]>>

SramOf(g, core) ==
  LET dram == Base(BankGroup(g)[1].name)
  IN FirstNext(g, core, {n.name : n \in {m \in Range(g.nodes) :
                                          m.kind = "memory" /\ Base(m.name) # dram}})

\* What a tile may hold: a part of the first SRAM; 0 if there is none, or no limit.
TileBytes(c) ==
  LET used == {s \in Range(c.graph.nodes) :
                 \E k \in Range(Cores(c.graph)) : <<s.name>> = SramOf(c.graph, k.name)}
      first == SelectInSeq(c.graph.nodes, LAMBDA n : n \in used)
  IN IF used = {} THEN 0 ELSE (c.graph.nodes[first].capacity * c.fill[1]) \div c.fill[2]

\* Slip: one tile more than fits in the SRAM.
BuffersOneMore(c) == 1 + c.fill[2] \div c.fill[1]
Buffers(c) == Max({1, c.fill[2] \div c.fill[1]})

------------------------------------------------------------------------------
\* The way from a bank to a core: on a mesh along the column axis and then along the
\* row axis, otherwise the first shortest path.
Towards(a, b) == [k \in 1 .. Max({a - b, b - a}) |-> IF b > a THEN a + k ELSE a - k]

XyRouters(mesh, entry, exit) ==
  LET row(r) == Selector(r)[1] \div mesh.cols
      col(r) == Selector(r)[1] % mesh.cols
      along == Towards(col(entry), col(exit))
      down == Towards(row(entry), row(exit))
      router(r, c) == Instance(entry, r * mesh.cols + c)
  IN <<entry>> \o [k \in DOMAIN along |-> router(row(entry), along[k])]
       \o [k \in DOMAIN down |-> router(down[k], col(exit))]

RouterOf(c, host) ==
  FirstNext(c.graph, host,
            {n.name : n \in {m \in Range(c.graph.nodes) :
                        Base(m.name) = Simple(c.mesh.router) /\ Selector(m.name) # << >>}})

\* The shortest paths from u to each node, in the order of a breadth-first search.
Reached(g, u) ==
  LET extend(paths, p) ==
        FoldLeft(LAMBDA ps, a : IF \E q \in Range(ps) : Last(q) = a[1] THEN ps
                                ELSE Append(ps, Append(p, a[1])),
                 paths, Adjacent(g, Last(p)))
  IN FoldLeft(LAMBDA paths, k : IF k > Len(paths) THEN paths ELSE extend(paths, paths[k]),
              << <<u>> >>, [k \in DOMAIN g.nodes |-> k])

PathTo(core, paths) == paths[SelectInSeq(paths, LAMBDA p : Last(p) = core)]

Via(c, bank, core, sram, entry, exit) ==
  IF c.mesh # NoMesh /\ entry # << >> /\ exit # << >>
  THEN <<bank>> \o XyRouters(c.mesh, entry[1], exit[1]) \o sram \o <<core>>
  ELSE PathTo(core, Reached(c.graph, bank))

RouterOfSram(c, sram) == IF sram = << >> THEN << >> ELSE RouterOf(c, sram[1])
ThroughSram(c, bank, core, sram) ==
  Via(c, bank, core, sram, RouterOf(c, bank), RouterOfSram(c, sram))
PathNodes(c, bank, core) == ThroughSram(c, bank, core, SramOf(c.graph, core))

\* Resources: <<base, instance>> of a node, the first of the edges between two nodes.
NodeRes(name) == <<name[1][1], IF Selector(name) = << >> THEN 0 ELSE Selector(name)[1], 0, 0>>
EdgeBetween(g, u, v) == SelectSeq(Adjacent(g, u), LAMBDA a : a[1] = v)[1][2]
LinkRes(i) == <<"link", i, 0, 0>>

\* The limited nodes and edges on the way, the core excepted, with their bandwidths
\* in halves; the flows through a switch share it.  The edges are not derated.
NodeElement(n) ==
  IF n.bandwidth = Unlimited THEN << >>
  ELSE << [res |-> NodeRes(n.name), bw |-> n.bandwidth * n.derate, shared |-> n.kind = "switch"] >>
EdgeElement(g, k) ==
  IF g.edges[k].bandwidth = Unlimited THEN << >>
  ELSE << [res |-> LinkRes(k), bw |-> g.edges[k].bandwidth * Whole, shared |-> FALSE] >>
Along(g, path) ==
  FlattenSeq([i \in 1 .. Len(path) - 1 |->
    NodeElement(NodeOf(g, path[i])) \o EdgeElement(g, EdgeBetween(g, path[i], path[i + 1]))])
Elements(c, bank, core) == Along(c.graph, PathNodes(c, bank, core))

------------------------------------------------------------------------------
Ceil(x, y) == (x + y - 1) \div y

\* Tiles that fit, and one at least for each core if there is something to compute.
NTiles(c, op) ==
  LET fit == IF TileBytes(c) > 0 /\ op.read > 0 THEN Ceil(op.read, TileBytes(c)) ELSE 1
  IN IF op.flops > 0 THEN Max({Len(Cores(c.graph)), fit}) ELSE fit

\* Flops per unit of time, in halves.
\* Slip: the derate of a core is not applied.
RateFull(core) == core.flops * Whole
Rate(core) == core.flops * core.derate

\* The tasks of one of n tiles, as [res, dur, shared].
Moves(c, n, chain, bytes) ==
  IF bytes = 0 THEN << >>
  ELSE [i \in DOMAIN chain |->
          [res |-> chain[i].res, shared |-> chain[i].shared,
           dur |-> (bytes * Whole * c.eff.memory) \div (n * chain[i].bw)]]
Computing(c, n, core, flops) ==
  IF flops = 0 \/ Rate(core) = 0 THEN << >>
  ELSE << [res |-> NodeRes(core.name), shared |-> FALSE,
           dur |-> (flops * Whole * c.eff.compute) \div (n * Rate(core))] >>
Hops(c, op, n, core, chain) ==
  [read |-> Moves(c, n, chain, op.read), compute |-> Computing(c, n, core, op.flops),
   write |-> Reverse(Moves(c, n, chain, op.write))]

\* A tile waits for the buffer of an earlier one on its core, which is free when that
\* one has computed, or moved its last byte if it computes nothing.
Chained(hops, k, gate) ==
  [x \in DOMAIN hops |-> [res |-> hops[x].res, dur |-> hops[x].dur,
                          deps |-> IF x = 1 THEN gate ELSE {k + x - 1}]]
AddTile(done, h, hops, k, gate) ==
  [tasks |-> done.tasks \o Chained(hops, k, gate),
   first |-> Append(done.first, IF hops = << >> THEN 0 ELSE k + 1),
   release |-> Append(done.release, IF hops = << >> THEN 0
                                    ELSE IF h.compute = << >> THEN k + Len(hops)
                                    ELSE k + Len(h.read) + 1),
   shared |-> done.shared \cup {x.res : x \in {y \in Range(hops) : y.shared}}]
Queued(done, h, before) ==
  AddTile(done, h, h.read \o h.compute \o h.write, Len(done.tasks),
          IF before < 0 THEN {} ELSE {done.release[before + 1]} \ {0})

Tiles(c, op, n, banks, cores) ==
  LET bank(i) == banks[1 + (i % Len(banks))]
      core(i) == cores[1 + (i % Len(cores))]
      tile(done, i) ==
        Queued(done, Hops(c, op, n, core(i), Elements(c, bank(i).name, core(i).name)),
               i - Buffers(c) * Len(cores))
  IN FoldLeft(tile, [tasks |-> << >>, first |-> << >>, release |-> << >>, shared |-> {}],
              [i \in 1 .. n |-> i - 1])
OpTiles(c, op) == Tiles(c, op, NTiles(c, op), BankGroup(c.graph), Cores(c.graph))

OpWall(c, makespan) == makespan + c.eff.overhead
==============================================================================
