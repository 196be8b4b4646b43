------------------------------ MODULE Pipelines ------------------------------
(***************************************************************************)
(* Small phases for Des: a two-layer model in its kinds on two to four     *)
(* chips, every fabric and every way of sharding, with sizes that divide.  *)
(***************************************************************************)
EXTENDS Des

Plain == [layers |-> 2, d |-> 8, heads |-> 4, kvHeads |-> 2, dHead |-> 2, dff |-> 8, vocab |-> 8,
          mats |-> 3, experts |-> 0, topK |-> 0, dExpert |-> 0, dShared |-> 0, skew |-> 0,
          window |-> 0, every |-> 1, rank |-> 0, rope |-> 0, nope |-> 0, vHead |-> 0, qRank |-> 0]
Windowed == [Plain EXCEPT !.window = 4, !.every = 2]
LatentKv == [Plain EXCEPT !.rank = 4, !.rope = 2, !.nope = 2, !.vHead = 2, !.qRank = 4]
Sparse == [Plain EXCEPT !.experts = 4, !.topK = 2, !.dExpert = 4, !.dShared = 4]
\* Two experts, the first twice as popular as the second.
Skewed == [Sparse EXCEPT !.experts = 2, !.topK = 1, !.skew = 1]

One == [tp |-> 1, pp |-> 1, ep |-> 1, adp |-> 1, weight |-> 1, kv |-> 1, act |-> 1,
        cpPrefill |-> FALSE]
Net(topo) == [bw |-> 2, lat |-> 3, topo |-> topo]
System(topo) == [chips |-> 4, nodes |-> 2, net |-> Net(topo),
                 network |-> [Net("all-to-all") EXCEPT !.lat = 7],
                 chip |-> [flops |-> 16, bw |-> 8]]
Ideal == [compute |-> 1, memory |-> 1, collective |-> 1, overhead |-> 0]
Real == [compute |-> 2, memory |-> 1, collective |-> 2, overhead |-> 5]

\* A decode of `rounds` rounds, the first discarded, or of as many as it takes for 0.
Decode(model, dep, topo, eff, n) ==
  [phase |-> "decode", model |-> model, dep |-> dep, sys |-> System(topo), eff |-> eff,
   batch |-> IF Dense(model) THEN 12 ELSE 4, ctx |-> 8, prompt |-> 8, rounds |-> n, warmup |-> 1,
   maxRounds |-> 16]
Prefill(model, dep, topo, eff) ==
  [Decode(model, dep, topo, eff, 1) EXCEPT !.phase = "prefill", !.warmup = 0]

Topologies == {"ring", "mesh", "all-to-all"}

\* The same on nodes of two chips, where a larger group spans the network.
AcrossNodes(j) == [j EXCEPT !.sys.chips = 2]

\* Where nothing overlaps: decodes on one stage, and prefills.
SerialJobs ==
  {Decode(m, [One EXCEPT !.tp = 2, !.act = 2], t, e, 3) :
     m \in {Plain, Windowed, Sparse}, t \in Topologies, e \in {Ideal, Real}}
  \cup {Decode(LatentKv, [One EXCEPT !.tp = 2, !.adp = 2], t, Real, 2) : t \in Topologies}
  \cup {Decode(Sparse, [One EXCEPT !.ep = 2], t, Real, 2) : t \in Topologies}
  \cup {Decode([Sparse EXCEPT !.layers = 1], [One EXCEPT !.ep = 2, !.tp = 2], "ring", Real, 2)}
  \cup {Prefill(m, [One EXCEPT !.pp = 2, !.tp = 2], t, Real) :
           m \in {Plain, Windowed, Sparse, LatentKv}, t \in Topologies}
  \cup {Prefill(m, [One EXCEPT !.adp = 2, !.cpPrefill = c], "ring", Real) :
           m \in {Plain, LatentKv}, c \in BOOLEAN}
  \cup {[Decode(Skewed, dep, t, Real, 2) EXCEPT !.batch = 6] :
           dep \in {[One EXCEPT !.tp = 2], [One EXCEPT !.ep = 2]}, t \in Topologies}
  \cup {AcrossNodes(Decode(Plain, [One EXCEPT !.tp = 4, !.act = 2], "ring", Real, 3)),
         AcrossNodes(Decode(Sparse, [One EXCEPT !.ep = 4], "ring", Real, 2)),
         AcrossNodes(Prefill(Windowed, [One EXCEPT !.pp = 2, !.tp = 2], "mesh", Real))}

\* Decodes on two or three stages, some with the rounds left to the engine, up to
\* more or fewer than it starts with.
PipelinedJobs ==
  {[Decode([Plain EXCEPT !.layers = l], [One EXCEPT !.pp = 2], "all-to-all", e, 0)
      EXCEPT !.maxRounds = most] : l \in 1 .. 3, e \in {Ideal, Real}, most \in {3, 11, 16}}
  \cup {Decode([Plain EXCEPT !.layers = 3], [One EXCEPT !.pp = 2, !.tp = 2], t, Real, 4) :
           t \in Topologies}
  \cup {Decode(Windowed, [One EXCEPT !.pp = 3], "all-to-all", Real, 4),
         Decode(Sparse, [One EXCEPT !.pp = 2, !.ep = 2], "all-to-all", Ideal, 4)}

PipeJobs == SerialJobs \cup PipelinedJobs
FirstGraphs == {FirstGraph(j) : j \in PipeJobs}
==============================================================================
