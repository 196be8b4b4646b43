------------------------------- MODULE Lowering -------------------------------
(***************************************************************************)
(* ops.py, with workload.py, engine.py and the groups of hardware.py: a    *)
(* model on a deployment as the ops one chip runs, and what an op costs.   *)
(*                                                                         *)
(* Sizes are whole numbers; where the code divides, an instance is chosen  *)
(* that divides, except for the expected number of active experts, which   *)
(* is rounded down to whole bytes.  A data type is its width in bytes.     *)
(*   model: layers, d, heads, kvHeads, dHead, dff, vocab, mats; experts    *)
(*     (0: dense), topK, dExpert, dShared, skew; window (0: none), every;  *)
(*     rank (0: no MLA), rope, nope, vHead, qRank                          *)
(*   dep: tp, pp, ep, adp; weight, kv, act (widths); cpPrefill             *)
(*   op: name, kind, count, flops, read, write, bytes, weights             *)
(***************************************************************************)
EXTENDS Integers, SequencesExt, FiniteSetsExt

------------------------------------------------------------------------------
\* workload.py.
Dense(m) == m.experts = 0
Latent(m) == m.rank + m.rope

SwaLayers(m) == IF m.window = 0 THEN 0 ELSE (m.layers + m.every - 1) \div m.every

QkvParams(m) ==
  IF m.rank > 0
    THEN (IF m.qRank > 0 THEN m.qRank * (m.d + m.heads * (m.nope + m.rope))
                         ELSE m.d * m.heads * (m.nope + m.rope))
         + m.d * Latent(m) + m.rank * m.heads * (m.nope + m.vHead)
    ELSE m.d * m.dHead * (m.heads + 2 * m.kvHeads)
HeadWidth(m) == m.heads * (IF m.rank > 0 THEN m.vHead ELSE m.dHead)
OutParams(m) == HeadWidth(m) * m.d
QkvWidth(m) == IF m.rank > 0 THEN m.heads * (m.nope + m.rope) + Latent(m)
               ELSE (m.heads + 2 * m.kvHeads) * m.dHead
ExpertParams(m) == m.mats * m.d * m.dExpert
SharedParams(m) == m.mats * m.d * m.dShared
FfnParams(m) == IF Dense(m) THEN m.mats * m.d * m.dff
                ELSE m.experts * ExpertParams(m) + SharedParams(m)

\* The popularity of the experts, 1/(e+1)^skew, in parts of a common denominator.
Popularity(m) ==
  LET whole == FoldLeft(LAMBDA x, y : x * y, 1, [e \in 1 .. m.experts |-> e])
  IN [e \in 1 .. m.experts |-> (whole \div e) ^ m.skew]

\* Member i of n owns experts first(i) .. first(i + 1) - 1; the first members
\* take the remainder.
MemberBlock(m, n, i) ==
  LET first(j) == j * (m.experts \div n) + Min({j, m.experts % n}) + 1
  IN first(i) .. first(i + 1) - 1

MemberPopularity(m, n) ==
  [i \in 1 .. n |-> MapThenSumSet(LAMBDA e : Popularity(m)[e], MemberBlock(m, n, i - 1))]

\* Bytes of the distinct experts of a set that `tokens` tokens are expected to
\* touch, each expert holding `size`.
ActiveBytes(m, es, tokens, size) ==
  LET whole == FoldLeft(+, 0, Popularity(m))
      misses(e) == (whole - Min({whole, m.topK * Popularity(m)[e]})) ^ tokens
  IN (size * MapThenSumSet(LAMBDA e : whole ^ tokens - misses(e), es)) \div whole ^ tokens

------------------------------------------------------------------------------
\* ops.py.
ValidDeployment(m, dep) ==
  /\ Min({dep.tp, dep.pp, dep.ep, dep.adp}) >= 1
  /\ dep.ep > 1 => ~Dense(m)
  /\ dep.adp > 1 => Dense(m)

Groups(dep) == dep.pp * dep.ep * dep.adp
ReplicaChips(dep) == dep.tp * Groups(dep)

\* The KV bytes of one token in one layer, on one chip: its share of the heads,
\* as long as there are heads to share, or the latent, which every chip keeps.
KvWidth(m, dep) ==
  dep.kv * (IF m.rank > 0 THEN Latent(m)
            ELSE 2 * (m.kvHeads \div Min({dep.tp, m.kvHeads})) * m.dHead)

Cached(m, tokens) ==
  (m.layers - SwaLayers(m)) * tokens + SwaLayers(m) * Min({tokens, m.window})
KvCache(m, tokens, dep) == (KvWidth(m, dep) * Cached(m, tokens)) \div Groups(dep)

ComputeOp(name, count, flops, read, write) ==
  [name |-> name, kind |-> "compute", count |-> count, flops |-> flops, read |-> read,
   write |-> write, bytes |-> 0, weights |-> << >>]
CommOp(name, kind, count, bytes, weights) ==
  [name |-> name, kind |-> kind, count |-> count, flops |-> 0, read |-> 0, write |-> 0,
   bytes |-> bytes, weights |-> weights]

\* A GEMM of tokens rows, its weights sharded `shard` ways, `streamed` of them read.
Linear(name, tokens, params, streamed, dIn, dOut, dep, count, shard) ==
  ComputeOp(name, count, (2 * tokens * params) \div shard,
          (streamed \div shard) * dep.weight + tokens * dIn * dep.act,
          tokens * (dOut \div shard) * dep.act)

\* Attention of n sequences, q queries each, over kv cached tokens.  A causal
\* prefill scores half of the pairs, or the band that a window leaves of them; a
\* decode step or a chunk scores every query with every key, or with a window of
\* them.  `pairs` is twice their number.  Context parallelism divides it all.
Attention(name, m, n, q, kv, causal, dep, count, cp, window) ==
  LET beyond == IF window = 0 THEN 0 ELSE Max({0, q - window})
      seen == IF window = 0 THEN kv ELSE Min({kv, window})
      pairs == IF causal THEN q * kv - beyond * beyond ELSE 2 * q * seen
      perPair == IF m.rank = 0 THEN 2 * m.dHead
                 ELSE IF q = 1 THEN 2 * m.rank + m.rope ELSE m.nope + m.rope + m.vHead
  IN ComputeOp(name, count, (n * (m.heads \div dep.tp) * pairs * perPair) \div cp,
             (n * (IF causal THEN kv ELSE seen) * KvWidth(m, dep)) \div cp,
             (n * q * KvWidth(m, dep)) \div cp)

\* One op for the layers that see the whole context, one for the windowed layers.
AttentionOps(m, n, q, kv, causal, dep, cp) ==
  LET swa == SwaLayers(m)
      full == Attention("attention", m, n, q, kv, causal, dep, m.layers - swa, cp, 0)
      windowed == Attention("attention_swa", m, n, q, kv, causal, dep, swa, cp, m.window)
  IN (IF swa = m.layers THEN << >> ELSE <<full>>)
       \o (IF swa = 0 THEN << >> ELSE <<windowed>>)

\* In a prefill the attention groups of a dense model split the positions.
CpWidth(m, dep) == IF Dense(m) /\ dep.cpPrefill THEN dep.adp ELSE 1
CpRing(m, kv, dep, cp) ==
  IF cp <= 1 THEN << >>
  ELSE <<CommOp("cp_kv_ring", "cp_ring", m.layers, kv * KvWidth(m, dep), << >>)>>

\* A dense FFN works on the tokens of all groups, over tp*adp chips; experts on
\* the tokens of all groups over tp*ep chips, at the pace of the hottest member.
\* Slip: the dense FFN works on the tokens of its own group.
FfnTokensOwn(own, all) == own
FfnTokens(own, all) == all

DenseFfn(m, own, all, dep) ==
  LET tokens == FfnTokens(own, all)
      exchange(name) == IF dep.adp <= 1 THEN << >>
                        ELSE <<CommOp(name, "halfring", m.layers, all * m.d * dep.act, << >>)>>
  IN exchange("ffn_gather")
       \o <<Linear("ffn", tokens, FfnParams(m), FfnParams(m), m.d, m.d, dep, m.layers,
                   dep.tp * dep.adp)>>
       \o exchange("ffn_scatter")

MoeFfn(m, own, all, dep) ==
  LET shard == dep.tp * dep.ep
      pop == MemberPopularity(m, shard)
      hottest == IF m.skew = 0 THEN all
                 ELSE (all * shard * Max({pop[i] : i \in 1 .. shard})) \div FoldLeft(+, 0, pop)
      streamed == IF m.skew = 0 THEN ActiveBytes(m, 1 .. m.experts, all, ExpertParams(m))
                  ELSE shard * ActiveBytes(m, MemberBlock(m, shard, 0), all, ExpertParams(m))
      weights == IF m.skew = 0 THEN << >> ELSE pop
      payload == (own * m.topK * m.d * dep.act) \div dep.tp
  IN <<Linear("moe_routed", hottest, m.topK * ExpertParams(m), streamed, m.d, m.d, dep,
              m.layers, shard)>>
       \o (IF dep.ep <= 1 THEN << >>
           ELSE <<CommOp("moe_dispatch", "alltoall", m.layers, payload, weights),
                  CommOp("moe_combine", "alltoall", m.layers, payload, weights)>>)
       \o (IF m.dShared = 0 THEN << >>
           ELSE <<Linear("moe_shared", own, SharedParams(m), SharedParams(m), m.d, m.d, dep,
                         m.layers, dep.tp)>>)

Ffn(m, own, all, dep) == IF Dense(m) THEN DenseFfn(m, own, all, dep)
                         ELSE MoeFfn(m, own, all, dep)

\* The second allreduce of a layer is subsumed by the exchange around its FFN.
AllreducesPerLayer(m, dep) == IF dep.ep > 1 \/ dep.adp > 1 THEN 1 ELSE 2
AllreduceOp(m, tokens, dep) ==
  CommOp("allreduce", "allreduce", AllreducesPerLayer(m, dep) * m.layers,
       tokens * m.d * dep.act, << >>)

Hops(m, tokens, dep, count) ==
  IF dep.pp <= 1 \/ count <= 0 THEN << >>
  ELSE <<CommOp("pp_hop", "p2p", count, (tokens * m.d * dep.act) \div dep.tp, << >>)>>

Embed(m, tokens, dep, count) ==
  ComputeOp("embed", count, 0, tokens * m.d * dep.weight, tokens * m.d * dep.act)
LmHead(m, tokens, dep, count) ==
  Linear("lm_head", tokens, m.vocab * m.d, m.vocab * m.d, m.d, m.vocab, dep, count, dep.tp)

\* What every phase has in common: `own` tokens a group, `all` over the groups.
LayerOps(m, own, all, attention, dep, hops) ==
  <<Linear("qkv_proj", own, QkvParams(m), QkvParams(m), m.d, QkvWidth(m), dep, m.layers, dep.tp)>>
    \o attention
    \o <<Linear("out_proj", own, OutParams(m), OutParams(m), HeadWidth(m), m.d, dep, m.layers,
                dep.tp)>>
    \o Ffn(m, own, all, dep) \o <<AllreduceOp(m, own, dep)>> \o Hops(m, own, dep, hops)

\* A decode round at microbatch size.
Microbatch(batch, dep) == batch \div Groups(dep)

DecodeOps(m, dep, batch, ctx) ==
  LET own == Microbatch(batch, dep) IN
  LayerOps(m, own, batch \div dep.pp, AttentionOps(m, own, 1, ctx, FALSE, dep, 1), dep, dep.pp)
    \o <<Embed(m, own, dep, dep.pp), LmHead(m, own, dep, dep.pp)>>

\* A prompt walks the stages; with context parallelism each group has its share.
PrefillOps(m, dep, prompt) ==
  LET cp == CpWidth(m, dep)
      own == prompt \div cp
  IN LayerOps(m, own, prompt,
              AttentionOps(m, 1, prompt, prompt, TRUE, dep, cp) \o CpRing(m, prompt, dep, cp),
              dep, dep.pp - 1)
       \o <<Embed(m, own, dep, 1), LmHead(m, 1, dep, 1)>>

\* A chunk of a prompt, with `prior` tokens cached; the last one has the head.
ChunkOps(m, dep, chunk, prior, produceLogits) ==
  LET cp == CpWidth(m, dep)
      own == chunk \div cp
      kv == prior + chunk
  IN LayerOps(m, own, chunk,
              AttentionOps(m, 1, chunk, kv, FALSE, dep, cp) \o CpRing(m, kv, dep, cp),
              dep, dep.pp - 1)
       \o <<Embed(m, own, dep, 1)>>
       \o (IF produceLogits THEN <<LmHead(m, 1, dep, 1)>> ELSE << >>)

------------------------------------------------------------------------------
\* hardware.py: the fabric of a group.  A system is [chips, nodes, net, network, chip].
NoNet == [bw |-> 0, lat |-> 0, topo |-> "all-to-all"]
GroupNet(sys, g) ==
  CASE g <= 1 -> [NoNet EXCEPT !.topo = sys.net.topo]
    [] g > 1 /\ g <= sys.chips -> sys.net
    [] g > sys.chips -> sys.network

\* engine.py: the groups of a deployment, with their fabrics.
CommContext(sys, dep) ==
  LET a2a == dep.tp * dep.ep * dep.adp IN
  [tp |-> dep.tp, tpNet |-> GroupNet(sys, dep.tp), a2a |-> a2a, a2aNet |-> GroupNet(sys, a2a),
   hopNet |-> GroupNet(sys, ReplicaChips(dep)), cp |-> dep.adp]

\* The efficiency divides a rate: eff is [compute, memory, collective, overhead],
\* the first three being the reciprocals of the code's factors.
Derated(net, eff) == [net EXCEPT !.bw = @ \div eff.collective]

RingTime(bytes, g, net, steps) ==
  IF g <= 1 \/ bytes <= 0 THEN 0 ELSE (steps * bytes) \div (g * net.bw) + steps * net.lat

\* RooflineEngine.time_op(), for one instance of the op.
Roofline(op, chip, comm, eff) ==
  LET tp == Derated(comm.tpNet, eff)
      a2a == Derated(comm.a2aNet, eff)
      hop == Derated(comm.hopNet, eff)
      rate(flops) == (flops * eff.compute) \div chip.flops
      stream(bytes) == (bytes * eff.memory) \div chip.bw
      time(kind) ==
        CASE kind = "allreduce" -> RingTime(op.bytes, comm.tp, tp, 2 * (comm.tp - 1))
          [] kind = "halfring" -> RingTime(op.bytes, comm.a2a, a2a, comm.a2a - 1)
          [] kind = "cp_ring" -> RingTime(op.bytes, comm.cp, a2a, comm.cp - 1)
          [] kind = "alltoall" -> op.bytes \div a2a.bw + a2a.lat
          [] kind = "p2p" -> op.bytes \div hop.bw + hop.lat
          [] kind = "compute" -> Max({rate(op.flops), stream(op.read + op.write)})
  IN time(op.kind) + eff.overhead

\* A phase is the sum of its ops.
PhaseTime(ops, chip, comm, eff) ==
  FoldLeft(LAMBDA t, op : t + op.count * Roofline(op, chip, comm, eff), 0, ops)

==============================================================================
