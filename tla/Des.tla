---------------------------------- MODULE Des ----------------------------------
(***************************************************************************)
(* DESEngine of des.py: a phase as the task graph of its pipeline, run by  *)
(* schedule().  A prefill walks the stages once; a decode measures the     *)
(* period of its rounds, and, unless told how many, doubles them until two *)
(* successive estimates agree.                                             *)
(*                                                                         *)
(* A job is the engine's settings and the arguments of run_phase(): phase, *)
(* model, dep, sys, eff, batch, ctx, prompt, rounds (0: grow, up to        *)
(* maxRounds) and warmup.                                                  *)
(* An estimate of the period is a fraction <<time, rounds>>.               *)
(***************************************************************************)
EXTENDS Sched, Collectives, Lowering

CONSTANTS
  Jobs,
  Rtol        \* rtol, in parts per thousand

ASSUME DesAssumption == Rtol \in Nat /\ \A j \in Jobs : j.maxRounds \in Nat \ {0}

VARIABLES
  job,
  rounds,     \* of the measurement under way
  warmup,     \* how many of them to discard
  prevEst,    \* the estimate of the measurement before, or NoEstimate
  wall,       \* the wall time of the phase, once there is one
  status      \* "running", then "returned", or "capped" when the rounds ran out

ownVars == <<job, rounds, warmup, prevEst, wall, status>>
desVars == <<vars, ownVars>>

NoEstimate == <<0, 0>>

------------------------------------------------------------------------------
\* The costs of one layer, from the ops of the phase; the attention ops share
\* theirs among the layers.
AttentionShare(time, count, layers) == time * count

Costs(ops, chip, comm, eff) ==
  LET Time(op) == Roofline(op, chip, comm, eff)
      named(names) == SelectSeq(ops, LAMBDA op : op.name \in names)
      cost(names) == FoldLeft(LAMBDA t, op : t + Time(op), 0, named(names))
      layers == named({"qkv_proj"})[1].count
      scores == FoldLeft(LAMBDA t, op : t + AttentionShare(Time(op), op.count, layers), 0,
                         named({"attention", "attention_swa"}))
  IN [layers |-> layers,
      attn |-> cost({"qkv_proj", "out_proj"}) + scores \div layers,
      ffn |-> cost({"ffn", "moe_routed", "moe_shared"}),
      allreduce |-> cost({"allreduce"}),
      nAllreduce |-> Max({1, named({"allreduce"})[1].count \div layers}),
      dispatch |-> cost({"moe_dispatch"}), combine |-> cost({"moe_combine"}),
      gather |-> cost({"ffn_gather"}), scatter |-> cost({"ffn_scatter"}),
      cpRing |-> cost({"cp_kv_ring"}), hop |-> cost({"pp_hop"}),
      edge |-> cost({"embed", "lm_head"})]

\* What each collective needs: its group, its payload and its fabric.
Plan(ops, comm, eff) ==
  LET bytes(name) == FoldLeft(LAMBDA x, op : IF op.name = name THEN op.bytes ELSE x, 0, ops)
      on(group, net, name) == [group |-> group, net |-> Derated(net, eff), bytes |-> bytes(name)]
      dispatches == SelectSeq(ops, LAMBDA op : op.name = "moe_dispatch")
  IN [allreduce |-> on(comm.tp, comm.tpNet, "allreduce"),
      dispatch |-> on(comm.a2a, comm.a2aNet, "moe_dispatch"),
      combine |-> on(comm.a2a, comm.a2aNet, "moe_combine"),
      gather |-> on(comm.a2a, comm.a2aNet, "ffn_gather"),
      scatter |-> on(comm.a2a, comm.a2aNet, "ffn_scatter"),
      cpRing |-> on(comm.cp, comm.a2aNet, "cp_kv_ring"),
      hop |-> on(2, comm.hopNet, "pp_hop"),
      weights |-> IF dispatches = << >> THEN << >> ELSE dispatches[1].weights]

\* What a phase is built from.
Ops(j) == IF j.phase = "decode" THEN DecodeOps(j.model, j.dep, j.batch, j.ctx)
          ELSE PrefillOps(j.model, j.dep, j.prompt)
From(j, ops, comm) ==
  [costs |-> Costs(ops, j.sys.chip, comm, j.eff),
   plan |-> Plan(ops, comm, j.eff), oh |-> j.eff.overhead, pp |-> j.dep.pp]
Ingredients(j) == From(j, Ops(j), CommContext(j.sys, j.dep))

------------------------------------------------------------------------------
Unit(s) == <<"unit", s, 0, 0>>
OnUnit(b, s, dur) == Add(b, Unit(s), dur, After(b))

\* Each collective and each hop costs its overhead on the stage's unit.
\* Slip: a collective has no overhead.
OverheadNone(b, s, oh) == b
Overhead(b, s, oh) == IF oh = 0 THEN b ELSE OnUnit(b, s, oh)

\* The remainder of the layers goes to the first stages.
SplitLayers(n, pp) == [s \in 0 .. pp - 1 |-> n \div pp + (IF s < n % pp THEN 1 ELSE 0)]

When(cond, step) == IF cond THEN <<step>> ELSE << >>

\* The steps of a layer; with one allreduce a layer, it is the one at the end.
LayerSteps(c) ==
  <<"attn">> \o When(c.cpRing > 0, "cpRing")
    \o When(c.nAllreduce >= 2 /\ c.allreduce > 0, "allreduce")
    \o When(c.dispatch > 0, "dispatch") \o When(c.gather > 0, "gather")
    \o <<"ffn">>
    \o When(c.scatter > 0, "scatter") \o When(c.combine > 0, "combine")
    \o When(c.nAllreduce >= 1 /\ c.allreduce > 0, "allreduce")

Emit(b, s, in, step) ==
  LET x == in.plan[step]
      after(c) == Overhead(c, s, in.oh)
  IN CASE step = "embed" -> OnUnit(b, s, 0)
       [] step = "head" -> OnUnit(b, s, in.costs.edge)
       [] step \in {"attn", "ffn"} -> OnUnit(b, s, in.costs[step])
       [] step = "allreduce" -> after(Allreduce(b, s, x.group, x.bytes, x.net))
       [] step \in {"cpRing", "gather", "scatter"} ->
            after(HalfRing(b, s, x.group, x.bytes, x.net))
       [] step = "dispatch" ->
            after(AllToAll(b, s, x.group, x.bytes, x.net, in.plan.weights, "dest"))
       [] step = "combine" ->
            after(AllToAll(b, s, x.group, x.bytes, x.net, in.plan.weights, "src"))

StageTasks(b, s, n, in, isFirst, isLast) ==
  FoldLeft(LAMBDA x, step : Emit(x, s, in, step), b,
           When(isFirst /\ in.costs.edge > 0, "embed")
             \o FlattenSeq([l \in 1 .. n |-> LayerSteps(in.costs)])
             \o When(isLast /\ in.costs.edge > 0, "head"))

\* A hop is carried by the egress link of the stage's member 0; its flight is not.
EmitHop(b, s, in) ==
  LET hop == in.plan.hop
      occ == IF hop.net.bw = 0 THEN 0 ELSE hop.bytes \div hop.net.bw
      sent == Add(b, Egress(s, 0, in.plan.allreduce.net.topo), occ, After(b))
      landed == IF hop.net.lat = 0 THEN sent
                ELSE Add(sent, Prop(s, Len(sent.tasks), 0), hop.net.lat, After(sent))
  IN Overhead(landed, s, in.oh)

\* One microbatch through all the stages; `last` is the task that ends its token.
HandOver(ran, s, in, wraps) ==
  [last |-> ran.prev,
   b |-> IF in.costs.hop > 0 /\ (wraps \/ s < in.pp - 1) THEN EmitHop(ran, s, in) ELSE ran]
Pass(b, in, wraps) ==
  LET layers == SplitLayers(in.costs.layers, in.pp)
      Stage(x, s) ==
        HandOver(StageTasks(x.b, s, layers[s], in, s = 0, s = in.pp - 1), s, in, wraps)
  IN FoldLeft(Stage, [last |-> None, b |-> b], [i \in 1 .. in.pp |-> i - 1])

\* `done` names the last tasks of each round.
TaskGraph(tasks, done) == [tasks |-> tasks, servers |-> << >>, shared |-> {}, done |-> done]

\* The same pass, `offset` keys later, its first tasks waiting for `entry`.
Moved(task, offset, entry) ==
  [Shifted(task, offset, entry) EXCEPT
     !.res = IF IsSync(@) THEN [@ EXCEPT ![3] = @ + offset] ELSE @]

\* Pass p of a microbatch waits for its own token of the round before, not for
\* the other microbatches; a pass is `length` tasks, the last of them its tail.
\* Slip: every pass starts afresh.
EntryFresh(p, pp, length) == {}
\* Slip: a pass waits for the one after.
EntryLate(p, pp, length) == IF p < pp THEN {} ELSE {(p - pp + 1) * length}
Entry(p, pp, length) == IF p <= pp THEN {} ELSE {(p - pp) * length}

\* A decode pass of each job.
DecodePass == [j \in Jobs |-> Pass(Builder(<< >>, None), Ingredients(j), TRUE)]

\* n rounds of the dep.pp microbatches, all alike.
Repeated(pass, tail, pp, n) ==
  LET length == Len(pass)
      Nth(p) == [k \in 1 .. length |-> Moved(pass[k], (p - 1) * length, Entry(p, pp, length))]
  IN TaskGraph(FlattenSeq([p \in 1 .. n * pp |-> Nth(p)]),
                [r \in 1 .. n |-> {tail + (p - 1) * length :
                                    p \in (r - 1) * pp + 1 .. r * pp}])
DecodeGraph(j, n) == Repeated(DecodePass[j].b.tasks, DecodePass[j].last, j.dep.pp, n)

Single(pass) == TaskGraph(pass.b.tasks, <<{pass.last}>>)
PrefillGraph(j) == Single(Pass(Builder(<< >>, None), Ingredients(j), FALSE))

------------------------------------------------------------------------------
Auto(j) == j.rounds = 0
FirstRounds(j) == IF Auto(j) THEN Min({Max({8, 2 * j.dep.pp}), j.maxRounds}) ELSE j.rounds
FirstWarmup(j) == IF Auto(j) THEN FirstRounds(j) \div 2 ELSE j.warmup
FirstGraph(j) == IF j.phase = "decode" THEN DecodeGraph(j, FirstRounds(j)) ELSE PrefillGraph(j)

\* The deployments and the settings that the constructors accept.
Accepted(j) == ValidDeployment(j.model, j.dep) /\ (Auto(j) \/ j.warmup < j.rounds)

DesInit ==
  /\ job \in {j \in Jobs : Accepted(j)}
  /\ rounds = FirstRounds(job)
  /\ warmup = FirstWarmup(job)
  /\ prevEst = NoEstimate
  /\ wall = NoEstimate
  /\ status = "running"
  /\ graph = FirstGraph(job)
  /\ Begin

RoundEnd(r) == Max({finish[k] : k \in graph.done[r]})

\* round_end[warmup - 1]; index -1 is the last round.
WarmupEnd == RoundEnd(IF warmup = 0 THEN rounds ELSE warmup)

Period == <<RoundEnd(rounds) - WarmupEnd, rounds - warmup>>

AbsDiff(x, y) == Max({x - y, y - x})

\* Two estimates agree within Rtol of the later one.
Agree(est, prev) ==
  /\ prev # NoEstimate
  /\ 1000 * AbsDiff(est[1] * prev[2], prev[1] * est[2]) <= Rtol * est[1] * prev[2]

\* schedule() runs.
Scheduling ==
  /\ outcome = "running"
  /\ Next
  /\ UNCHANGED ownVars

Measured == outcome = "done" /\ status = "running"

\* A prefill, and a decode with given rounds, are measured once.
ReturnPrefill ==
  /\ Measured /\ job.phase = "prefill"
  /\ wall' = <<Makespan, 1>>
  /\ status' = "returned"
  /\ UNCHANGED <<vars, job, rounds, warmup, prevEst>>

ReturnFixed ==
  /\ Measured /\ job.phase = "decode" /\ ~Auto(job)
  /\ wall' = Period
  /\ status' = "returned"
  /\ UNCHANGED <<vars, job, rounds, warmup, prevEst>>

\* The rounds grow until the estimates agree or there are maxRounds of them.
ReturnGrown ==
  /\ Measured /\ job.phase = "decode" /\ Auto(job)
  /\ Agree(Period, prevEst) \/ rounds >= job.maxRounds
  /\ wall' = Period
  /\ status' = IF Agree(Period, prevEst) THEN "returned" ELSE "capped"
  /\ UNCHANGED <<vars, job, rounds, warmup, prevEst>>

Grow ==
  /\ Measured /\ job.phase = "decode" /\ Auto(job)
  /\ ~Agree(Period, prevEst) /\ rounds < job.maxRounds
  /\ prevEst' = Period
  /\ LET more == Min({2 * rounds, job.maxRounds})
     IN /\ rounds' = more
        /\ warmup' = more \div 2
        /\ \E g \in {DecodeGraph(job, more)} : BeginAgain(g)
  /\ UNCHANGED <<job, wall, status>>

\* The call is over, or schedule() has raised.
DesOver == (status # "running" \/ outcome = "cycle") /\ UNCHANGED desVars

DesNext == Scheduling \/ ReturnPrefill \/ ReturnFixed \/ ReturnGrown \/ Grow \/ DesOver

DesSpec == DesInit /\ [][DesNext]_desVars /\ WF_desVars(DesNext)

------------------------------------------------------------------------------
(***************************************************************************)
(* Properties.                                                             *)
(***************************************************************************)
\* What a chip of the deployment has to do in the phase, in closed form: the ops
\* one after the other, and, for each all-to-all on a switch, the one message that
\* its receiver takes in after the last has been sent.
ClosedForm(j) ==
  LET comm == CommContext(j.sys, j.dep)
      exchanges == IF j.dep.ep <= 1 THEN 0 ELSE 2 * j.model.layers
      bytes == Plan(Ops(j), comm, j.eff).dispatch.bytes
      bw == Derated(comm.a2aNet, j.eff).bw
  IN PhaseTime(Ops(j), j.sys.chip, comm, j.eff)
       + (IF exchanges = 0 THEN 0 ELSE exchanges * (bytes \div ((comm.a2a - 1) * bw)))

Serial(j) == j.dep.pp = 1 \/ j.phase = "prefill"
Even(j) == j.dep.ep > 1 => j.model.skew = 0 /\ j.sys.net.topo = "all-to-all"

\* Where nothing can overlap, the event simulation is the roofline: the wall time
\* of a serial pipeline is the closed form, for every deployment and efficiency.
SerialOracle ==
  status # "running" /\ Serial(job) /\ Even(job) => wall[1] = ClosedForm(job) * wall[2]

\* The round of one microbatch with no other in its way: its hops and its layers,
\* but the embedding and the head once, not once per microbatch.
RoundTrip(j) == ClosedForm(j) - (j.dep.pp - 1) * Ingredients(j).costs.edge

\* What stage s of pp does for a microbatch on its own unit.
UnitWork(costs, s, pp) ==
  SplitLayers(costs.layers, pp)[s] * (costs.attn + costs.ffn)
    + (IF s = pp - 1 THEN costs.edge ELSE 0)

Paced(time, n, pp, trip, costs) ==
  /\ time \in n * trip .. n * pp * trip
  /\ \A s \in 0 .. pp - 1 : time >= (n - 1) * pp * UnitWork(costs, s, pp)

\* A decode round of a pipeline takes at least as long as one token needs to go
\* round, and as the busiest stage needs for all the microbatches (but for those it
\* took in ahead before the measurement began), and never longer than the
\* microbatches one after the other.
StagePaced ==
  status # "running" /\ ~Serial(job) /\ Even(job) =>
    Paced(wall[1], wall[2], job.dep.pp, RoundTrip(job), Ingredients(job).costs)

\* The flops of some ops of a phase on one chip.
Flops(ops, names) ==
  FoldLeft(LAMBDA x, op : IF op.name \in names THEN x + op.count * op.flops ELSE x, 0, ops)
Projections == {"qkv_proj", "out_proj", "moe_shared"}
Experts == {"ffn", "moe_routed"}
Scores == {"attention", "attention_swa"}

\* The flops of a forward pass of `tokens` tokens, `logits` of them through the head.
ForwardPass(m, tokens, logits) ==
  2 * tokens * m.layers
      * (QkvParams(m) + OutParams(m)
           + (IF Dense(m) THEN FfnParams(m) ELSE m.topK * ExpertParams(m) + SharedParams(m)))
    + 2 * logits * m.vocab * m.d

\* The flops of all chips, each taken to work like the one that is simulated, which
\* is the busiest: with experts of unequal popularity it does more than its share.
Balanced(m, flops, model) == IF m.skew = 0 THEN flops = model ELSE flops > model

DecodeWork(m, dep, batch, ops, kv) ==
  /\ Balanced(m, ReplicaChips(dep) * Flops(ops, Projections \cup Experts)
                   + (ReplicaChips(dep) \div dep.pp) * Flops(ops, {"lm_head"}),
              ForwardPass(m, batch, batch))
  /\ FoldLeft(LAMBDA x, op : x + op.count * op.read, 0,
              SelectSeq(ops, LAMBDA op : op.name \in Scores)) = batch * kv

PrefillWork(m, dep, prompt, ops) ==
  Balanced(m, dep.tp * (CpWidth(m, dep) * Flops(ops, Projections) + Flops(ops, {"lm_head"}))
                + (ReplicaChips(dep) \div dep.pp) * Flops(ops, Experts),
           ForwardPass(m, prompt, 1))

\* The ops of a prompt cut into chunks of c tokens.
Chunked(m, dep, prompt, c) ==
  FlattenSeq([i \in 1 .. prompt \div c |-> ChunkOps(m, dep, c, (i - 1) * c, i * c = prompt)])
SameWork(chunked, ops) ==
  /\ Flops(chunked, Projections \cup Experts \cup {"lm_head"})
       = Flops(ops, Projections \cup Experts \cup {"lm_head"})
  /\ Flops(chunked, Scores) >= Flops(ops, Scores)

\* No deployment loses or repeats work: over the chips of the replica a phase does
\* the flops of the model, each chip reads once a round the KV that it holds, and a
\* prompt in chunks has the same projections and no less attention.  The popularity
\* of experts makes the busiest chip do more.
WorkConserved ==
  status # "running" =>
    IF job.phase = "decode"
    THEN DecodeWork(job.model, job.dep, job.batch, Ops(job), KvCache(job.model, job.ctx, job.dep))
    ELSE /\ PrefillWork(job.model, job.dep, job.prompt, Ops(job))
         /\ \A c \in {job.prompt \div 4, job.prompt \div 2} :
              SameWork(Chunked(job.model, job.dep, job.prompt, c), Ops(job))

\* A phase is measured, whatever the settings: the graph of every round count can be
\* scheduled and the doubling ends.
DesReturns == <>(status # "running")
==============================================================================
