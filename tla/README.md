# Verification of inferencesim

`inferencesim` predicts the performance of LLM inference: a model on a
deployment is lowered to ops, the ops are costed on a machine described as a
spec sheet or as a graph, and the costs drive simulations of a pipeline, of a
chip, and of a serving system under load. This project models those parts in
TLA+, checks them with TLC on small instances, and proves the most important
properties of both serving loops with TLAPS for every instance.

## The system

| part | source | state | operations | how it can go wrong |
|---|---|---|---|---|
| aggregated serving loop | `serve.py` `serve()` | clock, arrival index, waiting deque, running list, per-request progress (`_Req`), KV ledgers | intake, admission, force-admission, preemption, exclusive prefill, decode step, mixed step | requests lost or starved by preemption, livelock, the KV ledger drifting from what is held, DRAM overbooked |
| disaggregated serving loop | `serve.py` `serve_disagg()` | event heap, two waiting deques, prefill replicas, decode replicas with an iteration under way | arrival, prefill done, transfer done, decode done, dispatch to both pools | admission into a replica in mid-iteration, re-transfer after preemption, event order, starvation of a large request |
| task scheduler | `sched.py` | ready heap, departure heap, slot heaps, active flows, epochs | start on a server, start on a shared resource, depart, release, lanes of a trace | stale departures, equal times, flows retired early, cycles, overlapping lanes |
| collectives | `collectives.py` | none (appends tasks) | ring pass, half ring, all-to-all on a switch, a ring and a mesh | queueing where the closed form assumes none, wrong routing at half-way |
| pipeline engine | `des.py` | rounds, warm-up, last estimate, task list | build a pass and its rounds, measure, double | tasks that do not add up to the op they stand for, microbatches that wait for the wrong pass, a loop that does not settle |
| op lowering | `ops.py`, `workload.py`, `engine.py` | none | decode, prefill and chunk op lists; cost of an op | a divisor of tp, pp, ep or adp too many or too few |
| hardware graph | `graph.py` | nodes, edges, nesting, derates; residual capacities and heap of the queries | flatten, expand, derate, to and from dict, max_flow, widest_path | grouped and expanded forms disagreeing, a path with a stale width |
| chip-graph engine | `graphdes.py` | pools of banks and cores, chains of elements | route, cut an op into tiles, schedule them | tiles that overfill the SRAM, disabled cores that work, an op faster than the chip |
| bridge | `bridge.py` | none | system to graph, graph to system, replace the chip | a round trip that changes the machine |
| memory report, totals | `simulate.py`, `efficiency.py` | none | sums over a finished result | not modelled |
| data | `hardware.py`, `presets*.py` | none | presets, dtype fallback | not modelled, except the fabric of a group |
| calibration | `calibration.py` | none | fit factors to published numbers | not modelled |
| reports | `cli.py`, `report.py`, `units.py`, percentiles and samplers of `serve.py` | none | parse arguments, format | not modelled |

The serving loops call the roofline engine to cost an iteration, and nothing
else. The pipeline engine lowers a phase to ops, costs them, has `collectives`
append the link transfers, and hands the list to `schedule()`; the chip-graph
engine hands it the tiles of an op. The bridge asks `max_flow()` for the
bandwidth of a chip. No part runs concurrently with another: the hard behaviour
is the order of events in simulated time, which follows from the arrivals and
the costs, and the agreement of parts that compute the same thing twice (graph
and spec sheet, grouped and expanded, simulated and closed form).

`PROJECT.json` lists the parts with their status, and under `hazards` what is
hard to test in each of them, at its line.

## Modules

| module | models |
|---|---|
| `KvCache` | `_kv_accounting()`: the footprint of a sequence and its growth, with a sliding window; sums over sets |
| `Serve` | the loop of `serve()`, all modes and both KV policies |
| `Disagg` | the loop of `serve_disagg()`, both pools and both KV policies |
| `RequestService` | what a server promises its requests, without KV, prefill and iterations; both loops implement it |
| `Sched` | the event loop of `schedule()`, and the lanes of `chrome_trace()` |
| `Collectives` | the builders of `collectives.py` |
| `Lowering` | `ops.py` with the sizes of `workload.py` and the costs of `engine.py` |
| `Des` | the pipeline engine; composes `Lowering`, `Collectives` and `Sched` |
| `HwGraph` | the structure of a hardware graph: limits, endpoints, links, derates, `validate()` of one level |
| `HwNested` | what descends into composites: `validate()`, flatten, expand, the serialised form |
| `GraphQueries` | `max_flow()` and `widest_path()` as loops over `HwGraph` |
| `Bridge` | systems to graphs and back; composes `GraphQueries` and `HwNested` |
| `ChipTiles` | an op on an expanded chip as tile tasks, over `HwGraph` |
| `TaskGraphs` | instances for `Sched`: small graphs, collectives, tiles of ops; and what is expected of the last two |
| `Pipelines` | instances for `Des` |
| `Machines` | instances for `Bridge` |
| `KvCacheProofs` | laws of sums, of queues, of choices by idx, and of the footprint |
| `ServeProofs` | types, the request bookkeeping, the tokens and the order of the queue of `Serve`; `Serve` implements `RequestService` |
| `ServeKvProofs` | the KV properties of `Serve`, on top of `ServeProofs` |
| `DisaggProofs` | types, bookkeeping, tokens, batches and work conservation of `Disagg`; `Disagg` implements `RequestService` |
| `DisaggKvProofs` | the KV properties of `Disagg`, on top of `DisaggProofs` |
| `SchedProofs` | cycles, precedence, the FIFO pools, the shared resources and the trace lanes of `Sched` |
| `GraphQueriesProofs` | the search of `widest_path()` in `GraphQueries` |
| `MaxFlowProofs` | the augmenting loop of `max_flow()` in `GraphQueries`, on top of `GraphQueriesProofs` |

A definition whose comment begins with "Slip" is a plausible mistake in the
definition after it. No behaviour uses it: it shows that a property notices.

### `Serve` and the code

An iteration of the `while` loop is a sequence of steps, and `pc` says where it
is: `intake` (lines 771-775), `admit` (776-797), `run` (799-892). `Admit` is
one turn of the admission loop, `Preempt` one turn of whichever eviction loop
applies; `PrefillStep`, `DecodeStep` and `MixedStep` are the three kinds of
iteration, each with everything it calls (`step_decoders`, `finish`,
`complete_prefill`). The eviction loops are steps of their own so that TLC can
look between them.

* Time is abstracted. The clock matters to the loop in one way only: it decides
  how many requests have arrived when an iteration ends. `Intake` therefore
  takes in any number of the next requests. Costs, percentiles and gaps are
  left out.
* Requests are numbered in arrival order, as `_build_requests` numbers them;
  their lengths are drawn in `Init` from the sets the configuration names,
  among those that pass the hard-budget check.
* `running` is a set: the code only ever picks from the list by idx.
* Bytes are integers. The code's floats and its `_EPS` slack are the exact
  comparison then. `Usable` is the watermark times the budget.
* `forced` says that the run carries the over-watermark warning; how often is
  not counted. The iteration cap (line 744) is left out: liveness takes its
  place.
* Lengths are positive. An explicit trace may hold zeros, which the code does
  not refuse; the model does not cover them.

### `Disagg` and the code

The loop takes an event off the heap, and the event's handler runs to its end.
`Arrival`, `PrefillDone`, `TransferDone` and `DecodeDone` are the handlers
(lines 1273-1328); each ends by setting `pc` to the dispatch it calls, whose
loops run step by step in the order of the code: `prefill` (1158-1171), `admit`
(1220-1229), `force` (1230-1237), `start` (1238-1244), and `prefill` again if
somebody was preempted. Replicas are visited in index order, so the dispatch is
deterministic; only the choice of the next event is free.

* Durations are abstracted: whatever is under way may end next, and the next
  request may arrive. The heap itself is what is under way. This allows more
  orders than the code's cost model produces, equal times included; arrivals come
  in idx order, as the heap is seeded. Transfers keep more of their order:
  `kv_transfer_time` (line 957) is the same for all but for the bytes, so
  `transfers` is a sequence, and one is overtaken only by a shorter one (`Lands`).
* `iter_batch` is kept apart from `running`, as in the code: requests join a
  replica while its iteration is under way. `iterating` is `iterBatch # {}`.
* The loop also stops when the heap is empty, with requests that have not
  completed; `Finished` allows that, and `AllServed` says it does not happen.
* The fields the loop writes and never reads (`needs_prefill`, `prefill_done`),
  metrics, transfer bytes and the event cap are left out.

### `Sched` and the code

Each turn of the `while` loop of `schedule()` is one action: `SkipStale` drops a
departure whose epoch has passed, `Depart` ends flows of a shared resource,
`StartShared` and `StartFifo` start the earliest ready task, `Return` and
`RaiseCycle` end the call. The order of events is the code's: by time, a
departure before a start, then by key.

* Time is in whole units and stands for the grid of floats: a departure that
  falls between two units is rounded, as a float is. Remaining work is in units
  of `1/Fine` so that the share of each of N flows is exact, and `Eps` is the
  slack the code grants a flow that has almost ended. The run has `Fine = 12`
  for up to four flows, and `Eps = 1`, so that flows with a little work left, and
  departures that come a little early, do occur.
* Heaps are sets of which the least element is taken. Departures of different
  resources at one instant commute; the model takes them in any order.
* Tasks are keyed 1 .. n in the order of the list, as the builders key them.
* Resources are tuples instead of strings, labels are left out.

A finished schedule is judged from start and finish times alone. `GreedyFifo`
and `FluidShare` define list scheduling and processor sharing without heaps,
slots and epochs, so that the loop is checked against something that is not
itself.

### `Collectives`, `ChipTiles` and the code

The builders append tasks to a sequence exactly as the code appends to its
list, and are functions of the tasks so far. `LinkLoads` compares what each
link carries with the bytes that have to cross it, counted from the messages.

`ChipTiles` starts from an expanded graph. Derates are in halves, so that an
instance works at its full rate, at half of it, or is disabled. The fraction of
SRAM a tile may fill, and the efficiencies, are small fractions; sizes are
chosen such that bytes divide evenly. Constructor errors and labels are left out.

### `Lowering`, `Des` and the code

`Lowering` has one operator per op list and per group of ops. Sizes are whole
numbers: the instances are chosen such that every division is exact, except for
the expected number of active experts, which is rounded to bytes. Popularities
are counted in a common denominator.

`Des` is one call of `run_phase()`. A *job* is the engine's settings together
with the arguments. `DecodeGraph` builds one pass of a microbatch and repeats
it, shifted, for all microbatches and rounds; the code appends the same tasks
one by one. The scheduler runs event by event (`Scheduling`), and then
`ReturnPrefill`, `ReturnFixed`, `ReturnGrown` or `Grow` say what the code does
with the result: estimate the period over the rounds after the warm-up, and, if
the rounds were left to the engine, double them until two estimates agree or
`max_rounds` is reached. Unit costs are those of the roofline; the tile costs
the code can use in their place are modelled in `ChipTiles` and not composed.

`SerialOracle` has the closed form that a pipeline without overlap must
reproduce: the sum of the roofline's ops. The simulation has one term more, the
last message of an all-to-all on a switch, which the closed form leaves out and
the property adds. `WorkConserved` counts flops from the parameters of the
model, without looking at how the ops divide them; with experts of unequal
popularity the chip that is simulated is the busiest and does more than its share.

### `HwGraph`, `GraphQueries`, `Bridge` and the code

A node name is a sequence of a base and selectors, one per level of nesting;
string forms and their parser are left out, but a name that the parser would
refuse is refused. Rates are whole numbers, and `Unlimited` stands for `None`
and infinity.

`GraphQueries` runs the two loops one turn at a time: `max_flow()` finds an
augmenting path and pushes along it, `widest_path()` takes the best entry off
its heap. Which of several shortest augmenting paths is found depends on the
order of a dictionary; the model leaves it open. `MaxFlowIsMinCut` compares the
result with the least cut, over all sets of nodes, and `WidestIsBest` with the
best over all simple paths.

`Bridge` is the session of a caller, who reads a system from a graph (both
queries run in it), then expands its chip, saves and reloads it, or puts a finer
chip model in the place of the chip, and reads it again. A machine is only
started from if the code would accept it (`Readable`).

## Runs

| run | what it asks | result |
|---|---|---|
| `serve_on_demand` | safety, the refinement and termination, exclusive prefill, windowed model | holds |
| `serve_chunked` | safety with chunks mixed into decode steps, dense model | holds |
| `serve_reserve` | reserve covers what is held; with `prefill_first` off, one decoder at a time | holds |
| `serve_chunked_window` | the KV ledger with chunks and a sliding window | violated |
| `serve_chunked_alone` | termination with a request over the watermark, chunked | violated |
| `disagg_on_demand` | safety, work conservation, the refinement and termination, two decode replicas, windowed model | holds |
| `disagg_reserve` | reserve covers what each replica holds, two replicas in each pool | holds |
| `disagg_full_watermark` | the budget is kept with `kv_watermark = 1` | violated |
| `task_graphs` | the scheduler against list scheduling and processor sharing, lanes, cycles; loads of collectives; buffers and times of tiled ops | holds |
| `pipelines` | simulated walls against closed forms and bounds, work conserved, every phase is measured | holds |
| `hw_graph` | both queries against cuts and paths; round trips, expansion, reload and swap | holds |
| `hw_graph_expand` | expansion of groups whose counts do not divide | violated |

### Bounds

The `Serve` runs: four requests, short, long or (in exclusive
mode) over the watermark by their prompt alone, three slots, and a budget for
about two of them. Four requests give a victim, the one that evicts it, one that waits
behind and one that has not arrived. Requests are preempted repeatedly and with
tokens already emitted, in both modes; a request over the watermark is
force-admitted and decodes to its end within the budget. The window is two
tokens, so that prompts lie on both sides of it and a decoder crosses it. A
chunk of two tokens leaves prompts of three half done, and recomputes as well.

A forced admission of a *recompute*, which the comment at line 788 foresees,
does not occur in exclusive mode: a victim's context and what the others hold
were under the watermark together.

The `Disagg` runs: four requests, small ones and one kind that is
over the watermark by its prompt; three slots in each of two decode replicas.
That is enough for a request to join two others in mid-iteration, for both
replicas to run over the watermark alone, and for the budget to be reached to
the byte: above the watermark `disagg_on_demand` leaves two tokens of room, one
for each member of an iteration that a third has joined. One byte less breaks
`HardBudget`, which is the finding below. A forced admission of a recompute
does not occur here either. `disagg_full_watermark` needs two requests of equal
length, one replica in each pool and arrival order: the first holds 7 of 12 bytes
and is about to grow, the second is admitted with the other 5, and the iteration
ends at 13.

`task_graphs`: every graph of three tasks over a single server, a pool of two
and a shared resource, with durations 0, 1 and 4 and every set of earlier
dependencies; graphs of four with up to four flows on one resource, whose
shares of 1/2, 1/3 and 1/4 make departures fall between two instants; every
dependency relation on three tasks, cycles included. Collectives of two to four
members, so that one message goes half-way round a ring. Ops of up to a few
tiles per core on three chips (a fabric, a two-by-two mesh with XY and with
shortest-path routes, banks wired to cores), with a disabled and a slow core
and a disabled bank.

`pipelines`: a two-layer model in its kinds (dense, windowed, latent attention,
experts of equal and of skewed popularity) on two to four chips, each way of
sharding alone and the combinations that interact, on three topologies, ideal
and derated, with groups inside a node and across the network. Rounds left to the
engine start at eight, or at the cap if that is lower; with caps of 3, 11 and 16
there is no doubling, one that the cap cuts to an odd count, and a full one.
More doublings repeat the same step.

`hw_graph`: spec sheets with every shape of on-chip path, one or two chips and
nodes; chip graphs with selectors, counted links, nested dies, several routes,
a detour for which an augmenting path must be undone, disabled instances, and
no limit at all.

### Fairness

Weak fairness of the next-state relation of `Serve`, `Disagg`, `Sched` and
`Des`: each is one thread that never blocks. Nothing is assumed about which step
it takes, nor about arrivals, except that an idle replica moves its clock to
the next one (line 812). Liveness fails in chunked on_demand mode (the findings
below), so `AllServed` is checked there only by the run that shows the failure.
`Bridge` is checked for safety only: its caller need not ask anything.

## Findings

* `serve.py:886` charges a prefill chunk at the full bytes per token, even
  beyond the sliding window; the release is windowed. `kv_used` never returns to
  zero, and later admissions see less memory than there is
  (`serve_chunked_window`).
* `serve.py:865` may evict the last decoder. One request over the watermark, or
  two requests that fit but for a token, are preempted and recomputed for ever,
  until the iteration cap raises an error (`serve_chunked_alone`).
* `serve.py:1177` admits into a decode replica in mid-iteration without counting
  the tokens its members are about to add. The replica ends the iteration over
  the watermark, by up to `max_batch - 1` tokens; with a watermark of 1 that is
  over the DRAM budget, and no warning says so (`disagg_full_watermark`). Running
  the program with `kv_watermark=1.0` on the 8-GPU preset and a tight deployment
  reports a `peak_kv_bytes` above `kv_budget_bytes`.
* `graph.py:389` promises that `max_flow` is the same before and after
  expansion. Links between groups whose counts do not divide each other are
  interleaved, and the expanded chip may then carry less (`hw_graph_expand`): of
  two banks on three memories one serves a single memory and cannot use its
  bandwidth.

Met while modelling, without a run of their own:

* The victim of a preemption is the latest to arrive, where the documentation
  says the latest admitted. No property depends on the choice.
* `des.py:470`: with a warm-up of 0, which `decode_rounds = 1` implies,
  `round_end[warmup - 1]` is the last round, and the measured period is 0.
* `graphdes.py:371` divides by the bandwidth of an element. Disabled cores and
  banks are left out of the pools, a disabled router or SRAM is not: an op
  that crosses it ends in a division by zero.
* `sched.py:78` says that "FIFO dispatch keeps (ready_time, key) order". A task
  that takes no time may release, at the instant it is ready, a task with a
  smaller key than one that has just started there: of keys 0, 1 on one resource and 2 on
  another, 0 waiting for 2 and 2 taking no time, 1 goes before 0 though both
  are ready at 0. The builders never make a task wait for a later key; `StartsInOrder`
  has the exact condition.
* A counted composite that holds memory cannot be expanded together with its
  inside: the nested names are refused as malformed endpoints, and `flatten()`
  counts one instance.

## Proofs

`KvCacheProofs` proves the laws of `Total` (a sum is the number of cells under
its function) that the ledger rests on, and `GrowIsDifference`: growth token by
token is the difference of footprints at every context, the window included.
The cardinality laws are the library's; the rest is by hand.

### The aggregated loop

`ServeProofs` proves, from `KvAssumption` and `ServeAssumption` alone:

* `TypeCorrect`, `RequestsKept`, `TokensConserved`: `TypeOK`, `NoLostRequest`
  and `TokenConservation` are invariants in every mode, for every workload.
* `QueueIsFifo`: so is `FifoQueue`.

The inductive invariant is `IInv`, the conjunction of the first three. None of
them is inductive alone: that a victim is not in the queue already needs
`NoLostRequest`; that a chunk does not overshoot and leaves a natural number
of tokens needs `TokenConservation`, whose case for a decoder that finishes
needs to know it had not completed before. There is one lemma per action;
`EmitInv` is shared by the two iterations that decode. The order of the queue
(`Fifo`) needs two facts more: only a request that has started decodes, so
that a victim goes back in front of those that have not, and nobody starts
before arriving.

`ServeKvProofs` adds the KV ledger in layers, each an inductive invariant
relative to the ones before it:

| invariant | says | theorem |
|---|---|---|
| `Filling` | no chunk without `Chunk`, at most one prompt half done, everybody fits the hard budget alone | `OnePrefillAtATime` |
| `Ledger` | what the batch holds is at most `kvUsed`, and equal to it outside chunked runs with a window | `KvLedgerExact` |
| `Reserved` | `kvReserved` is the sum of the full footprints of the batch | `ReserveIsEnough` |
| `Alone` | under on_demand, whenever the batch holds more than the watermark, one member holds all of it | `BudgetKept`, `WatermarkKept` |
| `OneDecoder` | with `prefill_first` off and no chunks, at most one member of the batch decodes | `DecodersOneByOne` |
| `Charged` | in exclusive on_demand mode, while somebody has yet to prefill, what admission charged is under the watermark, or one request is alone | `PrefillFits` |
| `BigAlone` | a request over the watermark by its own prompt prefills alone | |
| `Warned` | a peak over the watermark has its warning, or belongs to a lone decoder about to be warned about | `AlwaysWarned` |

`Ledger` is an inequality first because that is what survives the overcharge of
a windowed chunk: the budget is kept in every mode, the ledger is exact, and the
reserve enough, only when `Chunk = 0` or `SwaShare = 0`, and the theorems say
so. `Alone` is what makes `HardBudget` inductive: a step adds at most one
token per decoder or one chunk, and the eviction loop has just made room for
it, or has left a single request, which passed the check against the hard
budget before the loop began.

`Warned` has a gap of one step: the exclusive prefill of a request over the
watermark does not set the flag. Then the replica holds that decoder and nothing
else, can neither admit nor finish, and its first decode step sets it.
`AlwaysWarned` excludes only reserve with chunks and windowed layers, where
`kv_used` itself, overcharged, passes the reservations.

`ServeProofs` ends with `ServesRequests`: `Serve` implements `RequestService`
under the mapping the run checks. Each iteration maps to an `Emit` of the
requests that decode, `Admit` and `Preempt` map to themselves, and prefill and
the changes of `pc` stutter.

### The disaggregated loop

`DisaggProofs` proves, from `KvAssumption` and `DisaggAssumption` alone and for
every number of replicas, the types, that no request is lost
(`RequestsKept`, which no run needs to check), `TokensConserved`, `BatchesKept`
and `EmitsOnlyInTurn`. The inductive invariant `IInv` joins these with
`Unarrived`: who has not arrived holds nothing.

`NothingIdles` is about the moments between events, and what makes it true
happens during the dispatch. Its invariant `Busy` says, for each stage of the
dispatch, what the stages before it have covered: no prefill replica is free
with a request waiting from the start of decode replicas on, every decode replica
before the one at hand is iterating or empty, and so on round the second
dispatch to the prefill pool that follows a preemption.

`DisaggKvProofs`:

| invariant | says | theorem |
|---|---|---|
| `KvLedger` | the ledger of each replica is what it holds | `LedgersExact` |
| `AllFit`, `Reserved` | everybody fits the hard budget alone; the commitments of a replica are its full footprints | `ReserveIsEnough` |
| `MidIteration` | under on_demand a replica in mid-iteration has a token of room for each of its members, or runs one request, or was joined by somebody while under the watermark | `RestsUnderWatermark`, `BudgetKept` |

`MidIteration` is the point where the loop is subtle. A request that joins an
iteration is admitted against what the replica holds now; the growth of the members of
the iteration comes after. What is left is that a free slot was needed to join,
so at most `MaxBatch - 1` members grow: hence `WatermarkAtRest` after the
evictions of the next start, and hence the hypothesis `Headroom` of
`BudgetKept`, that `MaxBatch - 1` tokens fit between the watermark and the budget. The
code does not enforce it, and `disagg_full_watermark` shows that the
budget is overbooked without it.

`DisaggProofs` ends with `ServesRequests` for `Disagg`: with the slots of all
decode replicas as those of one server, an admission or a forced one is an
`Admit`, an eviction a `Preempt`, the end of an iteration an `Emit` of its members;
prefill, transfers and dispatch stutter.

### The scheduler

`SchedProofs` assumes only `SchedAssumption` and `GraphAssumption`, which says
what a list of tasks is: keys are the places in the list, durations are
not negative, dependencies are keys. Graphs may have cycles. The theorems are
about one call of `schedule()`; the pipeline engine's repeated calls begin afresh.

| invariant | says |
|---|---|
| `Counts` | `missing` counts the dependencies that have not ended; where a task is (heap, flow, booked, waiting) follows from it |
| `ReadyTimes` | `readyAt` is the end of the last dependency that has ended |
| `Clocks` | a resource with flows has a departure to come that is not stale, at which no flow is overserved by more than half a unit; no event to come lies before the last advance |
| `Knots` | tasks that wait for each other stay unfinished |
| `Outcomes` | "done" means that all have ended, "cycle" that both heaps are empty and some have not |

With the types these make up `IInv`. `Clocks` is what the rest hangs on: `advance()`
subtracts rounded shares, and remaining work stays a natural number only because
every event is no later than the departure computed for the current flows. That
bound, its epoch, and the rule that departures go first, are each needed.

* `ErrorMeansCycle`: the outcome is right in both directions. Left-over tasks,
  with nothing ready and nothing flowing, each wait for another of them; and by
  `Knots` nothing of a cycle ever ends.
* `ListScheduling`: all of `GreedyFifo` but the order, for every graph. Its
  invariant `Places` says that *some* assignment of tasks to servers explains the
  books: tasks of one server do not overlap, a task waited only while every server was
  at work, and no server has a gap between the next event (`Due`) and the time it is
  free. The assignment is not a variable of the code; the proof extends
  it as tasks start. Tasks that run at one instant then map one to one to servers, and
  onto them while a task waits.
* `StartsInOrder`: all of `GreedyFifo`, under `Ordered`. `StartedFirst` says that
  what has started precedes everything that may still start, the work now in
  flight included; `Ordered` is what keeps it when a task that takes no time
  releases another at the same instant. The builders satisfy it: they append a
  task after its dependencies, and a tile's transfer over a shared element has bytes to
  move.
* `NothingEarly`: precedence at every moment, on both kinds of resource.
* `FairShares`: all of `FluidShare`, under `Exact`, that `Fine` is divisible by the
  numbers 1 .. n for the n tasks of a shared resource. `Exact` restricts the unit of work,
  not the graph: for each graph there is such a `Fine` (the factorial of n, say), and
  `Fine = 12` satisfies it for the small graphs of the run. What a flow has
  received is not a sum here but a number of units, one
  for each instant and each part of its share (`Received`), so that nothing has to
  be proved by induction. `Fluid` says, at every moment, that a flow's remaining work
  is its work less the units it received until the last advance, that a flow
  that left had received its work up to half an instant, and that the time charged is
  the number of instants with a flow. `FlowsStay` is why `Fluid` is inductive: an event
  does not change who was active before it. `Tight` is the other half of `Clocks`:
  some flow is no more than half a unit underserved at the departure, so
  that the flow a departure retires when none has ended (`sched.py:160`) is not
  retired early.
* `TraceLanes`: all of `LanesPacked`, for every graph. The lanes are a recursive
  function over the tasks in order of start. That such a function exists, and what it says
  of each task, follow from the least place at which it would fail. A lane
  is opened only while all the others are taken by running tasks, so by `ListScheduling` there are no
  more than the pool has servers.

### The searches of a graph

`GraphQueriesProofs` is about any sequence of questions (`QuerySpec`) to any graph
that passes the checks of `validate()` at its level, with limits and latencies
in the naturals (`GoodGraph`), between any sets of its nodes.

* `WidestPath`: all of `WidestIsBest`. The invariant `Search` of the loop has
  four parts. What is in the heap are routes over settled nodes, without a node
  twice (`OnRoutes`); a node that was reached and not settled has a path of its greatest known
  width in the heap (`Frontier`); no path in the heap is wider than a node that is settled
  (`Ahead`); and a settled node has passed its width on over each
  of its edges (`PassedOn`). The last two say that a node need not be
  settled again. When the search stops, the nodes known to be reached with a
  greater width are settled, so that they form a set that wide edges do not leave (`NoneWider`).

The widths are sums over the instances of a node and the latencies sums along a path, which the
community modules define by a recursive function on sets. The module begins
with the laws of such a sum, which are proved by the cardinality of the least set
that breaks them.

`MaxFlowProofs` is about the same questions.

* `MaxFlow`: `MaxFlowIsMinCut`. While the loop runs, `FlowOk` holds: what the arcs can
  still carry is a flow (`Flowing`), that is, across every set of vertices that holds the
  source and not the sink, and that only limited arcs leave, the same net amount has been sent, and
  it is the amount counted so far. That a push keeps this is `PushFlows`: a route crosses each
  such set once more outwards than inwards, whatever is taken back on the way (`PushCrosses`).
  The walks of the search are all those without a vertex twice until one ends at the sink, so that,
  when there is none, the vertices they reached are a set that nothing can leave (`NoRoutes`);
  its separation (`SepOf`) is then no wider than the flow, and no separation is
  narrower than a flow (`FullFlow`). A route without a limit leaves no separation that has
  one (`FreeRoute`).

The model's `Unlimited` is a number, and adding up limits must not reach it: the
hypothesis `Countable` says that twice the sum of the limits of the graph is below it.
Floats have a real infinity, so the code needs nothing of the kind; the graphs of the
run `hw_graph` all satisfy it. The width of a separation and the capacity of an arc are
folds over lists. What such a fold computes, without a limit as soon as one of the terms has none,
is proved from the unfolding of its recursion, at the least set of positions that breaks it (`AddsUpIs`).

### What stays with TLC

All of `Des` and `Bridge`, and liveness, which is beyond the proof system. The return
of the scheduler is liveness too; `ErrorMeansCycle` is its safety part. What `Lowering`,
`Collectives` and `ChipTiles` build is defined by folds over lists, with the functions
folded as parameters, whose general laws need induction over data; `HwNested` and
`Bridge` hold recursive operators, which the proof system does not take.
So `LinkLoads`, `TileBuffers`, `NeverOptimistic`, the three invariants of `Des` and the
two of `Bridge` are model-checked only.

## Not modelled

* Calibration, presets, the command line and the text reports: data, real-valued
  fits and formatting. So are the percentiles, samplers and cost tables of
  `serve.py`, and the time stamps of a request (first token, gaps), which
  decide nothing.
* `simulate.py`: the memory report (with its count of dense layers), power, cost
  and totals are sums over a finished result.
* Effects of binary floating point other than rounding of the clock in `Sched`:
  the slack of 1e-6 bytes in the serving loops is, at the size of a DRAM, below
  the spacing of the floats it is added to.
* The caps on iterations and events of the serving loops: liveness takes their place.
* In `graph.py`: matching of names by `find()` and `_group()`, free-form
  meta data, power and cost, files. In `graphdes.py`: constructor errors.
* Tile costs as the unit costs of the pipeline engine, see above.

## Plan

* `Collectives`: that the task lists of the builders satisfy `GraphAssumption` and
  `Ordered`, as far as it follows without induction over lists.
