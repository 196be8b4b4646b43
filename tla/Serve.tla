-------------------------------- MODULE Serve --------------------------------
(***************************************************************************)
(* serve(): continuous batching on one replica (serve.py).  One process    *)
(* runs iterations; an iteration takes in the requests that have arrived,  *)
(* admits from the head of the queue, preempts decoders that no longer fit *)
(* and then runs one prefill, one decode step or a mix of both.            *)
(*                                                                         *)
(* Requests are 1 .. N in arrival order (their idx).  Time is abstracted:  *)
(* an iteration may last as long as it takes for any number of the next    *)
(* requests to arrive.  Their lengths are chosen once, in Init.            *)
(*                                                                         *)
(* A definition whose comment starts with "Slip" is a plausible mistake in *)
(* the one after it; no behaviour uses it.  The runs' properties are       *)
(* tested by putting it in that definition's place.                        *)
(***************************************************************************)
EXTENDS KvCache, Sequences, FiniteSetsExt

CONSTANTS
  N,             \* n_total, the number of requests
  PromptLens,    \* the prompt lengths the run draws from
  OutputLens,    \* the output lengths
  MaxBatch,      \* max_batch
  Policy,        \* kv_policy: "on_demand" or "reserve"
  KvBudget,      \* kv_budget: the DRAM left for KV
  Usable,        \* usable: kv_watermark * kv_budget (reserve: all of it)
  PrefillFirst,  \* prefill_first
  Chunk          \* prefill_chunk, 0 for None (exclusive prefill)

OnDemand == Policy = "on_demand"

ASSUME ServeAssumption ==
  /\ N \in Nat \ {0}
  /\ PromptLens \subseteq Nat \ {0}
  /\ OutputLens \subseteq Nat \ {0}
  /\ MaxBatch \in Nat \ {0}
  /\ Policy \in {"on_demand", "reserve"}
  /\ KvBudget \in Nat
  /\ Usable \in 1 .. KvBudget
  /\ ~OnDemand => Usable = KvBudget
  /\ PrefillFirst \in BOOLEAN
  /\ Chunk \in Nat

Requests == 1 .. N

VARIABLES
  prompt, output,   \* prompt_len and output_len of each request
  pc,               \* the part of the iteration being run
  arrived,          \* arr_i: requests 1 .. arrived have been taken in
  waiting,          \* the deque, its head first
  running,          \* the running list, as a set: its order is never used
  completed,        \* the requests with a RequestRecord
  needsPrefill, prefillDone, context, gen, started,  \* the fields of _Req
  kvUsed,           \* kv_used
  kvReserved,       \* kv_reserved
  peakKv,           \* peak_kv
  forced            \* forced_over_budget > 0: the run carries the warning

lens  == <<prompt, output>>
queue == <<arrived, waiting>>
reqs  == <<needsPrefill, prefillDone, context, gen, started>>
kv    == <<kvUsed, kvReserved, peakKv, forced>>
vars  == <<lens, pc, queue, running, completed, reqs, kv>>

-----------------------------------------------------------------------------
Larger(a, b) == IF a > b THEN a ELSE b

\* Slip: a recompute forgets the tokens generated before the preemption.
TargetForgetsGen(r) == prompt[r]

\* prefill_target: the KV to (re)build, with the tokens generated before a
\* preemption.
Target(r) == prompt[r] + gen[r]

FullFp(r) == KvBytes(prompt[r] + output[r])

\* Livelock guard #1, without which a run is refused.
FitsBudget(r) == FullFp(r) <= KvBudget

Pending  == {r \in running : needsPrefill[r]}
Decoders == {r \in running : ~needsPrefill[r]}

\* Slip: admission counts only the KV already built.
CommittedBuilt ==
  Total([r \in Requests |-> KvBytes(context[r])], running)

\* What admission charges a running request for: its target while it is
\* pending, its current context once it decodes.
Committed ==
  Total([r \in Requests |->
           KvBytes(IF needsPrefill[r] THEN Target(r) ELSE context[r])], running)

\* Slip: the batch limit is forgotten.
CanAdmitAnyBatch(r) ==
  IF OnDemand THEN Committed + KvBytes(Target(r)) <= Usable
              ELSE kvReserved + FullFp(r) <= KvBudget

\* Slip: reserve charges the newcomer with its prompt only.
CanAdmitPrompt(r) ==
  /\ Cardinality(running) < MaxBatch
  /\ IF OnDemand THEN Committed + KvBytes(Target(r)) <= Usable
                 ELSE kvReserved + KvBytes(Target(r)) <= KvBudget

\* can_admit()
CanAdmit(r) ==
  /\ Cardinality(running) < MaxBatch
  /\ IF OnDemand THEN Committed + KvBytes(Target(r)) <= Usable
                 ELSE kvReserved + FullFp(r) <= KvBudget

InProgress == {r \in Pending : prefillDone[r] > 0}

\* Slip: the oldest pending request takes over from the one in progress.
PrefillerOldest == Min(Pending)

\* The one request that prefills: an in-progress chunked prefill, else the
\* oldest pending request.
Prefiller  == IF InProgress # {} THEN Min(InProgress) ELSE Min(Pending)

\* The tokens prefilled in a mixed step.
ChunkSize ==
  IF Pending = {} THEN 0
  ELSE Min({Chunk, Target(Prefiller) - prefillDone[Prefiller]})

\* Slip: prefill_first is ignored.
PrefillTurnAlways == Chunk = 0 /\ Pending # {}

\* Which of the three iterations runs.
PrefillTurn == Chunk = 0 /\ Pending # {} /\ (PrefillFirst \/ Decoders = {})
DecodeTurn  == Chunk = 0 /\ ~PrefillTurn /\ Decoders # {}
MixedTurn   == Chunk > 0

\* The overflow tests of the three eviction loops.  The decode loop keeps one
\* decoder; the two others may evict them all.
PrefillOverflow ==
  /\ Decoders # {}
  /\ kvUsed + KvBytes(Target(Prefiller)) > Usable

\* Slip: the last decoder may be evicted too.
DecodeOverflowAny ==
  /\ Decoders # {}
  /\ kvUsed + Cardinality(Decoders) * KvPerToken > Usable

DecodeOverflow ==
  /\ Cardinality(Decoders) > 1
  /\ kvUsed + Cardinality(Decoders) * KvPerToken > Usable

\* Slip: the chunk is left out of the overflow test.
MixedOverflowNoChunk ==
  /\ Decoders # {}
  /\ kvUsed + Cardinality(Decoders) * KvPerToken > Usable

MixedOverflow ==
  /\ Decoders # {}
  /\ kvUsed + (Cardinality(Decoders) + ChunkSize) * KvPerToken > Usable

\* Slip: the watermark is never enforced.
MustEvictNever == FALSE

MustEvict ==
  /\ OnDemand
  /\ \/ PrefillTurn /\ PrefillOverflow
     \/ DecodeTurn /\ DecodeOverflow
     \/ MixedTurn /\ MixedOverflow

\* guard #2: a single request runs over the watermark, with nothing left to
\* preempt.  Slip: the test compares with the hard budget.
LoneDecodeOverBudget ==
  OnDemand /\ Cardinality(Decoders) = 1 /\ kvUsed + KvPerToken > KvBudget

LoneDecodeOver ==
  OnDemand /\ Cardinality(Decoders) = 1 /\ kvUsed + KvPerToken > Usable

LonePrefillOver ==
  /\ OnDemand /\ Decoders = {} /\ ChunkSize > 0
  /\ kvUsed + ChunkSize * KvPerToken > Usable

-----------------------------------------------------------------------------
\* Any lengths that pass livelock guard #1.
Init ==
  /\ prompt \in [Requests -> PromptLens]
  /\ output \in [Requests -> OutputLens]
  /\ \A r \in Requests : FitsBudget(r)
  /\ pc = "intake"
  /\ arrived = 0
  /\ waiting = << >>
  /\ running = {}
  /\ completed = {}
  /\ needsPrefill = [r \in Requests |-> TRUE]
  /\ prefillDone = [r \in Requests |-> 0]
  /\ context = [r \in Requests |-> 0]
  /\ gen = [r \in Requests |-> 0]
  /\ started = [r \in Requests |-> FALSE]
  /\ kvUsed = 0
  /\ kvReserved = 0
  /\ peakKv = 0
  /\ forced = FALSE

\* Slip: off by one in the next request's index.
NextArrivalsLate(k) == [i \in 1 .. k |-> arrived + i + 1]

NextArrivals(k) == [i \in 1 .. k |-> arrived + i]

\* The requests that arrived during the last iteration join the queue; a
\* replica with nothing to do first moves its clock to the next arrival.
Intake ==
  /\ pc = "intake"
  /\ completed # Requests
  /\ \E k \in 0 .. N - arrived :
       /\ running = {} /\ waiting = << >> => k > 0
       /\ waiting' = waiting \o NextArrivals(k)
       /\ arrived' = arrived + k
  /\ pc' = "admit"
  /\ UNCHANGED <<lens, running, completed, reqs, kv>>

\* The head of the queue joins the batch.
Enter(r) ==
  /\ waiting' = Tail(waiting)
  /\ running' = running \cup {r}
  /\ needsPrefill' = [needsPrefill EXCEPT ![r] = TRUE]
  /\ prefillDone' = [prefillDone EXCEPT ![r] = 0]
  /\ context' = [context EXCEPT ![r] = 0]
  /\ kvReserved' = IF OnDemand THEN kvReserved ELSE kvReserved + FullFp(r)
  /\ UNCHANGED <<lens, arrived, completed, gen, started, kvUsed, peakKv, forced>>

Admit ==
  /\ pc = "admit"
  /\ waiting # << >>
  /\ CanAdmit(Head(waiting))
  /\ Enter(Head(waiting))
  /\ UNCHANGED pc

\* Progress guarantee: an idle replica takes the head whatever the watermark
\* says, and admits nobody else in this iteration.
ForceAdmit ==
  /\ pc = "admit"
  /\ waiting # << >>
  /\ ~CanAdmit(Head(waiting))
  /\ running = {}
  /\ Enter(Head(waiting))
  /\ pc' = "run"

EndAdmission ==
  /\ pc = "admit"
  /\ running # {}
  /\ waiting # << >> => ~CanAdmit(Head(waiting))
  /\ pc' = "run"
  /\ UNCHANGED <<lens, queue, running, completed, reqs, kv>>

\* Slip: the victim goes to the end of the queue.
RequeueLast(v) == Append(waiting, v)

\* Slip: the victim is not put back at all.
RequeueNever(v) == waiting

\* waiting.appendleft(victim)
Requeue(v) == <<v>> \o waiting

\* The decoder an overflow takes: the one with the largest idx.
Victim == Max(Decoders)

\* preempt(): the victim drops its KV and goes to the front of the queue.
Preempt ==
  /\ pc = "run"
  /\ MustEvict
  /\ LET v == Victim IN
       /\ kvUsed' = kvUsed - KvBytes(context[v])
       /\ running' = running \ {v}
       /\ needsPrefill' = [needsPrefill EXCEPT ![v] = TRUE]
       /\ prefillDone' = [prefillDone EXCEPT ![v] = 0]
       /\ context' = [context EXCEPT ![v] = 0]
       /\ waiting' = Requeue(v)
  /\ UNCHANGED <<lens, pc, arrived, completed, gen, started,
                 kvReserved, peakKv, forced>>

\* Exclusive prefill: the whole prompt, or the whole recompute, in one
\* iteration that stalls the decoders.
PrefillStep ==
  /\ pc = "run"
  /\ PrefillTurn
  /\ ~MustEvict
  /\ LET r == Prefiller IN
       /\ kvUsed' = kvUsed + KvBytes(Target(r))
       /\ needsPrefill' = [needsPrefill EXCEPT ![r] = FALSE]
       /\ context' = [context EXCEPT ![r] = Target(r)]
       /\ started' = [started EXCEPT ![r] = TRUE]
  /\ peakKv' = Larger(peakKv, kvUsed')
  /\ pc' = "intake"
  /\ UNCHANGED <<lens, queue, running, completed, prefillDone, gen,
                 kvReserved, forced>>

\* step_decoders(): what the decoders add, and who has all its tokens then.
Growth == Total([r \in Requests |-> KvGrow(context[r])], Decoders)

Finishing == {r \in Decoders : gen[r] + 1 >= output[r]}

\* finish(): what the finishing requests hold after their last token.
Released == Total([r \in Requests |-> KvBytes(context[r] + 1)], Finishing)

\* The part of a step that is the same in both decode iterations: every
\* decoder emits a token and the finished ones leave.
EmitTokens ==
  /\ gen' = [r \in Requests |-> IF r \in Decoders THEN gen[r] + 1 ELSE gen[r]]
  /\ running' = running \ Finishing
  /\ completed' = completed \cup Finishing
  /\ kvReserved' = IF OnDemand THEN kvReserved
                   ELSE kvReserved - Total([r \in Requests |-> FullFp(r)], Finishing)

\* A pure decode iteration.  The peak is taken after the finished requests
\* have released their KV.
DecodeStep ==
  /\ pc = "run"
  /\ DecodeTurn
  /\ ~MustEvict
  /\ EmitTokens
  /\ context' = [r \in Requests |->
                   IF r \in Decoders THEN context[r] + 1 ELSE context[r]]
  /\ kvUsed' = kvUsed + Growth - Released
  /\ peakKv' = Larger(peakKv, kvUsed')
  /\ forced' = (forced \/ LoneDecodeOver)
  /\ pc' = "intake"
  /\ UNCHANGED <<lens, queue, needsPrefill, prefillDone, started>>

\* if prefiller.prefill_done >= target, with this step's chunk.
Whole(r) == prefillDone[r] + ChunkSize >= Target(r)

\* Chunked prefill: one chunk of the prefiller mixed into a decode step.  The
\* chunk is charged at KvPerToken a token; the peak is taken before the
\* finished requests leave.  The step is empty when the eviction loop has
\* taken every decoder and nobody prefills.
MixedStep ==
  /\ pc = "run"
  /\ MixedTurn
  /\ ~MustEvict
  /\ EmitTokens
  /\ LET filled == IF ChunkSize = 0 THEN {} ELSE {Prefiller}
         whole  == {r \in filled : Whole(r)}
         grown  == kvUsed + Growth + ChunkSize * KvPerToken
     IN  /\ prefillDone' = [r \in Requests |->
               IF r \in filled THEN prefillDone[r] + ChunkSize ELSE prefillDone[r]]
         /\ context' = [r \in Requests |->
               CASE r \in filled   -> prefillDone[r] + ChunkSize
                 [] r \in Decoders -> context[r] + 1
                 [] OTHER          -> context[r]]
         /\ needsPrefill' = [r \in Requests |-> needsPrefill[r] /\ r \notin whole]
         /\ started' = [r \in Requests |-> started[r] \/ r \in whole]
         /\ peakKv' = Larger(peakKv, grown)
         /\ kvUsed' = grown - Released
  /\ forced' = (forced \/ LonePrefillOver)
  /\ pc' = "intake"
  /\ UNCHANGED <<lens, queue>>

\* while len(completed) < n_total: the loop is left.
Finished ==
  /\ pc = "intake"
  /\ completed = Requests
  /\ UNCHANGED vars

Next ==
  \/ Intake
  \/ Admit \/ ForceAdmit \/ EndAdmission
  \/ Preempt
  \/ PrefillStep \/ DecodeStep \/ MixedStep
  \/ Finished

\* The loop is one thread that never blocks: it always takes its next step.
Spec == Init /\ [][Next]_vars /\ WF_vars(Next)

-----------------------------------------------------------------------------
\* The KV the running requests hold, recomputed from their contexts.
Held == Total([r \in Requests |-> KvBytes(context[r])], running)

InQueue == {waiting[i] : i \in 1 .. Len(waiting)}

\* Every variable has the type of the code's variable.
TypeOK ==
  /\ prompt \in [Requests -> PromptLens]
  /\ output \in [Requests -> OutputLens]
  /\ pc \in {"intake", "admit", "run"}
  /\ arrived \in 0 .. N
  /\ waiting \in Seq(Requests)
  /\ running \in SUBSET Requests
  /\ completed \in SUBSET Requests
  /\ needsPrefill \in [Requests -> BOOLEAN]
  /\ prefillDone \in [Requests -> Nat]
  /\ context \in [Requests -> Nat]
  /\ gen \in [Requests -> Nat]
  /\ started \in [Requests -> BOOLEAN]
  /\ kvUsed \in Int
  /\ kvReserved \in Int
  /\ peakKv \in Int
  /\ forced \in BOOLEAN

\* A request is always in exactly one place: not arrived yet, in the queue
\* (once), in the batch, or completed.  Preemption moves it between two of
\* them in the middle of an iteration.
NoLostRequest ==
  /\ \A i, j \in 1 .. Len(waiting) : waiting[i] = waiting[j] => i = j
  /\ InQueue \cup running \cup completed = 1 .. arrived
  /\ InQueue \cap running = {}
  /\ InQueue \cap completed = {}
  /\ running \cap completed = {}

\* kv_used, kept by increments in five places, is the KV the running requests
\* hold.
KvLedger == kvUsed = Held

\* The replica never holds more KV than the DRAM has room for, although the
\* admission and eviction tests compare with the watermark only, and both are
\* waived for a request that runs alone.
HardBudget == Held <= KvBudget

\* The watermark is exceeded by one request alone: whoever else is in the
\* batch holds nothing yet.
OverWatermarkAlone ==
  Held > Usable => Cardinality({r \in running : context[r] > 0}) = 1

\* What a request holds is what it was given: a decoder holds its prompt and
\* the tokens it emitted, through any number of preemptions and recomputes; a
\* pending one holds the chunks of the current prefill; one that is neither
\* running nor completed holds nothing; a request completes exactly when it has
\* emitted output_len tokens.
TokenConservation ==
  /\ \A r \in Decoders : context[r] = prompt[r] + gen[r]
  /\ \A r \in Pending : context[r] = prefillDone[r] /\ context[r] < Target(r)
  /\ \A r \in Requests \ (running \cup completed) : context[r] = 0
  /\ \A r \in Requests : IF r \in completed THEN gen[r] = output[r]
                                            ELSE gen[r] < output[r]

\* reserve: what is committed covers every running request to its end, so the
\* budget is kept without any preemption.
ReserveCovers ==
  ~OnDemand => /\ kvReserved = Total([r \in Requests |-> FullFp(r)], running)
               /\ kvUsed <= kvReserved
               /\ kvReserved <= KvBudget

\* The queue is served in arrival order up to preemption: those that have not
\* started stand behind the preempted ones, oldest first.
FifoQueue ==
  \A i, j \in 1 .. Len(waiting) :
    i < j /\ ~started[waiting[i]] => /\ ~started[waiting[j]]
                                     /\ waiting[i] < waiting[j]

\* "A single request prefills at a time": a chunked prefill is never left half
\* done for another one.
OnePrefill == Cardinality(InProgress) <= 1

\* In exclusive mode the eviction loop in front of a prefill has nothing to
\* do: admission charged every pending request with its whole target.
PrefillAlwaysFits ==
  pc = "run" /\ PrefillTurn => ~PrefillOverflow

\* With prefill_first off, exclusive prefill waits until no decoder is left,
\* so that requests decode one at a time whatever max_batch says.
DecodeFirstSerialises ==
  Chunk = 0 /\ ~PrefillFirst => Cardinality(Decoders) <= 1

\* A run that has been over the watermark ends with the warning about it.
OverWatermarkWarned ==
  completed = Requests /\ peakKv > Usable => forced

\* Where a request is, as its submitter sees it.
Place == [r \in Requests |->
            CASE r \in completed -> "done"
              [] r \in running   -> "batch"
              [] r \in InQueue   -> "queued"
              [] OTHER           -> "coming"]

Service == INSTANCE RequestService
             WITH wanted <- output, place <- Place, emitted <- gen

\* The loop is a request service: whatever is admitted, preempted and
\* recomputed, a request keeps the tokens it has emitted, holds a slot while it
\* emits them one at a time, and leaves with exactly output_len of them.
ImplementsService == Service!Spec

\* A run ends, with every request completed.
AllServed == <>(completed = Requests)
=============================================================================
