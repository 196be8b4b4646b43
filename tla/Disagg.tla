-------------------------------- MODULE Disagg --------------------------------
(***************************************************************************)
(* serve_disagg(): disaggregated serving (serve.py).  NP prefill replicas  *)
(* take requests one at a time; the KV of a prompt is then transferred to  *)
(* one of ND decode replicas, which decode their batches in iterations.  A *)
(* replica that would overflow sends a request back to the prefill pool.   *)
(*                                                                         *)
(* One process takes events off a heap: an arrival, the end of a prefill,  *)
(* of a transfer, or of a decode iteration.  The handler of an event and   *)
(* the dispatch it calls run to their end before the next event; pc says   *)
(* which loop of the dispatch is running.  Time is abstracted: whatever is *)
(* under way may be the next to end, but for transfers, where one is       *)
(* overtaken only by a shorter one.                                        *)
(*                                                                         *)
(* Requests are 1 .. N in arrival order (their idx).  A definition whose   *)
(* comment starts with "Slip" is a plausible mistake in the one after it;  *)
(* no behaviour uses it.                                                   *)
(***************************************************************************)
EXTENDS KvCache, SequencesExt

CONSTANTS
  N,             \* n_total, the number of requests
  PromptLens,    \* the prompt lengths the run draws from
  OutputLens,    \* the output lengths
  NP,            \* n_prefill_replicas
  ND,            \* n_decode_replicas
  MaxBatch,      \* max_batch, of each decode replica
  Policy,        \* kv_policy: "on_demand" or "reserve"
  KvBudget,      \* kv_budget of a decode replica
  Usable         \* usable: kv_watermark * kv_budget (reserve: all of it)

OnDemand == Policy = "on_demand"

ASSUME DisaggAssumption ==
  /\ N \in Nat \ {0}
  /\ PromptLens \subseteq Nat \ {0}
  /\ OutputLens \subseteq Nat \ {0}
  /\ NP \in Nat \ {0}
  /\ ND \in Nat \ {0}
  /\ MaxBatch \in Nat \ {0}
  /\ Policy \in {"on_demand", "reserve"}
  /\ KvBudget \in Nat
  /\ Usable \in 1 .. KvBudget
  /\ ~OnDemand => Usable = KvBudget

Requests    == 1 .. N
PrefillPool == 1 .. NP
DecodePool  == 1 .. ND
None        == 0

VARIABLES
  prompt, output,   \* prompt_len and output_len of each request
  pc,               \* "event", or the dispatch loop that is running
  arrived,          \* arrivals_seen: requests 1 .. arrived have arrived
  waitingPrefill,   \* the deque of the prefill pool, its head first
  current,          \* the request each prefill replica works on, or None
  transfers,        \* whose KV is being transferred, in the order it began
  waitingDecode,    \* the deque of the decode pool
  running,          \* the running list of each decode replica, as a set
  iterBatch,        \* iter_batch: who takes part in the iteration under way
  completed,        \* the requests with a RequestRecord
  context, gen,     \* the fields of _Req
  kvUsed,           \* kv_used of each decode replica
  kvReserved,       \* kv_reserved of each decode replica
  peakKv,           \* stat["peak_kv"]
  forced,           \* stat["forced"] > 0: the run carries the warning
  victims           \* stat["victims"]

lens    == <<prompt, output>>
prefill == <<waitingPrefill, current>>
decode  == <<waitingDecode, running, iterBatch>>
reqs    == <<context, gen>>
kv      == <<kvUsed, kvReserved, peakKv, forced>>
vars    == <<lens, pc, arrived, prefill, transfers, decode, completed, reqs,
             kv, victims>>

-----------------------------------------------------------------------------
Larger(a, b) == IF a > b THEN a ELSE b

\* Slip: a recompute forgets the tokens generated before the preemption.
TargetForgetsGen(r) == prompt[r]

\* prefill_target
Target(r) == prompt[r] + gen[r]

FullFp(r) == KvBytes(prompt[r] + output[r])

\* A request that fits no decode replica's budget is refused before the loop.
FitsBudget(r) == FullFp(r) <= KvBudget

\* Slip: an iteration's newcomers are not counted until the next one.
CommittedIterating(d) ==
  Total([r \in Requests |-> KvBytes(context[r])], iterBatch[d])

\* What admission charges a replica for: the KV it holds now, without the
\* tokens of the iteration under way.
Committed(d) == Total([r \in Requests |-> KvBytes(context[r])], running[d])

\* Slip: reserve charges the newcomer with what it holds, not its full length.
CanAdmitContext(d, r) ==
  /\ Cardinality(running[d]) < MaxBatch
  /\ IF OnDemand THEN Committed(d) + KvBytes(context[r]) <= Usable
                 ELSE kvReserved[d] + KvBytes(context[r]) <= KvBudget

\* can_admit()
CanAdmit(d, r) ==
  /\ Cardinality(running[d]) < MaxBatch
  /\ IF OnDemand THEN Committed(d) + KvBytes(context[r]) <= Usable
                 ELSE kvReserved[d] + FullFp(r) <= KvBudget

FreePrefillReplicas == {i \in PrefillPool : current[i] = None}

Empty == {d \in DecodePool : running[d] = {}}

\* Slip: a replica in mid-iteration is started again when somebody has joined.
StartableJoined == {d \in DecodePool : running[d] # iterBatch[d]}

\* dr.running and not dr.iterating
Startable == {d \in DecodePool : running[d] # {} /\ iterBatch[d] = {}}

\* The replicas with room for r, and the first of the least loaded ones.
Open(r) == {d \in DecodePool : CanAdmit(d, r)}

LeastLoaded(r) ==
  Min({d \in Open(r) :
         \A e \in Open(r) : Cardinality(running[d]) <= Cardinality(running[e])})

\* Slip: the watermark is never enforced.
OverflowNever(d) == FALSE

\* start_decode_iter(): the step does not fit and there is somebody to preempt.
Overflow(d) ==
  /\ OnDemand
  /\ Cardinality(running[d]) > 1
  /\ kvUsed[d] + Cardinality(running[d]) * KvPerToken > Usable

LoneOver(d) ==
  /\ OnDemand
  /\ Cardinality(running[d]) = 1
  /\ kvUsed[d] + KvPerToken > Usable

-----------------------------------------------------------------------------
\* Any lengths that fit the budget; the arrivals are on the heap.
Init ==
  /\ prompt \in [Requests -> PromptLens]
  /\ output \in [Requests -> OutputLens]
  /\ \A r \in Requests : FitsBudget(r)
  /\ pc = "event"
  /\ arrived = 0
  /\ waitingPrefill = << >>
  /\ current = [i \in PrefillPool |-> None]
  /\ transfers = << >>
  /\ waitingDecode = << >>
  /\ running = [d \in DecodePool |-> {}]
  /\ iterBatch = [d \in DecodePool |-> {}]
  /\ completed = {}
  /\ context = [r \in Requests |-> 0]
  /\ gen = [r \in Requests |-> 0]
  /\ kvUsed = [d \in DecodePool |-> 0]
  /\ kvReserved = [d \in DecodePool |-> 0]
  /\ peakKv = 0
  /\ forced = FALSE
  /\ victims = FALSE

-----------------------------------------------------------------------------
(***************************************************************************)
(* The events.                                                             *)
(***************************************************************************)
Loop == pc = "event" /\ completed # Requests

\* Slip: off by one in the next request's index.
NextArrivalLate == arrived + 2

NextArrival == arrived + 1

Arrival ==
  /\ Loop
  /\ arrived < N
  /\ waitingPrefill' = Append(waitingPrefill, NextArrival)
  /\ arrived' = arrived + 1
  /\ pc' = "prefill"
  /\ UNCHANGED <<lens, current, transfers, decode, completed, reqs, kv, victims>>

\* The prompt's KV, with the generated tokens on a recompute, is built and its
\* transfer starts; the replica is free at once.
PrefillDone(i) ==
  /\ Loop
  /\ current[i] # None
  /\ LET r == current[i] IN
       /\ context' = [context EXCEPT ![r] = Target(r)]
       /\ transfers' = Append(transfers, r)
  /\ current' = [current EXCEPT ![i] = None]
  /\ pc' = "prefill"
  /\ UNCHANGED <<lens, arrived, waitingPrefill, decode, completed, gen, kv, victims>>

\* kv_transfer_time() grows with the context: a transfer ends after those that
\* began before it with no more to carry.
Lands(k) == \A i \in 1 .. k - 1 : context[transfers[i]] > context[transfers[k]]

TransferDone(k) ==
  /\ Loop
  /\ k \in 1 .. Len(transfers)
  /\ Lands(k)
  /\ transfers' = RemoveAt(transfers, k)
  /\ waitingDecode' = Append(waitingDecode, transfers[k])
  /\ pc' = "admit"
  /\ UNCHANGED <<lens, arrived, prefill, running, iterBatch, completed, reqs, kv,
                 victims>>

\* Slip: whoever joined during the iteration emits a token as well.
EmittingAll(d) == running[d]

\* The members of the iteration that ends, and those with all their tokens.
Emitting(d) == iterBatch[d]

\* Slip: a request emits one token too many.
FinishingLate(d) == {r \in Emitting(d) : gen[r] + 1 > output[r]}

Finishing(d) == {r \in Emitting(d) : gen[r] + 1 >= output[r]}

\* Slip: the growth of the whole replica is charged, newcomers included.
GrowthOfRunning(d) == Total([r \in Requests |-> KvGrow(context[r])], running[d])

Growth(d) == Total([r \in Requests |-> KvGrow(context[r])], Emitting(d))

\* An iteration ends: its members emit a token each and the finished ones
\* leave.  The peak is taken before they do.
DecodeDone(d) ==
  /\ Loop
  /\ iterBatch[d] # {}
  /\ LET grown == kvUsed[d] + Growth(d)
         done  == Finishing(d)
     IN  /\ gen' = [r \in Requests |->
                      IF r \in Emitting(d) THEN gen[r] + 1 ELSE gen[r]]
         /\ context' = [r \in Requests |->
                          IF r \in Emitting(d) THEN context[r] + 1 ELSE context[r]]
         /\ peakKv' = Larger(peakKv, grown)
         /\ completed' = completed \cup done
         /\ running' = [running EXCEPT ![d] = @ \ done]
         /\ kvUsed' = [kvUsed EXCEPT ![d] = grown
              - Total([r \in Requests |-> KvBytes(context[r] + 1)], done)]
         /\ kvReserved' = IF OnDemand THEN kvReserved
              ELSE [kvReserved EXCEPT ![d] = @
                      - Total([r \in Requests |-> FullFp(r)], done)]
  /\ iterBatch' = [iterBatch EXCEPT ![d] = {}]
  /\ pc' = "admit"
  /\ UNCHANGED <<lens, arrived, prefill, transfers, waitingDecode, forced, victims>>

-----------------------------------------------------------------------------
(***************************************************************************)
(* dispatch_prefill(): the free replicas take the head of the queue.       *)
(***************************************************************************)
StartPrefill ==
  /\ pc = "prefill"
  /\ FreePrefillReplicas # {}
  /\ waitingPrefill # << >>
  /\ LET r == Head(waitingPrefill) IN
       /\ current' = [current EXCEPT ![Min(FreePrefillReplicas)] = r]
       /\ context' = [context EXCEPT ![r] = 0]
  /\ waitingPrefill' = Tail(waitingPrefill)
  /\ UNCHANGED <<lens, pc, arrived, transfers, decode, completed, gen, kv, victims>>

EndPrefills ==
  /\ pc = "prefill"
  /\ FreePrefillReplicas = {} \/ waitingPrefill = << >>
  /\ pc' = "event"
  /\ UNCHANGED <<lens, arrived, prefill, transfers, decode, completed, reqs, kv,
                 victims>>

(***************************************************************************)
(* dispatch_decode(): three loops, over the queue, the empty replicas and  *)
(* the idle ones.                                                          *)
(***************************************************************************)
\* admit_to_decode(): the head of the queue joins replica d.
Enter(d) ==
  LET r == Head(waitingDecode) IN
  /\ waitingDecode' = Tail(waitingDecode)
  /\ running' = [running EXCEPT ![d] = @ \cup {r}]
  /\ kvUsed' = [kvUsed EXCEPT ![d] = @ + KvBytes(context[r])]
  /\ kvReserved' = IF OnDemand THEN kvReserved
                   ELSE [kvReserved EXCEPT ![d] = @ + FullFp(r)]
  /\ peakKv' = Larger(peakKv, kvUsed'[d])
  /\ UNCHANGED <<lens, pc, arrived, prefill, transfers, iterBatch, completed, reqs,
                 forced, victims>>

\* The least-loaded replica with headroom, possibly in mid-iteration.
Admit ==
  /\ pc = "admit"
  /\ waitingDecode # << >>
  /\ Open(Head(waitingDecode)) # {}
  /\ Enter(LeastLoaded(Head(waitingDecode)))

EndAdmission ==
  /\ pc = "admit"
  /\ waitingDecode # << >> => Open(Head(waitingDecode)) = {}
  /\ pc' = "force"
  /\ UNCHANGED <<lens, arrived, prefill, transfers, decode, completed, reqs, kv,
                 victims>>

\* Slip: there is no forced admission.
MustForceNever == FALSE

MustForce == waitingDecode # << >> /\ Empty # {}

\* Progress guarantee: an empty replica takes the head whatever the watermark
\* says.
ForceAdmit ==
  /\ pc = "force"
  /\ MustForce
  /\ Enter(Min(Empty))

EndForce ==
  /\ pc = "force"
  /\ ~MustForce
  /\ victims' = FALSE
  /\ pc' = "start"
  /\ UNCHANGED <<lens, arrived, prefill, transfers, decode, completed, reqs, kv>>

\* waiting_prefill.appendleft(victim)
Requeue(v) == <<v>> \o waitingPrefill

\* preempt_from_decode(): the latest to arrive drops its KV and goes to the
\* front of the prefill queue.
Preempt ==
  /\ pc = "start"
  /\ Startable # {}
  /\ LET d == Min(Startable)
         v == Max(running[d])
     IN  /\ Overflow(d)
         /\ kvUsed' = [kvUsed EXCEPT ![d] = @ - KvBytes(context[v])]
         /\ running' = [running EXCEPT ![d] = @ \ {v}]
         /\ context' = [context EXCEPT ![v] = 0]
         /\ waitingPrefill' = Requeue(v)
  /\ victims' = TRUE
  /\ UNCHANGED <<lens, pc, arrived, current, transfers, waitingDecode, iterBatch,
                 completed, gen, kvReserved, peakKv, forced>>

\* Everybody on the replica takes part in the iteration.
StartIteration ==
  /\ pc = "start"
  /\ Startable # {}
  /\ LET d == Min(Startable) IN
       /\ ~Overflow(d)
       /\ iterBatch' = [iterBatch EXCEPT ![d] = running[d]]
       /\ forced' = (forced \/ LoneOver(d))
  /\ UNCHANGED <<lens, pc, arrived, prefill, transfers, waitingDecode, running,
                 completed, reqs, kvUsed, kvReserved, peakKv, victims>>

\* Slip: the victims wait for the next arrival or prefill to be dispatched.
AfterStartsEvent == "event"

\* if stat["victims"]: dispatch_prefill(now)
AfterStarts == IF victims THEN "prefill" ELSE "event"

EndStarts ==
  /\ pc = "start"
  /\ Startable = {}
  /\ pc' = AfterStarts
  /\ UNCHANGED <<lens, arrived, prefill, transfers, decode, completed, reqs, kv,
                 victims>>

-----------------------------------------------------------------------------
HeapEmpty ==
  /\ arrived = N
  /\ FreePrefillReplicas = PrefillPool
  /\ transfers = << >>
  /\ \A d \in DecodePool : iterBatch[d] = {}

\* while len(completed) < n_total and heap: the loop is left, also with
\* requests that will never complete.
Finished ==
  /\ pc = "event"
  /\ completed = Requests \/ HeapEmpty
  /\ UNCHANGED vars

Next ==
  \/ Arrival
  \/ \E i \in PrefillPool : PrefillDone(i)
  \/ \E k \in Requests : TransferDone(k)
  \/ \E d \in DecodePool : DecodeDone(d)
  \/ StartPrefill \/ EndPrefills
  \/ Admit \/ EndAdmission \/ ForceAdmit \/ EndForce
  \/ Preempt \/ StartIteration \/ EndStarts
  \/ Finished

\* One thread that never blocks; every duration is finite.
Spec == Init /\ [][Next]_vars /\ WF_vars(Next)

-----------------------------------------------------------------------------
Items(queue) == {queue[i] : i \in 1 .. Len(queue)}

Prefilling == {current[i] : i \in PrefillPool} \ {None}

Batched == UNION {running[d] : d \in DecodePool}

\* The KV on replica d, recomputed from the contexts.
Held(d) == Total([r \in Requests |-> KvBytes(context[r])], running[d])

\* Every variable has the type of the code's variable.
TypeOK ==
  /\ prompt \in [Requests -> PromptLens]
  /\ output \in [Requests -> OutputLens]
  /\ pc \in {"event", "prefill", "admit", "force", "start"}
  /\ arrived \in 0 .. N
  /\ waitingPrefill \in Seq(Requests)
  /\ current \in [PrefillPool -> Requests \cup {None}]
  /\ transfers \in Seq(Requests)
  /\ waitingDecode \in Seq(Requests)
  /\ running \in [DecodePool -> SUBSET Requests]
  /\ iterBatch \in [DecodePool -> SUBSET Requests]
  /\ completed \in SUBSET Requests
  /\ context \in [Requests -> Nat]
  /\ gen \in [Requests -> Nat]
  /\ kvUsed \in [DecodePool -> Int]
  /\ kvReserved \in [DecodePool -> Int]
  /\ peakKv \in Int
  /\ forced \in BOOLEAN
  /\ victims \in BOOLEAN

\* A request is always in exactly one place of the two pools, also while it
\* goes back from decode to prefill: the prefill queue (once), one prefill
\* replica, the link (once), the decode queue (once), one decode replica, or completed.
NoLostRequest ==
  LET places == <<Items(waitingPrefill), Prefilling, Items(transfers),
                  Items(waitingDecode), Batched, completed>>
  IN  /\ \A i, j \in 1 .. Len(waitingPrefill) :
           waitingPrefill[i] = waitingPrefill[j] => i = j
      /\ \A i, j \in 1 .. Len(transfers) : transfers[i] = transfers[j] => i = j
      /\ \A i, j \in 1 .. Len(waitingDecode) :
           waitingDecode[i] = waitingDecode[j] => i = j
      /\ \A i, j \in PrefillPool : current[i] = current[j] /\ current[i] # None => i = j
      /\ \A d, e \in DecodePool : d # e => running[d] \cap running[e] = {}
      /\ \A p, q \in 1 .. 6 : p # q => places[p] \cap places[q] = {}
      /\ UNION {places[p] : p \in 1 .. 6} = 1 .. arrived

\* kv_used of every decode replica is the KV its requests hold, although they
\* join while others are in the middle of an iteration and leave at its end.
KvLedger == \A d \in DecodePool : kvUsed[d] = Held(d)

\* An iteration that is under way keeps its batch: nobody in it is preempted or
\* moved, no second iteration starts, and the batch limit holds with those
\* who joined since.
BatchIntact ==
  \A d \in DecodePool : /\ iterBatch[d] \subseteq running[d]
                      /\ Cardinality(running[d]) <= MaxBatch

\* A token is emitted by those who were on the replica when the iteration
\* began, whoever has joined since: the iteration was costed for them.
EmitsInTurn ==
  [][\A r \in Requests : gen'[r] # gen[r] =>
       /\ \E d \in DecodePool : r \in iterBatch[d]
       /\ gen'[r] = gen[r] + 1]_gen

\* What a request holds is what it was given: nothing before its prefill is
\* done, then its prompt and the tokens it has emitted, on the link, in the queue
\* and in the batch, through any number of recomputes; it completes exactly when
\* it has emitted output_len tokens.
TokenConservation ==
  /\ \A r \in Items(transfers) \cup Items(waitingDecode) \cup Batched :
       context[r] = prompt[r] + gen[r]
  /\ \A r \in Items(waitingPrefill) \cup Prefilling : context[r] = 0
  /\ \A r \in Requests : IF r \in completed THEN gen[r] = output[r]
                                            ELSE gen[r] < output[r]

\* Between events a decode replica is under the watermark, or runs one request.
WatermarkAtRest ==
  pc = "event" => \A d \in DecodePool : \/ Held(d) <= Usable
                                      \/ Cardinality(running[d]) = 1

\* The DRAM of a decode replica is never overbooked, not even at the end of an
\* iteration that others have joined.
HardBudget == peakKv <= KvBudget

\* reserve: what is committed on a replica covers everybody on it to the end.
ReserveCovers ==
  ~OnDemand => \A d \in DecodePool :
                 /\ kvReserved[d] = Total([r \in Requests |-> FullFp(r)], running[d])
                 /\ kvUsed[d] <= kvReserved[d]
                 /\ kvReserved[d] <= KvBudget

\* Between events nothing is idle that has work: no prefill replica is free
\* while a request waits for one, nor a decode replica empty or at rest while a
\* request waits for one or sits on it.
WorkConserving ==
  pc = "event" =>
    /\ waitingPrefill # << >> => \A i \in PrefillPool : current[i] # None
    /\ waitingDecode # << >> => \A d \in DecodePool : running[d] # {}
    /\ \A d \in DecodePool : running[d] # {} => iterBatch[d] # {}

\* Where a request is, as its submitter sees it.
Place == [r \in Requests |->
            CASE r \in completed -> "done"
              [] r \in Batched   -> "batch"
              [] r > arrived     -> "coming"
              [] OTHER           -> "queued"]

Service == INSTANCE RequestService
             WITH MaxBatch <- ND * MaxBatch,
                  wanted <- output, place <- Place, emitted <- gen

\* The two pools are a request service with the slots of all decode replicas:
\* prefill, transfer and the way back are invisible.
ImplementsService == Service!Spec

\* A run ends with every request completed: a request over the watermark does
\* not wait for ever, and the heap never runs empty before that.
AllServed == <>(completed = Requests)
=============================================================================
