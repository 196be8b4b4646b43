----------------------------- MODULE ServeProofs -----------------------------
(***************************************************************************)
(* What holds of the serving loop for every number of requests, every      *)
(* workload, every policy and every budget.                                *)
(***************************************************************************)
EXTENDS Serve, KvCacheProofs

-----------------------------------------------------------------------------
(***************************************************************************)
(* The choices by idx.                                                     *)
(***************************************************************************)
LEMMA VictimDecodes ==
  ASSUME TypeOK, MustEvict
  PROVE  Victim \in Decoders
<1>1. Decoders # {}
  <2>1. Cardinality({}) = 0
    BY FS_EmptySet
  <2> QED
    BY <2>1 DEF MustEvict, PrefillOverflow, DecodeOverflow, MixedOverflow
<1>2. N \in Nat /\ \A r \in 1 .. N : r \in 0 .. N
  BY ServeAssumption
<1>3. Decoders \in SUBSET (0 .. N)
  <2>1. Decoders \in SUBSET (1 .. N)
    BY DEF TypeOK, Decoders, Requests
  <2> QED
    BY <1>2, <2>1
<1> QED
  BY <1>1, <1>2, <1>3, MaxOf DEF Victim

LEMMA PrefillerPending ==
  ASSUME TypeOK, Pending # {}
  PROVE  /\ Prefiller \in Pending
         /\ InProgress # {} => Prefiller \in InProgress
<1>1. /\ Pending \in SUBSET Nat /\ InProgress \in SUBSET Nat
      /\ InProgress \in SUBSET Pending
  <2>1. N \in Nat /\ \A r \in 1 .. N : r \in Nat
    BY ServeAssumption
  <2>2. Pending \in SUBSET (1 .. N) /\ InProgress \in SUBSET Pending
    BY DEF TypeOK, Pending, InProgress, Requests
  <2> QED
    BY <2>1, <2>2
<1>2. CASE InProgress # {}
  BY <1>1, <1>2, MinOf DEF Prefiller
<1>3. CASE InProgress = {}
  BY <1>1, <1>3, MinOf DEF Prefiller
<1> QED
  BY <1>2, <1>3

-----------------------------------------------------------------------------
(***************************************************************************)
(* Types.                                                                  *)
(***************************************************************************)
LEMMA Typing ==
  ASSUME TypeOK
  PROVE  /\ N \in Nat /\ Requests = 1 .. N
         /\ \A r \in Requests : /\ prompt[r] \in Nat \ {0} /\ output[r] \in Nat \ {0}
                                /\ gen[r] \in Nat /\ context[r] \in Nat
                                /\ prefillDone[r] \in Nat
                                /\ Target(r) \in Nat \ {0}
                                /\ KvBytes(Target(r)) \in Nat /\ FullFp(r) \in Nat
                                /\ KvBytes(context[r]) \in Nat
         /\ Decoders \in SUBSET running /\ Finishing \in SUBSET Decoders
         /\ Pending \in SUBSET running /\ running \in SUBSET Requests
<1>1. \A r \in Requests : /\ prompt[r] \in Nat \ {0} /\ output[r] \in Nat \ {0}
                          /\ gen[r] \in Nat /\ context[r] \in Nat
                          /\ prefillDone[r] \in Nat
  BY ServeAssumption DEF TypeOK
<1>2. \A r \in Requests : Target(r) \in Nat \ {0} /\ prompt[r] + output[r] \in Nat
  BY <1>1 DEF Target
<1> QED
  BY <1>1, <1>2, KvBytesType, ServeAssumption
  DEF TypeOK, Requests, FullFp, Decoders, Pending, Finishing

LEMMA SumTypes ==
  ASSUME TypeOK
  PROVE  /\ [r \in Requests |-> KvGrow(context[r])] \in [1 .. N -> Nat]
         /\ [r \in Requests |-> KvBytes(context[r])] \in [1 .. N -> Nat]
         /\ [r \in Requests |-> KvBytes(context[r] + 1)] \in [1 .. N -> Nat]
         /\ [r \in Requests |-> FullFp(r)] \in [1 .. N -> Nat]
         /\ Growth \in Nat /\ Released \in Nat /\ Held \in Nat
         /\ \A S \in SUBSET Requests : Total([r \in Requests |-> FullFp(r)], S) \in Nat
<1>1. \A r \in Requests : /\ KvGrow(context[r]) \in Nat
                          /\ KvBytes(context[r]) \in Nat
                          /\ KvBytes(context[r] + 1) \in Nat
                          /\ FullFp(r) \in Nat
  <2> TAKE r \in Requests
  <2>1. context[r] \in Nat /\ context[r] + 1 \in Nat /\ FullFp(r) \in Nat
    BY Typing
  <2>2. KvGrow(context[r]) \in 0 .. KvPerToken
    BY <2>1, GrowIsDifference
  <2> QED
    BY <2>1, <2>2, KvBytesType, KvAssumption
<1>2. /\ [r \in Requests |-> KvGrow(context[r])] \in [1 .. N -> Nat]
      /\ [r \in Requests |-> KvBytes(context[r])] \in [1 .. N -> Nat]
      /\ [r \in Requests |-> KvBytes(context[r] + 1)] \in [1 .. N -> Nat]
      /\ [r \in Requests |-> FullFp(r)] \in [1 .. N -> Nat]
  BY <1>1, Typing
<1>3. /\ Decoders \in SUBSET (1 .. N) /\ Finishing \in SUBSET (1 .. N)
      /\ running \in SUBSET (1 .. N) /\ N \in Nat /\ Requests = 1 .. N
  BY Typing
<1> QED
  BY <1>2, <1>3, TotalType DEF Growth, Released, Held

LEMMA ChunkSizeType ==
  ASSUME TypeOK
  PROVE  /\ Pending # {} => Target(Prefiller) - prefillDone[Prefiller] \in Int
         /\ (\A r \in Pending : prefillDone[r] < Target(r))
              => /\ ChunkSize \in 0 .. Chunk
                 /\ Pending # {} => ChunkSize <= Target(Prefiller) - prefillDone[Prefiller]
<1>1. CASE Pending = {}
  BY <1>1, ServeAssumption DEF ChunkSize
<1>2. CASE Pending # {}
  <2>1. Prefiller \in Pending /\ Prefiller \in Requests
    BY <1>2, PrefillerPending, Typing
  <2>2. Target(Prefiller) \in Nat /\ prefillDone[Prefiller] \in Nat
    BY <2>1, Typing
  <2>3. Target(Prefiller) - prefillDone[Prefiller] \in Int
    BY <2>2
  <2>4. ASSUME \A r \in Pending : prefillDone[r] < Target(r)
        PROVE  /\ ChunkSize \in 0 .. Chunk
               /\ ChunkSize <= Target(Prefiller) - prefillDone[Prefiller]
    <3>1. Target(Prefiller) - prefillDone[Prefiller] \in Nat
      BY <2>1, <2>2, <2>4
    <3>2. Chunk \in Nat
      BY ServeAssumption
    <3> DEFINE rest == Target(Prefiller) - prefillDone[Prefiller]
    <3>3. ChunkSize = Min({Chunk, rest})
      BY <1>2 DEF ChunkSize
    <3> HIDE DEF rest
    <3>4. rest \in Nat
      BY <3>1 DEF rest
    <3>5. ChunkSize \in {Chunk, rest} /\ ChunkSize <= Chunk /\ ChunkSize <= rest
      BY <3>2, <3>3, <3>4, MinOfTwo
    <3> QED
      BY <3>2, <3>4, <3>5 DEF rest
  <2> QED
    BY <2>3, <2>4
<1> QED
  BY <1>1, <1>2

-----------------------------------------------------------------------------
(***************************************************************************)
(* The inductive invariant.  TypeOK alone is not inductive: that a chunk   *)
(* leaves prefillDone a natural number rests on prefillDone < Target.      *)
(***************************************************************************)
IInv == TypeOK /\ NoLostRequest /\ TokenConservation

\* The values a request's record keeps its type with.
LEMMA QueueIs ==
  ASSUME TypeOK, NoLostRequest
  PROVE  /\ waiting \in Seq(Requests) /\ Distinct(waiting)
         /\ InQueue = SetOf(waiting) /\ InQueue \in SUBSET Requests
         /\ \A r \in InQueue : r \notin running /\ r \notin completed
<1>1. waiting \in Seq(Requests) /\ Distinct(waiting) /\ InQueue = SetOf(waiting)
  BY DEF TypeOK, NoLostRequest, Distinct, InQueue, SetOf
<1>2. ASSUME NEW x \in InQueue PROVE x \in Requests
  <2>1. PICK i \in 1 .. Len(waiting) : x = waiting[i]
    BY DEF InQueue
  <2> QED
    BY <1>1, <2>1
<1> QED
  BY <1>1, <1>2 DEF NoLostRequest

LEMMA InitInv == Init => IInv
<1> SUFFICES ASSUME Init PROVE IInv
  OBVIOUS
<1>1. TypeOK
  <2>1. 0 \in 0 .. N /\ << >> \in Seq(Requests)
    BY ServeAssumption
  <2>2. /\ needsPrefill \in [Requests -> BOOLEAN] /\ started \in [Requests -> BOOLEAN]
        /\ prefillDone \in [Requests -> Nat] /\ context \in [Requests -> Nat]
        /\ gen \in [Requests -> Nat]
    BY DEF Init
  <2>3. /\ prompt \in [Requests -> PromptLens] /\ output \in [Requests -> OutputLens]
        /\ pc = "intake" /\ arrived = 0 /\ waiting = << >>
        /\ running = {} /\ completed = {}
        /\ kvUsed = 0 /\ kvReserved = 0 /\ peakKv = 0 /\ forced = FALSE
    BY DEF Init
  <2>4. waiting \in Seq(Requests) /\ arrived \in 0 .. N
    <3>1. waiting \in Seq(Requests)
      BY <2>1, <2>3, Zenon
    <3> QED
      BY <2>1, <2>3, <3>1, Zenon
  <2>5. /\ running \in SUBSET Requests /\ completed \in SUBSET Requests
        /\ kvUsed \in Int /\ kvReserved \in Int /\ peakKv \in Int
    BY <2>3
  <2>6. forced \in BOOLEAN
    BY <2>3, Zenon
  <2> QED
    BY <2>2, <2>3, <2>4, <2>5, <2>6, Zenon DEF TypeOK
<1>2. NoLostRequest
  BY DEF Init, NoLostRequest, InQueue
<1>3. TokenConservation
  <2>1. \A r \in Requests : output[r] \in Nat \ {0}
    BY <1>1, Typing
  <2> QED
    BY <2>1 DEF Init, TokenConservation, Decoders, Pending
<1> QED
  BY <1>1, <1>2, <1>3 DEF IInv

LEMMA StutterInv == ASSUME IInv, UNCHANGED vars PROVE IInv'
<1>1. TypeOK'
  BY DEF IInv, TypeOK, vars, lens, queue, reqs, kv
<1>2. NoLostRequest'
  BY DEF IInv, NoLostRequest, InQueue, vars, lens, queue, reqs, kv
<1>3. TokenConservation'
  BY DEF IInv, TokenConservation, Decoders, Pending, Target, vars, lens, queue, reqs, kv
<1> QED
  BY <1>1, <1>2, <1>3 DEF IInv

LEMMA IntakeInv == ASSUME IInv, Intake PROVE IInv'
<1> USE DEF IInv
<1>1. PICK k \in 0 .. N - arrived : /\ waiting' = waiting \o NextArrivals(k)
                                    /\ arrived' = arrived + k
  BY DEF Intake
<1>2. N \in Nat /\ arrived \in 0 .. N /\ k \in Nat /\ arrived + k \in 0 .. N
  BY <1>1, ServeAssumption DEF TypeOK
<1>3. /\ NextArrivals(k) \in Seq(Requests)
      /\ Len(NextArrivals(k)) = k
      /\ Distinct(NextArrivals(k))
      /\ SetOf(NextArrivals(k)) = arrived + 1 .. arrived + k
  <2>1. \A i \in 1 .. k : arrived + i \in Requests
    BY <1>2 DEF Requests
  <2>2. NextArrivals(k) \in Seq(Requests) /\ Len(NextArrivals(k)) = k
    BY <1>2, <2>1 DEF NextArrivals
  <2>3. \A i \in 1 .. k : NextArrivals(k)[i] = arrived + i
    BY DEF NextArrivals
  <2>4. Distinct(NextArrivals(k))
    BY <1>2, <2>2, <2>3 DEF Distinct
  <2>5. ASSUME NEW x \in arrived + 1 .. arrived + k
        PROVE  x \in SetOf(NextArrivals(k))
    <3>1. x - arrived \in 1 .. k /\ arrived + (x - arrived) = x
      BY <1>2
    <3> QED
      BY <2>2, <2>3, <3>1 DEF SetOf
  <2>6. ASSUME NEW x \in SetOf(NextArrivals(k))
        PROVE  x \in arrived + 1 .. arrived + k
    <3>1. PICK i \in 1 .. k : x = arrived + i
      BY <2>2, <2>3 DEF SetOf
    <3> QED
      BY <1>2, <3>1
  <2> QED
    BY <2>2, <2>4, <2>5, <2>6
<1>4. SetOf(waiting) \cup running \cup completed = 1 .. arrived
  BY QueueIs DEF NoLostRequest
<1>5. SetOf(waiting) \cap SetOf(NextArrivals(k)) = {}
  <2>1. \A x \in 1 .. arrived : x \notin arrived + 1 .. arrived + k
    BY <1>2
  <2> QED
    BY <1>3, <1>4, <2>1
<1>6. /\ waiting' \in Seq(Requests) /\ Distinct(waiting')
      /\ SetOf(waiting') = SetOf(waiting) \cup (arrived + 1 .. arrived + k)
  <2> DEFINE t == NextArrivals(k)
  <2>1. t \in Seq(Requests) /\ Distinct(t) /\ SetOf(waiting) \cap SetOf(t) = {}
    BY <1>3, <1>5
  <2>2. waiting \in Seq(Requests) /\ Distinct(waiting)
    BY QueueIs
  <2>3. waiting' = waiting \o t /\ SetOf(t) = arrived + 1 .. arrived + k
    BY <1>1, <1>3
  <2> HIDE DEF t
  <2>4. /\ waiting \o t \in Seq(Requests) /\ Distinct(waiting \o t)
        /\ SetOf(waiting \o t) = SetOf(waiting) \cup SetOf(t)
    BY <2>1, <2>2, ConcatQueue
  <2> QED
    BY <2>3, <2>4
<1>7. TypeOK'
  BY <1>1, <1>2, <1>6 DEF Intake, TypeOK, lens, reqs, kv
<1>8. NoLostRequest'
  <2>1. 1 .. arrived + k = (1 .. arrived) \cup (arrived + 1 .. arrived + k)
    BY <1>2
  <2>2. InQueue' = SetOf(waiting')
    BY DEF InQueue, SetOf
  <2>3. \A x \in arrived + 1 .. arrived + k : x \notin running /\ x \notin completed
    <3>1. \A x \in 1 .. arrived : x \notin arrived + 1 .. arrived + k
      BY <1>2
    <3> QED
      BY <1>4, <3>1
  <2>4. running' = running /\ completed' = completed
    BY DEF Intake
  <2>5. /\ InQueue' \cup running' \cup completed' = 1 .. arrived'
        /\ InQueue' \cap running' = {} /\ InQueue' \cap completed' = {}
        /\ running' \cap completed' = {}
    BY <1>1, <1>4, <1>6, <2>1, <2>2, <2>3, <2>4, QueueIs DEF NoLostRequest
  <2> QED
    BY <1>6, <2>5 DEF NoLostRequest, Distinct
<1>9. TokenConservation'
  BY DEF Intake, TokenConservation, Decoders, Pending, Target, lens, reqs
<1> QED
  BY <1>7, <1>8, <1>9

LEMMA EnterInv ==
  ASSUME IInv, waiting # << >>, Enter(Head(waiting)), pc' \in {"intake", "admit", "run"}
  PROVE  IInv'
<1> USE DEF IInv
<1> DEFINE r == Head(waiting)
<1>1. /\ r \in Requests /\ r \in SetOf(waiting)
      /\ Tail(waiting) \in Seq(Requests)
      /\ SetOf(Tail(waiting)) = SetOf(waiting) \ {r}
      /\ Distinct(Tail(waiting))
  BY QueueIs, TailQueue
<1>2. r \notin running /\ r \notin completed
  BY <1>1, QueueIs
<1> HIDE DEF r
<1>3. /\ waiting' = Tail(waiting)
      /\ running' = running \cup {r}
      /\ completed' = completed /\ arrived' = arrived
      /\ needsPrefill' = [needsPrefill EXCEPT ![r] = TRUE]
      /\ prefillDone' = [prefillDone EXCEPT ![r] = 0]
      /\ context' = [context EXCEPT ![r] = 0]
      /\ kvReserved' = IF OnDemand THEN kvReserved ELSE kvReserved + FullFp(r)
      /\ prompt' = prompt /\ output' = output /\ gen' = gen
      /\ started' = started /\ kvUsed' = kvUsed /\ peakKv' = peakKv /\ forced' = forced
  BY DEF Enter, r, lens
<1>4. TypeOK'
  <2>1. FullFp(r) \in Nat
    BY <1>1, Typing
  <2>2. kvReserved' \in Int
    BY <1>3, <2>1 DEF TypeOK
  <2> QED
    BY <1>1, <1>3, <2>2 DEF TypeOK
<1>5. NoLostRequest'
  <2>1. InQueue' = InQueue \ {r} /\ r \in InQueue
    <3>1. InQueue' = SetOf(waiting') /\ InQueue = SetOf(waiting)
      BY DEF InQueue, SetOf
    <3> QED
      BY <1>1, <1>3, <3>1
  <2>2. /\ InQueue' \cup running' \cup completed' = 1 .. arrived'
        /\ InQueue' \cap running' = {} /\ InQueue' \cap completed' = {}
        /\ running' \cap completed' = {}
    BY <1>2, <1>3, <2>1 DEF NoLostRequest
  <2> QED
    BY <1>1, <1>3, <2>2 DEF NoLostRequest, Distinct
<1>6. TokenConservation'
  <2>1. /\ needsPrefill'[r] = TRUE /\ context'[r] = 0 /\ prefillDone'[r] = 0
        /\ \A x \in Requests \ {r} : /\ needsPrefill'[x] = needsPrefill[x]
                                     /\ context'[x] = context[x]
                                     /\ prefillDone'[x] = prefillDone[x]
    BY <1>1, <1>3 DEF TypeOK
  <2>2. Decoders' = Decoders
    BY <1>2, <1>3, <2>1, Typing DEF Decoders
  <2>3. Pending' = Pending \cup {r}
    BY <1>1, <1>2, <1>3, <2>1, Typing DEF Pending
  <2>4. \A x \in Requests : Target(x)' = Target(x)
    BY <1>3 DEF Target
  <2>5. r \notin Decoders /\ 0 < Target(r)
    BY <1>1, <1>2, Typing
  <2>6. ASSUME NEW x \in Decoders' PROVE context'[x] = prompt'[x] + gen'[x]
    <3>1. x \in Decoders /\ x \in Requests \ {r}
      BY <2>2, <2>5, Typing
    <3> QED
      BY <1>3, <2>1, <3>1 DEF TokenConservation
  <2>7. \A x \in Pending' : context'[x] = prefillDone'[x] /\ context'[x] < Target(x)'
    BY <1>1, <1>3, <2>1, <2>3, <2>4, <2>5, Typing DEF TokenConservation
  <2>8. \A x \in Requests \ (running' \cup completed') : context'[x] = 0
    BY <1>3, <2>1 DEF TokenConservation
  <2> QED
    BY <1>3, <2>6, <2>7, <2>8 DEF TokenConservation
<1> QED
  BY <1>4, <1>5, <1>6

LEMMA EndAdmissionInv == ASSUME IInv, EndAdmission PROVE IInv'
<1>1. TypeOK'
  BY DEF IInv, EndAdmission, TypeOK, lens, queue, reqs, kv
<1>2. NoLostRequest'
  BY DEF IInv, EndAdmission, NoLostRequest, InQueue, lens, queue, reqs, kv
<1>3. TokenConservation'
  BY DEF IInv, EndAdmission, TokenConservation, Decoders, Pending, Target,
         lens, queue, reqs, kv
<1> QED
  BY <1>1, <1>2, <1>3 DEF IInv

LEMMA PreemptInv == ASSUME IInv, Preempt PROVE IInv'
<1> USE DEF IInv
<1> DEFINE v == Victim
<1>1. v \in Decoders
  BY VictimDecodes DEF Preempt
<1>2. v \in Requests /\ v \in running /\ needsPrefill[v] = FALSE
  BY <1>1, Typing DEF Decoders, TypeOK
<1>3. /\ kvUsed' = kvUsed - KvBytes(context[v])
      /\ running' = running \ {v}
      /\ needsPrefill' = [needsPrefill EXCEPT ![v] = TRUE]
      /\ prefillDone' = [prefillDone EXCEPT ![v] = 0]
      /\ context' = [context EXCEPT ![v] = 0]
      /\ waiting' = <<v>> \o waiting
      /\ prompt' = prompt /\ output' = output /\ pc' = pc /\ arrived' = arrived
      /\ completed' = completed /\ gen' = gen /\ started' = started
      /\ kvReserved' = kvReserved /\ peakKv' = peakKv /\ forced' = forced
  BY DEF Preempt, Requeue, lens
<1> HIDE DEF v
<1>4. /\ waiting' \in Seq(Requests) /\ Distinct(waiting')
      /\ SetOf(waiting') = {v} \cup SetOf(waiting)
  <2> DEFINE t == <<v>>
  <2>1. t \in Seq(Requests) /\ Len(t) = 1 /\ t[1] = v
    BY <1>2
  <2>2. SetOf(t) = {v} /\ Distinct(t)
    BY <2>1 DEF SetOf, Distinct
  <2>3. waiting \in Seq(Requests) /\ Distinct(waiting) /\ SetOf(t) \cap SetOf(waiting) = {}
    BY <1>2, <2>2, QueueIs
  <2>4. waiting' = t \o waiting
    BY <1>3
  <2> HIDE DEF t
  <2>5. /\ t \o waiting \in Seq(Requests) /\ Distinct(t \o waiting)
        /\ SetOf(t \o waiting) = SetOf(t) \cup SetOf(waiting)
    BY <2>1, <2>2, <2>3, ConcatQueue
  <2> QED
    BY <2>2, <2>4, <2>5
<1>5. TypeOK'
  <2>1. KvBytes(context[v]) \in Nat
    BY <1>2, Typing
  <2>2. kvUsed' \in Int
    BY <1>3, <2>1 DEF TypeOK
  <2> QED
    BY <1>2, <1>3, <1>4, <2>2 DEF TypeOK
<1>6. NoLostRequest'
  <2>1. InQueue' = SetOf(waiting') /\ InQueue = SetOf(waiting)
    BY DEF InQueue, SetOf
  <2>2. /\ InQueue' \cup running' \cup completed' = 1 .. arrived'
        /\ InQueue' \cap running' = {} /\ InQueue' \cap completed' = {}
        /\ running' \cap completed' = {}
    BY <1>2, <1>3, <1>4, <2>1 DEF NoLostRequest
  <2> QED
    BY <1>4, <2>2 DEF NoLostRequest, Distinct
<1>7. TokenConservation'
  <2>1. /\ context'[v] = 0
        /\ \A x \in Requests \ {v} : /\ needsPrefill'[x] = needsPrefill[x]
                                     /\ context'[x] = context[x]
                                     /\ prefillDone'[x] = prefillDone[x]
    BY <1>2, <1>3 DEF TypeOK
  <2>2. Decoders' = Decoders \ {v} /\ Pending' = Pending
    <3>1. v \notin Pending
      BY <1>2 DEF Pending
    <3> QED
      BY <1>3, <2>1, <3>1, Typing DEF Decoders, Pending
  <2>3. \A x \in Requests : Target(x)' = Target(x)
    BY <1>3 DEF Target
  <2>4. v \notin Pending
    BY <1>2 DEF Pending
  <2>5. \A x \in Decoders' : context'[x] = prompt'[x] + gen'[x]
    BY <1>3, <2>1, <2>2, Typing DEF TokenConservation
  <2>6. \A x \in Pending' : context'[x] = prefillDone'[x] /\ context'[x] < Target(x)'
    BY <2>1, <2>2, <2>3, <2>4, Typing DEF TokenConservation
  <2>7. \A x \in Requests \ (running' \cup completed') : context'[x] = 0
    BY <1>3, <2>1 DEF TokenConservation
  <2> QED
    BY <1>3, <2>5, <2>6, <2>7 DEF TokenConservation
<1> QED
  BY <1>5, <1>6, <1>7

LEMMA PrefillInv == ASSUME IInv, PrefillStep PROVE IInv'
<1> USE DEF IInv
<1> DEFINE r == Prefiller
<1>1. r \in Pending /\ r \in Requests
  BY PrefillerPending, Typing DEF PrefillStep, PrefillTurn
<1>2. /\ kvUsed' = kvUsed + KvBytes(Target(r))
      /\ needsPrefill' = [needsPrefill EXCEPT ![r] = FALSE]
      /\ context' = [context EXCEPT ![r] = Target(r)]
      /\ started' = [started EXCEPT ![r] = TRUE]
      /\ peakKv' = Larger(peakKv, kvUsed')
      /\ pc' = "intake"
      /\ prompt' = prompt /\ output' = output /\ arrived' = arrived /\ waiting' = waiting
      /\ running' = running /\ completed' = completed /\ gen' = gen
      /\ prefillDone' = prefillDone /\ kvReserved' = kvReserved /\ forced' = forced
  BY DEF PrefillStep, lens, queue
<1>3. Target(r) \in Nat /\ KvBytes(Target(r)) \in Nat
  BY <1>1, Typing
<1> HIDE DEF r
<1>4. TypeOK'
  <2>1. kvUsed' \in Int
    BY <1>2, <1>3 DEF TypeOK
  <2>2. peakKv' \in Int
    BY <1>2, <2>1 DEF TypeOK, Larger
  <2> QED
    BY <1>1, <1>2, <1>3, <2>1, <2>2 DEF TypeOK
<1>5. NoLostRequest'
  BY <1>2 DEF NoLostRequest, InQueue
<1>6. TokenConservation'
  <2>1. /\ needsPrefill'[r] = FALSE /\ context'[r] = Target(r)
        /\ \A x \in Requests \ {r} : /\ needsPrefill'[x] = needsPrefill[x]
                                     /\ context'[x] = context[x]
    BY <1>1, <1>2 DEF TypeOK
  <2>2. r \in running /\ needsPrefill[r] = TRUE
    BY <1>1 DEF Pending, TypeOK
  <2>3. Decoders' = Decoders \cup {r} /\ Pending' = Pending \ {r} /\ r \notin Decoders
    BY <1>2, <2>1, <2>2, Typing DEF Decoders, Pending
  <2>4. \A x \in Requests : Target(x)' = Target(x)
    BY <1>2 DEF Target
  <2>5. \A x \in Decoders' : context'[x] = prompt'[x] + gen'[x]
    BY <1>2, <2>1, <2>3, Typing DEF TokenConservation, Target
  <2>6. \A x \in Pending' : context'[x] = prefillDone'[x] /\ context'[x] < Target(x)'
    BY <1>2, <2>1, <2>3, <2>4, Typing DEF TokenConservation
  <2>7. \A x \in Requests \ (running' \cup completed') : context'[x] = 0
    BY <1>2, <2>1, <2>2 DEF TokenConservation
  <2> QED
    BY <1>2, <2>5, <2>6, <2>7 DEF TokenConservation
<1> QED
  BY <1>4, <1>5, <1>6

\* What every decode iteration does to the places and the token counts.
LEMMA EmitInv ==
  ASSUME IInv, EmitTokens, UNCHANGED <<lens, queue>>
  PROVE  /\ NoLostRequest'
         /\ gen' \in [Requests -> Nat] /\ kvReserved' \in Int
         /\ running' = running \ Finishing /\ completed' = completed \cup Finishing
         /\ completed' \in SUBSET Requests
         /\ \A x \in Requests : gen'[x] = IF x \in Decoders THEN gen[x] + 1 ELSE gen[x]
         /\ \A x \in Requests : IF x \in completed' THEN gen'[x] = output'[x]
                                                    ELSE gen'[x] < output'[x]
<1> USE DEF IInv
<1>1. /\ running' = running \ Finishing /\ completed' = completed \cup Finishing
      /\ waiting' = waiting /\ arrived' = arrived /\ output' = output
  BY DEF EmitTokens, lens, queue
<1>2. \A x \in Requests : gen'[x] = IF x \in Decoders THEN gen[x] + 1 ELSE gen[x]
  BY DEF EmitTokens
<1>3. gen' \in [Requests -> Nat]
  <2>1. \A x \in Requests : (IF x \in Decoders THEN gen[x] + 1 ELSE gen[x]) \in Nat
    BY Typing
  <2> QED
    BY <2>1 DEF EmitTokens
<1>4. kvReserved' \in Int
  <2>1. Total([r \in Requests |-> FullFp(r)], Finishing) \in Nat /\ kvReserved \in Int
    <3>1. Finishing \in SUBSET Requests
      BY Typing
    <3> QED
      BY <3>1, SumTypes DEF TypeOK
  <2> QED
    BY <2>1 DEF EmitTokens
<1>5. Finishing \in SUBSET running /\ Finishing \in SUBSET Requests
  BY Typing
<1>6. NoLostRequest'
  <2>1. InQueue' = InQueue
    BY <1>1 DEF InQueue
  <2>2. /\ InQueue' \cup running' \cup completed' = 1 .. arrived'
        /\ InQueue' \cap running' = {} /\ InQueue' \cap completed' = {}
        /\ running' \cap completed' = {}
    BY <1>1, <1>5, <2>1 DEF NoLostRequest
  <2> QED
    BY <1>1, <2>2 DEF NoLostRequest
<1>7. ASSUME NEW x \in Requests
      PROVE  IF x \in completed' THEN gen'[x] = output'[x] ELSE gen'[x] < output'[x]
  <2>1. gen[x] \in Nat /\ output[x] \in Nat
    BY Typing
  <2>2. IF x \in completed THEN gen[x] = output[x] ELSE gen[x] < output[x]
    BY DEF TokenConservation
  <2>3. x \in Decoders => x \notin completed
    BY Typing DEF NoLostRequest
  <2>4. CASE x \in Decoders
    <3>1. x \in Finishing <=> gen[x] + 1 >= output[x]
      BY <2>4 DEF Finishing
    <3> QED
      BY <1>1, <1>2, <2>1, <2>2, <2>3, <2>4, <3>1
  <2>5. CASE x \notin Decoders
    <3>1. x \notin Finishing
      BY <2>5 DEF Finishing
    <3> QED
      BY <1>1, <1>2, <2>2, <2>5, <3>1
  <2> QED
    BY <2>4, <2>5
<1> QED
  BY <1>1, <1>2, <1>3, <1>4, <1>5, <1>6, <1>7 DEF TypeOK

LEMMA DecodeInv == ASSUME IInv, DecodeStep PROVE IInv'
<1> USE DEF IInv
<1>1. /\ pc' = "intake" /\ waiting' = waiting /\ arrived' = arrived
      /\ prompt' = prompt /\ output' = output
      /\ needsPrefill' = needsPrefill /\ prefillDone' = prefillDone /\ started' = started
      /\ kvUsed' = kvUsed + Growth - Released
      /\ peakKv' = Larger(peakKv, kvUsed')
      /\ \A x \in Requests : context'[x] = IF x \in Decoders THEN context[x] + 1 ELSE context[x]
  BY DEF DecodeStep, lens, queue
<1>2. /\ NoLostRequest'
      /\ gen' \in [Requests -> Nat] /\ kvReserved' \in Int
      /\ running' = running \ Finishing /\ completed' = completed \cup Finishing
      /\ completed' \in SUBSET Requests
      /\ \A x \in Requests : gen'[x] = IF x \in Decoders THEN gen[x] + 1 ELSE gen[x]
      /\ \A x \in Requests : IF x \in completed' THEN gen'[x] = output'[x]
                                                 ELSE gen'[x] < output'[x]
  BY EmitInv DEF DecodeStep
<1>3. TypeOK'
  <2>1. kvUsed' \in Int
    BY <1>1, SumTypes DEF TypeOK
  <2>2. peakKv' \in Int
    BY <1>1, <2>1 DEF TypeOK, Larger
  <2>3. context' \in [Requests -> Nat]
    <3>1. \A x \in Requests : (IF x \in Decoders THEN context[x] + 1 ELSE context[x]) \in Nat
      BY Typing
    <3> QED
      BY <3>1 DEF DecodeStep
  <2>4. forced' \in BOOLEAN
    BY DEF DecodeStep
  <2> QED
    BY <1>1, <1>2, <2>1, <2>2, <2>3, <2>4 DEF TypeOK
<1>4. TokenConservation'
  <2>1. Decoders' = Decoders \ Finishing /\ Pending' = Pending
    <3>1. Finishing \cap Pending = {}
      BY DEF Finishing, Decoders, Pending
    <3> QED
      BY <1>1, <1>2, <3>1 DEF Decoders, Pending
  <2>2. ASSUME NEW x \in Decoders' PROVE context'[x] = prompt'[x] + gen'[x]
    <3>1. x \in Decoders /\ x \in Requests
      BY <2>1, Typing
    <3>2. context[x] = prompt[x] + gen[x] /\ prompt[x] \in Nat /\ gen[x] \in Nat
      BY <3>1, Typing DEF TokenConservation
    <3>3. context'[x] = context[x] + 1 /\ gen'[x] = gen[x] + 1 /\ prompt'[x] = prompt[x]
      BY <1>1, <1>2, <3>1
    <3> QED
      BY <3>2, <3>3
  <2>3. \A x \in Pending' : context'[x] = prefillDone'[x] /\ context'[x] < Target(x)'
    <3>1. \A x \in Pending : x \notin Decoders /\ x \in Requests
      BY Typing DEF Decoders, Pending
    <3>2. \A x \in Pending : Target(x)' = Target(x)
      BY <1>1, <1>2, <3>1 DEF Target
    <3> QED
      BY <1>1, <2>1, <3>1, <3>2 DEF TokenConservation
  <2>4. \A x \in Requests \ (running' \cup completed') : context'[x] = 0
    <3>1. \A x \in Requests \ (running' \cup completed') :
            x \notin Decoders /\ x \notin running /\ x \notin completed
      BY <1>2, Typing
    <3> QED
      BY <1>1, <3>1 DEF TokenConservation
  <2> QED
    BY <1>2, <2>2, <2>3, <2>4 DEF TokenConservation
<1> QED
  BY <1>2, <1>3, <1>4

LEMMA MixedInv == ASSUME IInv, MixedStep PROVE IInv'
<1> USE DEF IInv
<1> DEFINE c      == ChunkSize
           filled == IF ChunkSize = 0 THEN {} ELSE {Prefiller}
           whole  == {r \in filled : Whole(r)}
           grown  == kvUsed + Growth + ChunkSize * KvPerToken
<1>1. /\ pc' = "intake" /\ waiting' = waiting /\ arrived' = arrived
      /\ prompt' = prompt /\ output' = output
      /\ prefillDone' = [r \in Requests |->
            IF r \in filled THEN prefillDone[r] + c ELSE prefillDone[r]]
      /\ context' = [r \in Requests |->
            CASE r \in filled   -> prefillDone[r] + c
              [] r \in Decoders -> context[r] + 1
              [] OTHER          -> context[r]]
      /\ needsPrefill' = [r \in Requests |-> needsPrefill[r] /\ r \notin whole]
      /\ started' = [r \in Requests |-> started[r] \/ r \in whole]
      /\ peakKv' = Larger(peakKv, grown)
      /\ kvUsed' = grown - Released
  BY DEF MixedStep, lens, queue
<1>2. /\ NoLostRequest'
      /\ gen' \in [Requests -> Nat] /\ kvReserved' \in Int
      /\ running' = running \ Finishing /\ completed' = completed \cup Finishing
      /\ completed' \in SUBSET Requests
      /\ \A x \in Requests : gen'[x] = IF x \in Decoders THEN gen[x] + 1 ELSE gen[x]
      /\ \A x \in Requests : IF x \in completed' THEN gen'[x] = output'[x]
                                                 ELSE gen'[x] < output'[x]
  BY EmitInv DEF MixedStep
<1>3. /\ c \in Nat
      /\ Pending # {} => c <= Target(Prefiller) - prefillDone[Prefiller]
  <2>1. \A r \in Pending : prefillDone[r] < Target(r)
    BY DEF TokenConservation
  <2> QED
    BY <2>1, ChunkSizeType, ServeAssumption
<1>4. \A x \in filled : /\ x \in Pending /\ x \in Requests /\ x \notin Decoders
                        /\ prefillDone[x] + c <= Target(x)
                        /\ x \in whole <=> prefillDone[x] + c = Target(x)
  <2> SUFFICES ASSUME NEW x \in filled
               PROVE  /\ x \in Pending /\ x \in Requests /\ x \notin Decoders
                      /\ prefillDone[x] + c <= Target(x)
                      /\ x \in whole <=> prefillDone[x] + c = Target(x)
    OBVIOUS
  <2>1. x = Prefiller /\ c # 0
    OBVIOUS
  <2>2. Pending # {}
    BY <2>1 DEF ChunkSize
  <2>3. x \in Pending /\ x \in Requests /\ x \notin Decoders
    BY <2>1, <2>2, PrefillerPending, Typing DEF Pending, Decoders
  <2>4. prefillDone[x] \in Nat /\ Target(x) \in Nat
    BY <2>3, Typing
  <2>5. c <= Target(x) - prefillDone[x]
    BY <1>3, <2>1, <2>2
  <2>6. x \in whole <=> prefillDone[x] + c >= Target(x)
    BY DEF Whole
  <2> HIDE DEF c, filled, whole
  <2> QED
    BY <1>3, <2>3, <2>4, <2>5, <2>6
<1>5. whole \in SUBSET filled
  OBVIOUS
<1>6. grown \in Int
  BY <1>3, SumTypes, KvAssumption DEF TypeOK
<1> HIDE DEF c, filled, whole, grown
<1>7. TypeOK'
  <2>1. kvUsed' \in Int /\ peakKv' \in Int
    BY <1>1, <1>6, SumTypes DEF TypeOK, Larger
  <2>2. context' \in [Requests -> Nat] /\ prefillDone' \in [Requests -> Nat]
    <3>1. \A x \in Requests : /\ prefillDone[x] + c \in Nat /\ prefillDone[x] \in Nat
                               /\ context[x] + 1 \in Nat /\ context[x] \in Nat
      BY <1>3, Typing
    <3> QED
      BY <1>1, <3>1
  <2>3. needsPrefill' \in [Requests -> BOOLEAN] /\ started' \in [Requests -> BOOLEAN]
    BY <1>1
  <2>4. forced' \in BOOLEAN
    BY DEF MixedStep
  <2> QED
    BY <1>1, <1>2, <2>1, <2>2, <2>3, <2>4 DEF TypeOK
<1>8. TokenConservation'
  <2>1. \A x \in Requests : needsPrefill[x] \in BOOLEAN
    BY DEF TypeOK
  <2>2. /\ Decoders' = (Decoders \ Finishing) \cup whole
        /\ Pending' = Pending \ whole
    <3>1. Finishing \cap Pending = {} /\ whole \subseteq Pending
      BY <1>4, <1>5 DEF Finishing, Decoders, Pending
    <3>2. \A x \in Requests : needsPrefill'[x] <=> (needsPrefill[x] /\ x \notin whole)
      BY <1>1
    <3>3. ASSUME NEW x \in Requests
          PROVE  /\ x \in Decoders' <=> x \in (Decoders \ Finishing) \cup whole
                 /\ x \in Pending' <=> x \in Pending \ whole
      BY <1>2, <3>1, <3>2 DEF Decoders, Pending
    <3>4. /\ Decoders' \in SUBSET Requests /\ Pending' \in SUBSET Requests
          /\ (Decoders \ Finishing) \cup whole \in SUBSET Requests
          /\ Pending \ whole \in SUBSET Requests
      BY <1>2, <3>1, Typing DEF Decoders, Pending
    <3> QED
      BY <3>3, <3>4
  <2>3. \A x \in Decoders : x \in Requests /\ x \notin filled /\ x \notin Pending
    BY <1>4, Typing DEF Decoders, Pending
  <2>4. \A x \in Decoders : context'[x] = context[x] + 1 /\ gen'[x] = gen[x] + 1
    BY <1>1, <1>2, <2>3
  <2>5. \A x \in filled : /\ context'[x] = prefillDone[x] + c
                          /\ prefillDone'[x] = prefillDone[x] + c
                          /\ gen'[x] = gen[x]
    BY <1>1, <1>2, <1>4
  <2>6. \A x \in Requests : x \notin filled /\ x \notin Decoders =>
          context'[x] = context[x] /\ prefillDone'[x] = prefillDone[x] /\ gen'[x] = gen[x]
    BY <1>1, <1>2
  <2>7. ASSUME NEW x \in Decoders' PROVE context'[x] = prompt'[x] + gen'[x]
    <3>1. CASE x \in whole
      <4>1. x \in filled
        BY <1>5, <3>1
      <4>2. prefillDone[x] + c = Target(x) /\ Target(x) = prompt[x] + gen[x]
        BY <1>4, <3>1, <4>1 DEF Target
      <4>3. context'[x] = prefillDone[x] + c /\ gen'[x] = gen[x] /\ prompt' = prompt
        BY <1>1, <2>5, <4>1
      <4> QED
        BY <4>2, <4>3
    <3>2. CASE x \in Decoders
      <4>1. context[x] = prompt[x] + gen[x] /\ prompt[x] \in Nat /\ gen[x] \in Nat
        BY <2>3, <3>2, Typing DEF TokenConservation
      <4>2. context'[x] = context[x] + 1 /\ gen'[x] = gen[x] + 1 /\ prompt'[x] = prompt[x]
        BY <1>1, <2>4, <3>2
      <4> QED
        BY <4>1, <4>2
    <3> QED
      BY <2>2, <3>1, <3>2
  <2>8. ASSUME NEW x \in Pending'
        PROVE  context'[x] = prefillDone'[x] /\ context'[x] < Target(x)'
    <3>1. x \in Pending /\ x \notin whole /\ x \in Requests /\ x \notin Decoders
      BY <2>2, Typing DEF Pending, Decoders
    <3>2. CASE x \in filled
      <4>1. Target(x)' = Target(x)
        BY <1>1, <2>5, <3>2 DEF Target
      <4>2. prefillDone[x] + c < Target(x)
        <5>1. prefillDone[x] + c <= Target(x) /\ prefillDone[x] + c # Target(x)
          BY <1>4, <3>1, <3>2
        <5>2. prefillDone[x] + c \in Int /\ Target(x) \in Int
          BY <1>3, <3>1, Typing
        <5> QED
          BY <5>1, <5>2
      <4> QED
        BY <2>5, <3>2, <4>1, <4>2
    <3>3. CASE x \notin filled
      <4>1. Target(x)' = Target(x)
        BY <1>1, <2>6, <3>1, <3>3 DEF Target
      <4> QED
        BY <2>6, <3>1, <3>3, <4>1 DEF TokenConservation
    <3> QED
      BY <3>2, <3>3
  <2>9. ASSUME NEW x \in Requests \ (running' \cup completed') PROVE context'[x] = 0
    <3>1. x \notin running /\ x \notin completed
      BY <1>2, Typing
    <3>2. x \notin Decoders /\ x \notin filled
      BY <1>4, <3>1, Typing DEF Pending
    <3> QED
      BY <2>6, <3>1, <3>2 DEF TokenConservation
  <2> QED
    BY <1>2, <2>7, <2>8, <2>9 DEF TokenConservation
<1> QED
  BY <1>2, <1>7, <1>8

-----------------------------------------------------------------------------
\* Every step of the loop keeps the inductive invariant.
LEMMA NextInv == ASSUME IInv, [Next]_vars PROVE IInv'
<1>1. CASE Intake
  BY <1>1, IntakeInv
<1>2. CASE Admit
  BY <1>2, EnterInv DEF Admit, IInv, TypeOK
<1>3. CASE ForceAdmit
  BY <1>3, EnterInv DEF ForceAdmit
<1>4. CASE EndAdmission
  BY <1>4, EndAdmissionInv
<1>5. CASE Preempt
  BY <1>5, PreemptInv
<1>6. CASE PrefillStep
  BY <1>6, PrefillInv
<1>7. CASE DecodeStep
  BY <1>7, DecodeInv
<1>8. CASE MixedStep
  BY <1>8, MixedInv
<1>9. CASE Finished
  BY <1>9, StutterInv DEF Finished
<1>10. CASE UNCHANGED vars
  BY <1>10, StutterInv
<1> QED
  BY <1>1, <1>2, <1>3, <1>4, <1>5, <1>6, <1>7, <1>8, <1>9, <1>10 DEF Next

LEMMA Invariance == Spec => []IInv
<1>1. IInv /\ [Next]_vars => IInv'
  BY NextInv
<1> QED
  BY InitInv, <1>1, PTL DEF Spec

\* Every variable keeps the type of the code's variable.
THEOREM TypeCorrect == Spec => []TypeOK
<1>1. IInv => TypeOK
  BY DEF IInv
<1> QED
  BY Invariance, <1>1, PTL

\* No request is lost or served twice: it is to come, once in the queue, in
\* the batch or completed, through any preemptions.
THEOREM RequestsKept == Spec => []NoLostRequest
<1>1. IInv => NoLostRequest
  BY DEF IInv
<1> QED
  BY Invariance, <1>1, PTL

\* A request holds its prompt and the tokens it emitted, and completes exactly
\* at output_len of them, through any preemptions and recomputes.
THEOREM TokensConserved == Spec => []TokenConservation
<1>1. IInv => TokenConservation
  BY DEF IInv
<1> QED
  BY Invariance, <1>1, PTL

-----------------------------------------------------------------------------
(***************************************************************************)
(* The order of the queue.  That the preempted ones have started, and that *)
(* nobody starts before it arrives, is what keeps FifoQueue.               *)
(***************************************************************************)
Fifo ==
  /\ FifoQueue
  /\ \A r \in Decoders : started[r]
  /\ \A r \in Requests : started[r] => r <= arrived

LEMMA FifoInit == Init => Fifo
BY DEF Init, Fifo, FifoQueue, Decoders

LEMMA FifoIntake ==
  ASSUME IInv, Fifo, Intake
  PROVE  FifoQueue'
<1>1. PICK k \in 0 .. N - arrived : /\ waiting' = waiting \o NextArrivals(k)
                                    /\ arrived' = arrived + k
  BY DEF Intake
<1>2. N \in Nat /\ arrived \in 0 .. N /\ k \in Nat /\ arrived + k \in 0 .. N
  BY <1>1, ServeAssumption DEF IInv, TypeOK
<1> DEFINE t == NextArrivals(k)
<1>3. /\ t \in Seq(Requests) /\ Len(t) = k
      /\ \A i \in 1 .. k : t[i] = arrived + i
  <2>1. \A i \in 1 .. k : arrived + i \in Requests
    BY <1>2 DEF Requests
  <2> QED
    BY <1>2, <2>1 DEF NextArrivals
<1>4. /\ waiting \in Seq(Requests)
      /\ \A i \in 1 .. Len(waiting) : waiting[i] \in Requests /\ waiting[i] <= arrived
  <2>1. \A i \in 1 .. Len(waiting) : waiting[i] \in 1 .. arrived
    BY DEF IInv, NoLostRequest, InQueue
  <2>2. \A x \in 1 .. arrived : x \in Requests /\ x <= arrived
    BY <1>2 DEF Requests
  <2> QED
    BY <2>1, <2>2 DEF IInv, TypeOK
<1> DEFINE m == Len(waiting)
<1>5. m \in Nat
  BY <1>4
<1> HIDE DEF t
<1>6. /\ Len(waiting \o t) = m + k
      /\ \A i \in 1 .. m + k :
           (waiting \o t)[i] = IF i <= m THEN waiting[i] ELSE t[i - m]
  BY <1>3, <1>4
<1> DEFINE new == waiting \o t
<1> HIDE DEF m, new
<1>7. ASSUME NEW i \in 1 .. m + k, NEW j \in 1 .. m + k, i < j, ~started[new[i]]
      PROVE  ~started[new[j]] /\ new[i] < new[j]
  <2>1. CASE j <= m
    <3>1. /\ i \in 1 .. Len(waiting) /\ j \in 1 .. Len(waiting)
          /\ new[i] = waiting[i] /\ new[j] = waiting[j]
      BY <1>2, <1>5, <1>6, <1>7, <2>1 DEF m, new
    <3> QED
      BY <1>7, <3>1 DEF Fifo, FifoQueue
  <2>2. CASE j > m
    <3>1. j - m \in 1 .. k /\ new[j] = t[j - m]
      BY <1>2, <1>5, <1>6, <1>7, <2>2 DEF new
    <3>2. new[j] = arrived + (j - m) /\ new[j] \in Requests
      BY <1>3, <3>1
    <3>3. ~started[new[j]]
      BY <1>2, <3>1, <3>2 DEF Fifo
    <3>4. CASE i <= m
      <4>1. i \in 1 .. Len(waiting) /\ new[i] = waiting[i]
        BY <1>2, <1>5, <1>6, <1>7, <3>4 DEF m, new
      <4>2. new[i] \in Nat /\ new[i] <= arrived
        BY <1>2, <1>4, <4>1 DEF Requests
      <4> QED
        BY <1>2, <3>1, <3>2, <3>3, <4>2
    <3>5. CASE i > m
      <4>1. i - m \in 1 .. k /\ new[i] = t[i - m]
        <5>1. i - m \in 1 .. k /\ ~(i <= m)
          BY <1>2, <1>5, <1>7, <3>5
        <5> QED
          BY <1>6, <5>1 DEF new
      <4>2. new[i] = arrived + (i - m)
        BY <1>3, <4>1
      <4> QED
        BY <1>2, <1>5, <1>7, <3>1, <3>2, <3>3, <4>1, <4>2
    <3> QED
      BY <1>5, <1>7, <3>4, <3>5
  <2> QED
    BY <1>5, <1>7, <2>1, <2>2
<1>8. waiting' = new /\ Len(new) = m + k /\ started' = started
  BY <1>1, <1>6 DEF Intake, reqs, t, new
<1> QED
  BY <1>7, <1>8 DEF FifoQueue

LEMMA FifoEnter ==
  ASSUME IInv, Fifo, waiting # << >>, Enter(Head(waiting))
  PROVE  Fifo'
<1> DEFINE r == Head(waiting)
<1>1. r \in Requests
  BY QueueIs, TailQueue DEF IInv
<1> HIDE DEF r
<1>2. /\ waiting' = Tail(waiting) /\ running' = running \cup {r}
      /\ needsPrefill' = [needsPrefill EXCEPT ![r] = TRUE]
      /\ started' = started /\ arrived' = arrived
  BY DEF Enter, r
<1>3. waiting \in Seq(Requests) /\ needsPrefill \in [Requests -> BOOLEAN]
  BY DEF IInv, TypeOK
<1>4. FifoQueue'
  <2>1. /\ Len(waiting) \in Nat /\ Len(Tail(waiting)) = Len(waiting) - 1
        /\ \A i \in 1 .. Len(waiting) - 1 : Tail(waiting)[i] = waiting[i + 1]
    BY <1>3
  <2>2. ASSUME NEW i \in 1 .. Len(waiting) - 1, NEW j \in 1 .. Len(waiting) - 1,
               i < j, ~started[waiting[i + 1]]
        PROVE  ~started[waiting[j + 1]] /\ waiting[i + 1] < waiting[j + 1]
    <3>1. i + 1 \in 1 .. Len(waiting) /\ j + 1 \in 1 .. Len(waiting) /\ i + 1 < j + 1
      BY <2>1, <2>2
    <3> QED
      BY <2>2, <3>1 DEF Fifo, FifoQueue
  <2> QED
    BY <1>2, <2>1, <2>2 DEF FifoQueue
<1>5. Decoders' \in SUBSET Decoders
  <2>1. \A x \in Decoders' : x # r
    BY <1>1, <1>2, <1>3 DEF Decoders
  <2>2. \A x \in Requests \ {r} : needsPrefill'[x] = needsPrefill[x]
    BY <1>2, <1>3
  <2> QED
    BY <1>2, <2>1, <2>2, Typing DEF Decoders, IInv
<1> QED
  BY <1>2, <1>4, <1>5 DEF Fifo

LEMMA FifoPreempt ==
  ASSUME IInv, Fifo, Preempt
  PROVE  Fifo'
<1> DEFINE v == Victim
<1>1. v \in Decoders /\ v \in Requests
  BY VictimDecodes, Typing DEF Preempt, IInv
<1> HIDE DEF v
<1>2. /\ waiting' = <<v>> \o waiting /\ running' = running \ {v}
      /\ needsPrefill' = [needsPrefill EXCEPT ![v] = TRUE]
      /\ started' = started /\ arrived' = arrived
  BY DEF Preempt, Requeue, v
<1>3. waiting \in Seq(Requests) /\ needsPrefill \in [Requests -> BOOLEAN]
  BY DEF IInv, TypeOK
<1>4. FifoQueue'
  <2> DEFINE m == Len(waiting)
             new == <<v>> \o waiting
  <2>1. /\ m \in Nat /\ Len(new) = m + 1 /\ new[1] = v
        /\ \A i \in 1 .. m + 1 : i > 1 => new[i] = waiting[i - 1]
    BY <1>3
  <2> HIDE DEF new
  <2>2. ASSUME NEW i \in 1 .. m + 1, NEW j \in 1 .. m + 1, i < j, ~started[new[i]]
        PROVE  ~started[new[j]] /\ new[i] < new[j]
    <3>1. i # 1
      BY <1>1, <2>1, <2>2 DEF Fifo
    <3>2. /\ i - 1 \in 1 .. m /\ j - 1 \in 1 .. m /\ i - 1 < j - 1
          /\ new[i] = waiting[i - 1] /\ new[j] = waiting[j - 1]
      BY <2>1, <2>2, <3>1
    <3> QED
      BY <2>2, <3>2 DEF Fifo, FifoQueue
  <2>3. waiting' = new
    BY <1>2 DEF new
  <2> QED
    BY <1>2, <2>1, <2>2, <2>3 DEF FifoQueue
<1>5. Decoders' \in SUBSET Decoders
  BY <1>1, <1>2, <1>3 DEF Decoders
<1> QED
  BY <1>2, <1>4, <1>5 DEF Fifo

\* A request that starts is running, so it is neither in the queue nor still
\* to come.
LEMMA FifoStart ==
  ASSUME IInv, Fifo, UNCHANGED queue, NEW S \in SUBSET running,
         \A x \in Requests : started'[x] <=> started[x] \/ x \in S,
         Decoders' \in SUBSET (Decoders \cup S)
  PROVE  Fifo'
<1>1. \A i \in 1 .. Len(waiting) : waiting[i] \in Requests /\ waiting[i] \notin S
  <2>1. \A i \in 1 .. Len(waiting) : waiting[i] \in InQueue
    BY DEF InQueue
  <2> QED
    BY <2>1, QueueIs DEF IInv
<1>2. FifoQueue'
  BY <1>1 DEF Fifo, FifoQueue, queue
<1>3. \A x \in Decoders' : started'[x]
  BY Typing DEF Fifo, IInv
<1>4. \A x \in Requests : started'[x] => x <= arrived'
  <2>1. \A x \in S : x \in 1 .. arrived
    BY DEF IInv, NoLostRequest
  <2> QED
    BY <2>1 DEF Fifo, queue
<1> QED
  BY <1>2, <1>3, <1>4 DEF Fifo

LEMMA FifoNext == ASSUME IInv, IInv', Fifo, [Next]_vars PROVE Fifo'
<1>1. CASE Intake
  <2>1. /\ Decoders' = Decoders /\ started' = started
    BY <1>1 DEF Intake, reqs, Decoders
  <2>2. arrived' \in Nat /\ arrived \in Nat /\ arrived <= arrived'
    <3>1. PICK k \in 0 .. N - arrived : arrived' = arrived + k
      BY <1>1 DEF Intake
    <3> QED
      BY <3>1, ServeAssumption DEF IInv, TypeOK
  <2>3. \A x \in Requests : x \in Nat
    BY ServeAssumption DEF Requests
  <2>4. \A x \in Requests : started'[x] => x <= arrived'
    BY <2>1, <2>2, <2>3 DEF Fifo
  <2> QED
    BY <1>1, <2>1, <2>4, FifoIntake DEF Fifo
<1>2. CASE Admit \/ ForceAdmit
  BY <1>2, FifoEnter DEF Admit, ForceAdmit
<1>3. CASE EndAdmission \/ Finished \/ UNCHANGED vars
  BY <1>3 DEF EndAdmission, Finished, vars, reqs, queue, Fifo, FifoQueue, Decoders
<1>4. CASE Preempt
  BY <1>4, FifoPreempt
<1>5. CASE PrefillStep
  <2> DEFINE p == Prefiller
  <2>1. p \in running /\ p \in Requests
    BY <1>5, PrefillerPending, Typing DEF PrefillStep, PrefillTurn, IInv
  <2>2. /\ UNCHANGED queue /\ running' = running
        /\ needsPrefill' = [needsPrefill EXCEPT ![p] = FALSE]
        /\ started' = [started EXCEPT ![p] = TRUE]
    BY <1>5 DEF PrefillStep
  <2> HIDE DEF p
  <2>3. /\ needsPrefill \in [Requests -> BOOLEAN] /\ started \in [Requests -> BOOLEAN]
        /\ running \in SUBSET Requests
    BY DEF IInv, TypeOK
  <2>4. \A x \in Requests : started'[x] <=> started[x] \/ x \in {p}
    BY <2>1, <2>2, <2>3
  <2>5. Decoders' \in SUBSET (Decoders \cup {p})
    BY <2>2, <2>3 DEF Decoders
  <2>6. {p} \in SUBSET running
    BY <2>1
  <2> QED
    BY <2>2, <2>4, <2>5, <2>6, FifoStart
<1>6. CASE DecodeStep
  <2>1. /\ UNCHANGED queue /\ started' = started /\ needsPrefill' = needsPrefill
        /\ running' \in SUBSET running
    BY <1>6 DEF DecodeStep, EmitTokens
  <2> DEFINE none == {}
  <2>2. /\ Decoders' \in SUBSET (Decoders \cup none) /\ none \in SUBSET running
        /\ \A x \in Requests : started'[x] <=> started[x] \/ x \in none
    BY <2>1 DEF Decoders
  <2> HIDE DEF none
  <2> QED
    BY <2>1, <2>2, FifoStart
<1>7. CASE MixedStep
  <2> DEFINE filled == IF ChunkSize = 0 THEN {} ELSE {Prefiller}
             whole  == {r \in filled : Whole(r)}
  <2>1. /\ UNCHANGED queue /\ running' \in SUBSET running
        /\ needsPrefill' = [r \in Requests |-> needsPrefill[r] /\ r \notin whole]
        /\ started' = [r \in Requests |-> started[r] \/ r \in whole]
    BY <1>7 DEF MixedStep, EmitTokens
  <2>2. whole \in SUBSET running
    <3>1. ChunkSize # 0 => Prefiller \in running
      BY PrefillerPending, Typing DEF ChunkSize, IInv
    <3> QED
      BY <3>1
  <2> HIDE DEF filled, whole
  <2>3. Decoders' \in SUBSET (Decoders \cup whole)
    BY <2>1, Typing DEF Decoders, IInv
  <2>4. \A x \in Requests : started'[x] <=> started[x] \/ x \in whole
    BY <2>1
  <2> QED
    BY <2>1, <2>2, <2>3, <2>4, FifoStart
<1> QED
  BY <1>1, <1>2, <1>3, <1>4, <1>5, <1>6, <1>7 DEF Next

\* The queue is served in arrival order up to preemption: those that have not
\* started stand behind the preempted ones, oldest first.
THEOREM QueueIsFifo == Spec => []FifoQueue
<1>1. IInv /\ IInv' /\ Fifo /\ [Next]_vars => Fifo'
  BY FifoNext
<1>2. Fifo => FifoQueue
  BY DEF Fifo
<1> QED
  BY FifoInit, Invariance, <1>1, <1>2, PTL DEF Spec

-----------------------------------------------------------------------------
(***************************************************************************)
(* The serving loop implements RequestService: what a request's submitter  *)
(* can see never depends on KV, prefill chunks or preemptions.             *)
(***************************************************************************)
\* The refinement mapping without the queue's contents: the queue holds those
\* that arrived and are neither in the batch nor completed.
WhereIs(done, batch, arr) ==
  [r \in Requests |-> CASE r \in done  -> "done"
                        [] r \in batch -> "batch"
                        [] r \in 1 .. arr \ (batch \cup done) -> "queued"
                        [] OTHER -> "coming"]

LEMMA PlaceIs ==
  ASSUME NoLostRequest
  PROVE  Place = WhereIs(completed, running, arrived)
<1>1. InQueue = 1 .. arrived \ (running \cup completed)
  BY DEF NoLostRequest
<1> QED
  BY <1>1 DEF Place, WhereIs

LEMMA PlaceNext ==
  ASSUME NoLostRequest'
  PROVE  Place' = WhereIs(completed', running', arrived')
<1>1. InQueue' = 1 .. arrived' \ (running' \cup completed')
  BY DEF NoLostRequest
<1> QED
  BY <1>1 DEF Place, WhereIs

\* Each place, as the loop's sets have it.
LEMMA PlaceOf ==
  ASSUME IInv, NEW r \in Requests
  PROVE  /\ Place[r] = "done" <=> r \in completed
         /\ Place[r] = "batch" <=> r \in running
         /\ Place[r] = "queued" <=> r \in InQueue
         /\ Place[r] = "coming" <=> r > arrived
<1>1. /\ r \in 1 .. arrived <=> r <= arrived
      /\ r > arrived <=> ~(r <= arrived)
  BY ServeAssumption DEF IInv, TypeOK, Requests
<1>2. r \in 1 .. arrived <=> r \in InQueue \cup running \cup completed
  BY DEF IInv, NoLostRequest
<1>3. Place[r] = CASE r \in completed -> "done"
                   [] r \in running   -> "batch"
                   [] r \in InQueue   -> "queued"
                   [] OTHER           -> "coming"
  BY DEF Place
<1>4. ~(r \in completed /\ r \in running) /\ ~(r \in InQueue /\ r \in running)
      /\ ~(r \in InQueue /\ r \in completed)
  BY DEF IInv, NoLostRequest
<1> QED
  BY <1>1, <1>2, <1>3, <1>4

LEMMA BatchSlots ==
  ASSUME IInv
  PROVE  Service!At("batch") = running
<1>1. running \in SUBSET Requests
  BY Typing DEF IInv
<1>2. Service!Requests = Requests
  BY DEF Service!Requests, Requests
<1> QED
  BY <1>1, <1>2, PlaceOf DEF Service!At

-----------------------------------------------------------------------------
LEMMA InitRefines == Init => Service!Init
<1> SUFFICES ASSUME Init PROVE Service!Init
  OBVIOUS
<1>1. IInv
  BY InitInv
<1>2. output \in [Requests -> Nat \ {0}]
  BY ServeAssumption DEF Init
<1>3. Place = [r \in Requests |-> "coming"]
  <2>1. completed = {} /\ running = {} /\ arrived = 0
    BY DEF Init
  <2>2. 1 .. 0 = {}
    OBVIOUS
  <2>3. Place = WhereIs({}, {}, 0)
    BY <1>1, <2>1, PlaceIs DEF IInv
  <2> QED
    BY <2>2, <2>3 DEF WhereIs
<1>4. gen = [r \in Requests |-> 0]
  BY DEF Init
<1> QED
  BY <1>2, <1>3, <1>4 DEF Service!Init, Service!Requests, Requests

LEMMA StutterRefines ==
  ASSUME IInv, IInv', UNCHANGED <<output, gen, completed, running, arrived>>
  PROVE  UNCHANGED Service!svars
BY PlaceIs, PlaceNext DEF IInv, Service!svars

LEMMA IntakeRefines ==
  ASSUME IInv, IInv', Intake
  PROVE  [Service!Next]_(Service!svars)
<1>1. PICK k \in 0 .. N - arrived : arrived' = arrived + k
  BY DEF Intake
<1>2. UNCHANGED <<output, gen, completed, running>>
  BY DEF Intake, lens, reqs
<1>3. N \in Nat /\ arrived \in 0 .. N /\ k \in Nat
  BY <1>1, ServeAssumption DEF IInv, TypeOK
<1>4. CASE k = 0
  <2>1. arrived' = arrived
    BY <1>1, <1>3, <1>4
  <2> QED
    BY <1>2, <2>1, StutterRefines
<1>5. CASE k # 0
  <2> DEFINE a == arrived + k
  <2>1. a \in Requests /\ a > arrived
    BY <1>1, <1>3, <1>5 DEF Requests
  <2>2. Place[a] = "coming"
    BY <2>1, PlaceOf
  <2>3. ASSUME NEW s \in Requests
        PROVE  Place'[s] = IF Place[s] = "coming" /\ s <= a THEN "queued" ELSE Place[s]
    <3>1. s \in Nat /\ s > 0 /\ (s > arrived <=> s \notin 1 .. arrived)
      BY <1>3 DEF Requests
    <3>2. s \in 1 .. arrived' <=> s \in 1 .. arrived \/ (s > arrived /\ s <= a)
      BY <1>1, <1>3, <3>1
    <3>3. Place'[s] = WhereIs(completed, running, arrived')[s]
      BY <1>2, PlaceNext DEF IInv
    <3>4. Place[s] = WhereIs(completed, running, arrived)[s]
      BY PlaceIs DEF IInv
    <3>5. s > arrived => s \notin running /\ s \notin completed
      BY <3>1 DEF IInv, NoLostRequest
    <3>6. CASE s > arrived
      <4>1. Place[s] = "coming"
        BY <3>6, PlaceOf
      <4>2. Place'[s] = IF s \in 1 .. arrived' THEN "queued" ELSE "coming"
        BY <3>3, <3>5, <3>6 DEF WhereIs
      <4>3. s \in 1 .. arrived' <=> s <= a
        BY <3>1, <3>2, <3>6
      <4> QED
        BY <4>1, <4>2, <4>3
    <3>7. CASE ~(s > arrived)
      <4>1. Place[s] # "coming"
        BY <3>7, PlaceOf
      <4>2. s \in 1 .. arrived' /\ s \in 1 .. arrived
        BY <3>1, <3>2, <3>7
      <4>3. Place'[s] = Place[s]
        BY <3>3, <3>4, <4>2 DEF WhereIs
      <4> QED
        BY <4>1, <4>3
    <3> QED
      BY <3>6, <3>7
  <2>4. Place' = [s \in Requests |->
                    IF Place[s] = "coming" /\ s <= a THEN "queued" ELSE Place[s]]
    <3>1. Place' = WhereIs(completed', running', arrived')
      BY PlaceNext DEF IInv
    <3> QED
      BY <2>3, <3>1 DEF WhereIs
  <2> HIDE DEF a
  <2>5. Service!Arrive(a)
    BY <1>2, <2>2, <2>4 DEF Service!Arrive, Service!Requests, Requests
  <2> QED
    BY <2>1, <2>5 DEF Service!Next, Service!Requests, Requests
<1> QED
  BY <1>4, <1>5

\* Moving one request to another place.
LEMMA MoveOne ==
  ASSUME IInv, IInv', NEW r \in Requests, NEW p,
         Place'[r] = p, UNCHANGED <<completed, arrived>>,
         \A s \in Requests \ {r} : s \in running' <=> s \in running
  PROVE  Place' = [Place EXCEPT ![r] = p]
<1>1. /\ Place = WhereIs(completed, running, arrived)
      /\ Place' = WhereIs(completed, running', arrived)
  BY PlaceIs, PlaceNext DEF IInv
<1>2. \A s \in Requests \ {r} : Place'[s] = Place[s]
  BY <1>1 DEF WhereIs
<1> QED
  BY <1>1, <1>2 DEF WhereIs

LEMMA EnterRefines ==
  ASSUME IInv, IInv', Admit \/ ForceAdmit
  PROVE  Service!Next
<1> DEFINE r == Head(waiting)
<1>1. waiting # << >> /\ Enter(r)
  BY DEF Admit, ForceAdmit
<1>2. r \in Requests /\ r \in InQueue
  BY <1>1, QueueIs, TailQueue DEF IInv
<1>3. /\ running' = running \cup {r} /\ UNCHANGED <<completed, arrived, output, gen>>
  BY <1>1 DEF Enter, lens
<1>4. Cardinality(running) < MaxBatch
  <2>1. CASE CanAdmit(r)
    BY <2>1 DEF CanAdmit
  <2>2. CASE ~CanAdmit(r)
    <3>1. running = {}
      BY <2>2 DEF Admit, ForceAdmit
    <3> QED
      BY <3>1, FS_EmptySet, ServeAssumption
  <2> QED
    BY <2>1, <2>2
<1> HIDE DEF r
<1>5. Place[r] = "queued"
  BY <1>2, PlaceOf
<1>6. Place'[r] = "batch"
  <2>1. r \notin completed /\ r \in running'
    BY <1>2, <1>3 DEF IInv, NoLostRequest
  <2>2. Place' = WhereIs(completed, running', arrived)
    BY <1>3, PlaceNext DEF IInv
  <2> QED
    BY <1>2, <2>1, <2>2 DEF WhereIs
<1>7. Place' = [Place EXCEPT ![r] = "batch"]
  <2>1. \A s \in Requests \ {r} : s \in running' <=> s \in running
    BY <1>3
  <2> QED
    BY <1>2, <1>3, <1>6, <2>1, MoveOne
<1>8. Service!Admit(r)
  <2>1. Service!Cardinality(Service!At("batch")) < MaxBatch
    <3>1. Service!Cardinality(running) = Cardinality(running)
      BY DEF Service!Cardinality, Cardinality
    <3> QED
      BY <1>4, <3>1, BatchSlots
  <2> QED
    BY <1>3, <1>5, <1>7, <2>1 DEF Service!Admit
<1> QED
  BY <1>2, <1>8 DEF Service!Next, Service!Requests, Requests

LEMMA PreemptRefines ==
  ASSUME IInv, IInv', Preempt
  PROVE  Service!Next
<1> DEFINE v == Victim
<1>1. v \in running /\ v \in Requests
  BY VictimDecodes, Typing DEF Preempt, IInv
<1>2. /\ running' = running \ {v} /\ UNCHANGED <<completed, arrived, output, gen>>
      /\ waiting' = <<v>> \o waiting
  BY DEF Preempt, Requeue, lens
<1> HIDE DEF v
<1>3. Place[v] = "batch"
  BY <1>1, PlaceOf
<1>4. Place'[v] = "queued"
  <2>1. v \notin completed /\ v \in 1 .. arrived /\ v \notin running'
    BY <1>1, <1>2 DEF IInv, NoLostRequest
  <2>2. Place' = WhereIs(completed, running', arrived)
    BY <1>2, PlaceNext DEF IInv
  <2> QED
    BY <1>1, <2>1, <2>2 DEF WhereIs
<1>5. Place' = [Place EXCEPT ![v] = "queued"]
  <2>1. \A s \in Requests \ {v} : s \in running' <=> s \in running
    BY <1>2
  <2> QED
    BY <1>1, <1>2, <1>4, <2>1, MoveOne
<1>6. Service!Preempt(v)
  BY <1>2, <1>3, <1>5 DEF Service!Preempt
<1> QED
  BY <1>1, <1>6 DEF Service!Next, Service!Requests, Requests

LEMMA EmitRefines ==
  ASSUME IInv, IInv', EmitTokens, UNCHANGED <<arrived, output>>
  PROVE  Service!Next
<1>1. /\ running' = running \ Finishing /\ completed' = completed \cup Finishing
      /\ gen' = [r \in Requests |-> IF r \in Decoders THEN gen[r] + 1 ELSE gen[r]]
  BY DEF EmitTokens
<1>2. Decoders \in SUBSET running /\ Decoders \in SUBSET Requests
  BY Typing DEF IInv
<1>3. \A r \in Requests : r \in Finishing <=> r \in Decoders /\ gen[r] + 1 = output[r]
  <2> TAKE r \in Requests
  <2>1. gen[r] \in Nat /\ output[r] \in Nat
    BY Typing DEF IInv
  <2>2. r \in Decoders => gen[r] < output[r]
    <3>1. r \in Decoders => r \notin completed
      BY <1>2 DEF IInv, NoLostRequest
    <3> QED
      BY <3>1 DEF IInv, TokenConservation
  <2>3. r \in Finishing <=> r \in Decoders /\ gen[r] + 1 >= output[r]
    BY DEF Finishing
  <2> QED
    BY <2>1, <2>2, <2>3
<1>4. ASSUME NEW r \in Requests
      PROVE  Place'[r] = IF r \in Decoders /\ gen[r] + 1 = output[r] THEN "done" ELSE Place[r]
  <2>1. /\ Place = WhereIs(completed, running, arrived)
        /\ Place' = WhereIs(completed', running', arrived)
    BY PlaceIs, PlaceNext DEF IInv
  <2>2. CASE r \in Finishing
    BY <1>1, <1>3, <2>1, <2>2 DEF WhereIs
  <2>3. CASE r \notin Finishing
    <3>1. Place'[r] = Place[r]
      BY <1>1, <2>1, <2>3 DEF WhereIs
    <3> QED
      BY <1>3, <2>3, <3>1
  <2> QED
    BY <2>2, <2>3
<1>5. Place' = [r \in Requests |->
                  IF r \in Decoders /\ gen[r] + 1 = output[r] THEN "done" ELSE Place[r]]
  <2>1. Place' = WhereIs(completed', running', arrived')
    BY PlaceNext DEF IInv
  <2> QED
    BY <1>4, <2>1 DEF WhereIs
<1>6. Service!Requests = Requests
  BY DEF Service!Requests, Requests
<1>7. Decoders \in SUBSET Service!At("batch")
  BY <1>2, BatchSlots
<1>8. Service!Emit(Decoders)
  BY <1>1, <1>5, <1>6, <1>7 DEF Service!Emit
<1> QED
  BY <1>2, <1>6, <1>8 DEF Service!Next

LEMMA NextRefines ==
  ASSUME IInv, IInv', [Next]_vars
  PROVE  [Service!Next]_(Service!svars)
<1>1. CASE Intake
  BY <1>1, IntakeRefines
<1>2. CASE Admit \/ ForceAdmit
  BY <1>2, EnterRefines
<1>3. CASE Preempt
  BY <1>3, PreemptRefines
<1>4. CASE EndAdmission \/ PrefillStep \/ Finished \/ UNCHANGED vars
  <2>1. UNCHANGED <<output, gen, completed, running, arrived>>
    BY <1>4 DEF EndAdmission, PrefillStep, Finished, vars, lens, queue, reqs
  <2> QED
    BY <2>1, StutterRefines
<1>5. CASE DecodeStep \/ MixedStep
  BY <1>5, EmitRefines DEF DecodeStep, MixedStep, lens, queue
<1> QED
  BY <1>1, <1>2, <1>3, <1>4, <1>5 DEF Next

\* Every behaviour of the loop is one of RequestService: a request keeps its
\* tokens through preemptions, emits only while it holds one of the MaxBatch
\* slots, and leaves with exactly output_len tokens.
THEOREM ServesRequests == Spec => ImplementsService
<1>1. IInv /\ IInv' /\ [Next]_vars => [Service!Next]_(Service!svars)
  BY NextRefines
<1> QED
  BY InitRefines, Invariance, <1>1, PTL DEF Spec, ImplementsService, Service!Spec
=============================================================================
