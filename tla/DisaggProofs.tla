----------------------------- MODULE DisaggProofs -----------------------------
(***************************************************************************)
(* What holds of disaggregated serving for every number of requests and of *)
(* replicas, every workload, every policy and every budget: the requests   *)
(* keep their place and their tokens, an iteration keeps its batch, and    *)
(* nothing is idle that has work.                                          *)
(***************************************************************************)
EXTENDS Disagg, KvCacheProofs

-----------------------------------------------------------------------------
(***************************************************************************)
(* Types.                                                                  *)
(***************************************************************************)
LEMMA Typing ==
  ASSUME TypeOK
  PROVE  /\ N \in Nat \ {0} /\ Requests = 1 .. N /\ None \notin Requests
         /\ \A r \in Requests : /\ prompt[r] \in Nat \ {0} /\ output[r] \in Nat \ {0}
                                /\ gen[r] \in Nat /\ context[r] \in Nat
                                /\ Target(r) \in Nat \ {0} /\ FullFp(r) \in Nat
                                /\ KvBytes(context[r]) \in Nat
                                /\ KvBytes(context[r] + 1) \in Nat
                                /\ KvGrow(context[r]) \in Nat
         /\ \A d \in DecodePool : /\ running[d] \in SUBSET Requests
                                  /\ iterBatch[d] \in SUBSET Requests
                                  /\ IsFiniteSet(running[d])
                                  /\ Finishing(d) \in SUBSET iterBatch[d]
<1>1. N \in Nat \ {0} /\ Requests = 1 .. N /\ None \notin Requests
  BY DisaggAssumption DEF Requests, None
<1>2. \A r \in Requests : /\ prompt[r] \in Nat \ {0} /\ output[r] \in Nat \ {0}
                          /\ gen[r] \in Nat /\ context[r] \in Nat
  BY DisaggAssumption DEF TypeOK
<1>3. \A r \in Requests : /\ Target(r) \in Nat \ {0} /\ prompt[r] + output[r] \in Nat
                          /\ context[r] + 1 \in Nat
  BY <1>2 DEF Target
<1>4. \A r \in Requests : KvGrow(context[r]) \in Nat
  <2> TAKE r \in Requests
  <2>1. KvGrow(context[r]) \in 0 .. KvPerToken
    BY <1>2, GrowIsDifference
  <2> QED
    BY <2>1, KvAssumption
<1>5. \A r \in Requests : /\ FullFp(r) \in Nat /\ KvBytes(context[r]) \in Nat
                          /\ KvBytes(context[r] + 1) \in Nat
  BY <1>2, <1>3, KvBytesType DEF FullFp
<1>6. ASSUME NEW d \in DecodePool
      PROVE  /\ running[d] \in SUBSET Requests /\ iterBatch[d] \in SUBSET Requests
             /\ IsFiniteSet(running[d]) /\ Finishing(d) \in SUBSET iterBatch[d]
  <2>1. running[d] \in SUBSET Requests /\ iterBatch[d] \in SUBSET Requests
    BY DEF TypeOK
  <2>2. IsFiniteSet(1 .. N)
    BY <1>1, IntervalSize
  <2> QED
    BY <1>1, <2>1, <2>2, FS_Subset DEF Finishing, Emitting
<1> QED
  BY <1>1, <1>2, <1>3, <1>4, <1>5, <1>6

\* What each request holds, would hold with one more token and gains by it, and
\* what it holds in the end.
Foot   == [r \in Requests |-> KvBytes(context[r])]
Longer == [r \in Requests |-> KvBytes(context[r] + 1)]
Gain   == [r \in Requests |-> KvGrow(context[r])]
Full   == [r \in Requests |-> FullFp(r)]

LEMMA SumTypes ==
  ASSUME TypeOK
  PROVE  /\ Foot \in [1 .. N -> Nat] /\ Longer \in [1 .. N -> Nat]
         /\ Gain \in [1 .. N -> Nat] /\ Full \in [1 .. N -> Nat]
         /\ \A d \in DecodePool :
              /\ Growth(d) = Total(Gain, iterBatch[d]) /\ Growth(d) \in Nat
              /\ Held(d) = Total(Foot, running[d]) /\ Held(d) \in Nat
              /\ Committed(d) = Held(d)
         /\ \A S \in SUBSET Requests : Total(Full, S) \in Nat /\ Total(Longer, S) \in Nat
<1>1. /\ Foot \in [1 .. N -> Nat] /\ Longer \in [1 .. N -> Nat]
      /\ Gain \in [1 .. N -> Nat] /\ Full \in [1 .. N -> Nat]
  BY Typing DEF Foot, Longer, Gain, Full
<1>2. N \in Nat /\ Requests = 1 .. N
  BY Typing
<1>3. \A d \in DecodePool : running[d] \in SUBSET (1 .. N) /\ iterBatch[d] \in SUBSET (1 .. N)
  BY Typing
<1>4. \A d \in DecodePool : /\ Growth(d) = Total(Gain, iterBatch[d])
                            /\ Held(d) = Total(Foot, running[d])
                            /\ Committed(d) = Total(Foot, running[d])
  BY DEF Growth, Emitting, Held, Committed, Foot, Gain
<1>5. \A d \in DecodePool : Total(Gain, iterBatch[d]) \in Nat /\ Total(Foot, running[d]) \in Nat
  BY <1>1, <1>2, <1>3, TotalType
<1>6. \A S \in SUBSET (1 .. N) : Total(Full, S) \in Nat /\ Total(Longer, S) \in Nat
  BY <1>1, <1>2, TotalType
<1> QED
  BY <1>1, <1>2, <1>4, <1>5, <1>6

\* The replicas the loops choose are replicas, and what the guards say of them.
LEMMA Chosen ==
  ASSUME TypeOK
  PROVE  /\ FreePrefillReplicas # {} => Min(FreePrefillReplicas) \in FreePrefillReplicas
         /\ Empty # {} => Min(Empty) \in Empty
         /\ Startable # {} => Min(Startable) \in Startable
         /\ \A d \in DecodePool : running[d] # {} =>
              Max(running[d]) \in running[d] /\ \A r \in running[d] : r <= Max(running[d])
<1>1. PrefillPool \in SUBSET Nat /\ DecodePool \in SUBSET Nat
  BY DisaggAssumption DEF PrefillPool, DecodePool
<1>2. /\ FreePrefillReplicas \in SUBSET Nat /\ Empty \in SUBSET Nat
      /\ Startable \in SUBSET Nat
  BY <1>1 DEF FreePrefillReplicas, Empty, Startable
<1>3. ASSUME NEW d \in DecodePool, running[d] # {}
      PROVE  Max(running[d]) \in running[d] /\ \A r \in running[d] : r <= Max(running[d])
  <2>1. N \in Nat /\ running[d] \in SUBSET (1 .. N)
    BY Typing
  <2>2. running[d] \in SUBSET (0 .. N)
    BY <2>1
  <2>3. Max(running[d]) \in running[d] /\ \A r \in running[d] : Max(running[d]) >= r
    BY <1>3, <2>1, <2>2, MaxOf
  <2>4. \A r \in running[d] : r \in Int
    BY <2>1
  <2> QED
    BY <2>3, <2>4
<1> QED
  BY <1>2, <1>3, MinOf

\* The least loaded replica with room exists and has room.
LEMMA LeastLoadedOpen ==
  ASSUME TypeOK, NEW r, Open(r) # {}
  PROVE  LeastLoaded(r) \in Open(r)
<1> DEFINE load == {Cardinality(running[d]) : d \in Open(r)}
           least == {d \in Open(r) : \A e \in Open(r) :
                       Cardinality(running[d]) <= Cardinality(running[e])}
<1>1. \A d \in Open(r) : d \in DecodePool /\ Cardinality(running[d]) \in Nat
  BY Typing, FS_CardinalityType DEF Open
<1>2. load \in SUBSET Nat /\ load # {}
  BY <1>1
<1>3. PICK k \in load : \A j \in load : k <= j
  BY <1>2, LeastElement
<1>4. PICK d \in Open(r) : k = Cardinality(running[d])
  BY <1>3
<1>5. d \in least
  BY <1>3, <1>4
<1>6. least \in SUBSET Nat
  BY <1>1, DisaggAssumption DEF DecodePool
<1>7. Min(least) \in least
  BY <1>5, <1>6, MinOf
<1> QED
  BY <1>7 DEF LeastLoaded

-----------------------------------------------------------------------------
(***************************************************************************)
(* Places.                                                                 *)
(***************************************************************************)
\* Six sets without a common member that make up S together.
Apart(A, B, C, D, E, F, S) ==
  /\ A \cap (B \cup C \cup D \cup E \cup F) = {}
  /\ B \cap (C \cup D \cup E \cup F) = {}
  /\ C \cap (D \cup E \cup F) = {}
  /\ D \cap (E \cup F) = {}
  /\ E \cap F = {}
  /\ A \cup B \cup C \cup D \cup E \cup F = S

LEMMA SixApart ==
  ASSUME NEW A, NEW B, NEW C, NEW D, NEW E, NEW F, NEW S
  PROVE  LET P == <<A, B, C, D, E, F>>
         IN  /\ \A p, q \in 1 .. 6 : p # q => P[p] \cap P[q] = {}
             /\ UNION {P[p] : p \in 1 .. 6} = S
             <=> Apart(A, B, C, D, E, F, S)
<1> DEFINE P == <<A, B, C, D, E, F>>
<1>1. P[1] = A /\ P[2] = B /\ P[3] = C /\ P[4] = D /\ P[5] = E /\ P[6] = F
  OBVIOUS
<1>2. \A p \in 1 .. 6 : p = 1 \/ p = 2 \/ p = 3 \/ p = 4 \/ p = 5 \/ p = 6
  OBVIOUS
<1>3. 1 \in 1 .. 6 /\ 2 \in 1 .. 6 /\ 3 \in 1 .. 6 /\ 4 \in 1 .. 6 /\ 5 \in 1 .. 6 /\ 6 \in 1 .. 6
  OBVIOUS
<1> HIDE DEF P
<1>4. UNION {P[p] : p \in 1 .. 6} = A \cup B \cup C \cup D \cup E \cup F
  <2>1. ASSUME NEW x \in UNION {P[p] : p \in 1 .. 6}
        PROVE  x \in A \cup B \cup C \cup D \cup E \cup F
    BY <1>1, <1>2
  <2>2. ASSUME NEW x \in A \cup B \cup C \cup D \cup E \cup F
        PROVE  \E p \in 1 .. 6 : x \in P[p]
    BY <1>1, <1>3
  <2> QED
    BY <2>1, <2>2
<1>5. ASSUME \A p, q \in 1 .. 6 : p # q => P[p] \cap P[q] = {}
      PROVE  /\ A \cap B = {} /\ A \cap C = {} /\ A \cap D = {} /\ A \cap E = {} /\ A \cap F = {}
             /\ B \cap C = {} /\ B \cap D = {} /\ B \cap E = {} /\ B \cap F = {}
             /\ C \cap D = {} /\ C \cap E = {} /\ C \cap F = {}
             /\ D \cap E = {} /\ D \cap F = {} /\ E \cap F = {}
  BY <1>1, <1>3, <1>5
<1>6. ASSUME Apart(A, B, C, D, E, F, S), NEW p \in 1 .. 6, NEW q \in 1 .. 6, p # q
      PROVE  P[p] \cap P[q] = {}
  BY <1>1, <1>2, <1>6 DEF Apart
<1>7. /\ \A p, q \in 1 .. 6 : p # q => P[p] \cap P[q] = {}
      /\ UNION {P[p] : p \in 1 .. 6} = S
      <=> Apart(A, B, C, D, E, F, S)
  BY <1>4, <1>5, <1>6 DEF Apart
<1> QED
  BY <1>7 DEF P

InOnePlace ==
  Apart(Items(waitingPrefill), Prefilling, Items(transfers), Items(waitingDecode),
        Batched, completed, 1 .. arrived)

\* A prefill replica each, a decode replica each.
OneReplica ==
  /\ \A i, j \in PrefillPool : current[i] = current[j] /\ current[i] # None => i = j
  /\ \A d, e \in DecodePool : d # e => running[d] \cap running[e] = {}

LEMMA ItemsAre == \A s : Items(s) = SetOf(s)
BY DEF Items, SetOf

LEMMA LostNone ==
  NoLostRequest <=> /\ Distinct(waitingPrefill) /\ Distinct(transfers)
                    /\ Distinct(waitingDecode) /\ OneReplica /\ InOnePlace
BY SixApart DEF NoLostRequest, Distinct, OneReplica, InOnePlace

LEMMA LostNoneNext ==
  ASSUME Distinct(waitingPrefill'), Distinct(transfers'), Distinct(waitingDecode'),
         OneReplica', InOnePlace'
  PROVE  NoLostRequest'
BY SixApart DEF NoLostRequest, Distinct, OneReplica, InOnePlace

\* The queues' elements have the type of the queues.
LEMMA QueuesAre ==
  ASSUME TypeOK, NoLostRequest
  PROVE  /\ waitingPrefill \in Seq(Requests) /\ waitingDecode \in Seq(Requests)
         /\ transfers \in Seq(Requests)
         /\ Distinct(waitingPrefill) /\ Distinct(transfers) /\ Distinct(waitingDecode)
         /\ Items(waitingPrefill) = SetOf(waitingPrefill)
         /\ Items(transfers) = SetOf(transfers)
         /\ Items(waitingDecode) = SetOf(waitingDecode)
         /\ InOnePlace /\ 1 .. arrived \in SUBSET Requests
<1>1. 1 .. arrived \in SUBSET Requests
  BY Typing DEF TypeOK
<1> QED
  BY <1>1, ItemsAre, LostNone DEF TypeOK

\* Where a replica's request is.
LEMMA OnReplica ==
  /\ \A i \in PrefillPool : current[i] # None => current[i] \in Prefilling
  /\ \A d \in DecodePool : running[d] \in SUBSET Batched
BY DEF Prefilling, Batched

-----------------------------------------------------------------------------
(***************************************************************************)
(* What each step does to the places.                                      *)
(***************************************************************************)
LEMMA UnmovedPlaces ==
  ASSUME NoLostRequest, UNCHANGED <<arrived, prefill, transfers, waitingDecode,
                                    running, completed>>
  PROVE  NoLostRequest' /\ Prefilling' = Prefilling /\ Batched' = Batched
<1>1. Prefilling' = Prefilling /\ Batched' = Batched
  BY DEF Prefilling, Batched, prefill
<1>2. OneReplica' /\ InOnePlace'
  BY <1>1, LostNone DEF OneReplica, InOnePlace, prefill
<1>3. /\ waitingPrefill' = waitingPrefill /\ waitingDecode' = waitingDecode
      /\ transfers' = transfers
  BY DEF prefill
<1> QED
  BY <1>1, <1>2, <1>3, LostNone, LostNoneNext

LEMMA ArrivalPlaces ==
  ASSUME TypeOK, NoLostRequest, Arrival
  PROVE  /\ NoLostRequest' /\ waitingPrefill' \in Seq(Requests) /\ arrived' \in 0 .. N
         /\ Items(waitingPrefill') = Items(waitingPrefill) \cup {arrived + 1}
<1> DEFINE r == arrived + 1
<1>1. /\ waitingPrefill' = Append(waitingPrefill, r) /\ arrived' = r
      /\ UNCHANGED <<current, transfers, waitingDecode, running, completed>>
  BY DEF Arrival, NextArrival, decode
<1>2. /\ r \in Requests /\ arrived \in Nat /\ r \notin 1 .. arrived
      /\ 1 .. r = 1 .. arrived \cup {r} /\ r \in 0 .. N
  <2>1. N \in Nat /\ arrived \in 0 .. N /\ arrived < N /\ Requests = 1 .. N
    BY Typing DEF TypeOK, Arrival
  <2> QED
    BY <2>1
<1>3. /\ r \notin Items(waitingPrefill) /\ r \notin Prefilling /\ r \notin Items(transfers)
      /\ r \notin Items(waitingDecode) /\ r \notin Batched /\ r \notin completed
  BY <1>2, QueuesAre DEF InOnePlace, Apart
<1> HIDE DEF r
<1>4. /\ waitingPrefill' \in Seq(Requests) /\ Distinct(waitingPrefill')
      /\ Items(waitingPrefill') = Items(waitingPrefill) \cup {r}
  <2>1. r \notin SetOf(waitingPrefill)
    BY <1>3, ItemsAre
  <2> QED
    BY <1>1, <1>2, <2>1, QueuesAre, ItemsAre, AppendQueue
<1>5. InOnePlace'
  <2>1. Prefilling' = Prefilling /\ Batched' = Batched /\ Items(waitingDecode') = Items(waitingDecode)
    BY <1>1 DEF Prefilling, Batched
  <2> QED
    BY <1>1, <1>2, <1>3, <1>4, <2>1, QueuesAre DEF InOnePlace, Apart
<1>6. OneReplica' /\ Distinct(transfers') /\ Distinct(waitingDecode')
  BY <1>1, LostNone DEF OneReplica
<1> QED
  BY <1>1, <1>2, <1>4, <1>5, <1>6, LostNoneNext DEF r

LEMMA PrefillDonePlaces ==
  ASSUME TypeOK, NoLostRequest, NEW i \in PrefillPool, PrefillDone(i)
  PROVE  /\ NoLostRequest' /\ current[i] \in Requests
         /\ current' \in [PrefillPool -> Requests \cup {None}]
         /\ transfers' \in Seq(Requests)
         /\ Items(transfers') = Items(transfers) \cup {current[i]}
         /\ Prefilling' = Prefilling \ {current[i]}
<1> DEFINE r == current[i]
<1>1. /\ r # None /\ current' = [current EXCEPT ![i] = None]
      /\ transfers' = Append(transfers, r)
      /\ UNCHANGED <<arrived, waitingPrefill, waitingDecode, running, completed>>
  BY DEF PrefillDone, decode
<1>2. current \in [PrefillPool -> Requests \cup {None}] /\ r \in Requests
  BY <1>1 DEF TypeOK
<1>3. Prefilling' = Prefilling \ {r} /\ r \in Prefilling
  <2>1. \A j \in PrefillPool : j # i => current[j] # r /\ current'[j] = current[j]
    BY <1>1, <1>2, LostNone DEF OneReplica
  <2>2. current'[i] = None
    BY <1>1, <1>2
  <2>3. r \in Prefilling
    BY <1>1 DEF Prefilling
  <2>4. ASSUME NEW x \in Prefilling' PROVE x \in Prefilling /\ x # r
    <3>1. PICK j \in PrefillPool : x = current'[j] /\ x # None
      BY DEF Prefilling
    <3> QED
      BY <2>1, <2>2, <3>1 DEF Prefilling
  <2>5. ASSUME NEW x \in Prefilling, x # r PROVE x \in Prefilling'
    <3>1. PICK j \in PrefillPool : x = current[j] /\ x # None
      BY DEF Prefilling
    <3>2. current'[j] = x
      BY <2>1, <2>5, <3>1
    <3> QED
      BY <3>1, <3>2 DEF Prefilling
  <2> QED
    BY <2>3, <2>4, <2>5
<1>4. OneReplica'
  <2>1. \A j \in PrefillPool : current'[j] # None => j # i /\ current'[j] = current[j]
    BY <1>1, <1>2
  <2> QED
    BY <1>1, <2>1, LostNone DEF OneReplica
<1> HIDE DEF r
<1>5. /\ transfers' \in Seq(Requests) /\ Distinct(transfers')
      /\ Items(transfers') = Items(transfers) \cup {r}
  <2>1. r \notin SetOf(transfers)
    BY <1>3, QueuesAre, ItemsAre DEF InOnePlace, Apart
  <2> QED
    BY <1>1, <1>2, <2>1, QueuesAre, ItemsAre, AppendQueue
<1>6. InOnePlace'
  <2>1. /\ Items(waitingPrefill') = Items(waitingPrefill)
        /\ Items(waitingDecode') = Items(waitingDecode)
        /\ Batched' = Batched
    BY <1>1 DEF Batched
  <2> QED
    BY <1>1, <1>3, <1>5, <2>1, QueuesAre DEF InOnePlace, Apart
<1>7. current' \in [PrefillPool -> Requests \cup {None}]
  BY <1>1, <1>2
<1> QED
  BY <1>1, <1>2, <1>3, <1>4, <1>5, <1>6, <1>7, LostNone, LostNoneNext DEF r

\* An element leaves from the middle of a queue.
LEMMA RemoveQueue ==
  ASSUME NEW R, NEW s \in Seq(R), Distinct(s), NEW k \in 1 .. Len(s)
  PROVE  /\ RemoveAt(s, k) \in Seq(R) /\ Distinct(RemoveAt(s, k))
         /\ s[k] \in R /\ s[k] \in SetOf(s)
         /\ SetOf(RemoveAt(s, k)) = SetOf(s) \ {s[k]}
<1> DEFINE a == SubSeq(s, 1, k - 1)
           b == SubSeq(s, k + 1, Len(s))
<1>1. /\ Len(s) \in Nat /\ k \in Nat /\ s[k] \in R
      /\ a \in Seq(R) /\ Len(a) = k - 1
      /\ b \in Seq(R) /\ Len(b) = Len(s) - k
      /\ \A i \in 1 .. k - 1 : a[i] = s[i]
      /\ \A i \in 1 .. Len(s) - k : b[i] = s[k + i]
  OBVIOUS
<1>2. RemoveAt(s, k) = a \o b
  BY DEF RemoveAt
<1> HIDE DEF a, b
<1>3. \A i \in 1 .. k - 1 : i \in 1 .. Len(s) /\ i < k
  BY <1>1
<1>4. \A i \in 1 .. Len(s) - k : k + i \in 1 .. Len(s) /\ k + i > k
  BY <1>1
<1>5. \A i \in 1 .. Len(s) :
        i \in 1 .. k - 1 \/ i = k \/ \E j \in 1 .. Len(s) - k : i = k + j
  <2> TAKE i \in 1 .. Len(s)
  <2>1. i \in 1 .. k - 1 \/ i = k \/ (i - k \in 1 .. Len(s) - k /\ i = k + (i - k))
    BY <1>1
  <2> QED
    BY <2>1
<1>6. Distinct(a)
  BY <1>1, <1>3 DEF Distinct
<1>7. Distinct(b)
  <2> SUFFICES ASSUME NEW i \in 1 .. Len(s) - k, NEW j \in 1 .. Len(s) - k, b[i] = b[j]
               PROVE  i = j
    BY <1>1 DEF Distinct
  <2>1. k + i = k + j
    BY <1>1, <1>4 DEF Distinct
  <2> QED
    BY <1>1, <2>1
<1>8. ASSUME NEW x \in SetOf(a)
      PROVE  x \in SetOf(s) /\ x # s[k] /\ x \notin SetOf(b)
  <2>1. PICK i \in 1 .. k - 1 : x = s[i]
    BY <1>1, <1>8 DEF SetOf
  <2>2. \A j \in 1 .. Len(s) : x = s[j] => j < k
    BY <1>3, <2>1 DEF Distinct
  <2> QED
    BY <1>1, <1>3, <1>4, <2>1, <2>2 DEF SetOf
<1>9. ASSUME NEW x \in SetOf(b) PROVE x \in SetOf(s) /\ x # s[k]
  <2>1. PICK i \in 1 .. Len(s) - k : x = s[k + i]
    BY <1>1, <1>9 DEF SetOf
  <2>2. k + i \in 1 .. Len(s) /\ k + i # k
    BY <1>1, <1>4
  <2> QED
    BY <2>1, <2>2 DEF SetOf, Distinct
<1>10. ASSUME NEW x \in SetOf(s), x # s[k] PROVE x \in SetOf(a) \cup SetOf(b)
  <2>1. PICK i \in 1 .. Len(s) : x = s[i]
    BY <1>10 DEF SetOf
  <2>2. CASE i \in 1 .. k - 1
    BY <1>1, <2>1, <2>2 DEF SetOf
  <2>3. CASE \E j \in 1 .. Len(s) - k : i = k + j
    BY <1>1, <2>1, <2>3 DEF SetOf
  <2> QED
    BY <1>5, <1>10, <2>1, <2>2, <2>3
<1>11. SetOf(a) \cap SetOf(b) = {} /\ SetOf(a) \cup SetOf(b) = SetOf(s) \ {s[k]}
  BY <1>8, <1>9, <1>10
<1>12. s[k] \in SetOf(s)
  BY DEF SetOf
<1>13. a \o b \in Seq(R) /\ Distinct(a \o b) /\ SetOf(a \o b) = SetOf(a) \cup SetOf(b)
  BY <1>1, <1>6, <1>7, <1>11, ConcatQueue
<1> QED
  BY <1>1, <1>2, <1>11, <1>12, <1>13

LEMMA TransferDonePlaces ==
  ASSUME TypeOK, NoLostRequest, NEW k \in Requests, TransferDone(k)
  PROVE  /\ NoLostRequest' /\ waitingDecode' \in Seq(Requests)
         /\ transfers' \in Seq(Requests)
         /\ Items(transfers') \in SUBSET Items(transfers)
         /\ Items(waitingDecode') = Items(waitingDecode) \cup {transfers[k]}
         /\ transfers[k] \in Items(transfers)
<1> DEFINE r == transfers[k]
<1>1. /\ k \in 1 .. Len(transfers) /\ transfers' = RemoveAt(transfers, k)
      /\ waitingDecode' = Append(waitingDecode, r)
      /\ UNCHANGED <<arrived, waitingPrefill, current, running, completed>>
  BY DEF TransferDone, prefill
<1>2. /\ transfers' \in Seq(Requests) /\ Distinct(transfers')
      /\ r \in Requests /\ r \in Items(transfers)
      /\ Items(transfers') = Items(transfers) \ {r}
  BY <1>1, QueuesAre, ItemsAre, RemoveQueue
<1> HIDE DEF r
<1>3. /\ waitingDecode' \in Seq(Requests) /\ Distinct(waitingDecode')
      /\ Items(waitingDecode') = Items(waitingDecode) \cup {r}
  <2>1. r \notin SetOf(waitingDecode)
    BY <1>2, QueuesAre, ItemsAre DEF InOnePlace, Apart
  <2> QED
    BY <1>1, <1>2, <2>1, QueuesAre, ItemsAre, AppendQueue
<1>4. InOnePlace'
  <2>1. /\ Items(waitingPrefill') = Items(waitingPrefill)
        /\ Prefilling' = Prefilling
        /\ Batched' = Batched
    BY <1>1 DEF Prefilling, Batched
  <2> QED
    BY <1>1, <1>2, <1>3, <2>1, QueuesAre DEF InOnePlace, Apart
<1>5. OneReplica' /\ Distinct(waitingPrefill')
  BY <1>1, LostNone DEF OneReplica
<1> QED
  BY <1>2, <1>3, <1>4, <1>5, LostNoneNext DEF r

LEMMA DecodeDonePlaces ==
  ASSUME TypeOK, NoLostRequest, BatchIntact, NEW d \in DecodePool, DecodeDone(d)
  PROVE  /\ NoLostRequest' /\ completed' = completed \cup Finishing(d)
         /\ running' = [running EXCEPT ![d] = running[d] \ Finishing(d)]
         /\ Batched' = Batched \ Finishing(d)
         /\ Finishing(d) \in SUBSET running[d]
<1>1. /\ completed' = completed \cup Finishing(d)
      /\ running' = [running EXCEPT ![d] = running[d] \ Finishing(d)]
      /\ UNCHANGED <<arrived, waitingPrefill, current, transfers, waitingDecode>>
  BY DEF DecodeDone, prefill
<1>2. Finishing(d) \in SUBSET running[d]
  BY Typing DEF BatchIntact
<1>3. /\ running'[d] = running[d] \ Finishing(d)
      /\ \A e \in DecodePool \ {d} : running'[e] = running[e]
  BY <1>1 DEF TypeOK
<1>4. \A e \in DecodePool \ {d} : running[e] \cap Finishing(d) = {}
  BY <1>2, LostNone DEF OneReplica
<1>5. Batched' = Batched \ Finishing(d)
  <2>1. \A x : x \in Batched <=> \E e \in DecodePool : x \in running[e]
    BY DEF Batched
  <2>2. \A x : x \in Batched' <=> \E e \in DecodePool : x \in running'[e]
    BY DEF Batched
  <2> QED
    BY <1>3, <1>4, <2>1, <2>2
<1>6. InOnePlace'
  <2>1. /\ Items(waitingPrefill') = Items(waitingPrefill)
        /\ Items(waitingDecode') = Items(waitingDecode)
        /\ Prefilling' = Prefilling
    BY <1>1 DEF Prefilling
  <2> QED
    BY <1>1, <1>2, <1>5, OnReplica, <2>1, QueuesAre DEF InOnePlace, Apart
<1>7. OneReplica'
  <2>1. \A e \in DecodePool : running'[e] \in SUBSET running[e]
    BY <1>3
  <2> QED
    BY <1>1, <2>1, LostNone DEF OneReplica
<1> QED
  BY <1>1, <1>2, <1>5, <1>6, <1>7, LostNone, LostNoneNext

LEMMA StartPrefillPlaces ==
  ASSUME TypeOK, NoLostRequest, StartPrefill
  PROVE  /\ NoLostRequest' /\ Head(waitingPrefill) \in Requests
         /\ Head(waitingPrefill) \in Items(waitingPrefill)
         /\ waitingPrefill' \in Seq(Requests)
         /\ current' \in [PrefillPool -> Requests \cup {None}]
         /\ Items(waitingPrefill') = Items(waitingPrefill) \ {Head(waitingPrefill)}
         /\ Prefilling' = Prefilling \cup {Head(waitingPrefill)}
<1> DEFINE r == Head(waitingPrefill)
           i == Min(FreePrefillReplicas)
<1>1. /\ waitingPrefill # << >> /\ waitingPrefill' = Tail(waitingPrefill)
      /\ current' = [current EXCEPT ![i] = r]
      /\ UNCHANGED <<arrived, transfers, waitingDecode, running, completed>>
  BY DEF StartPrefill, decode
<1>2. i \in PrefillPool /\ current[i] = None
  <2>1. i \in FreePrefillReplicas
    BY Chosen DEF StartPrefill
  <2> QED
    BY <2>1 DEF FreePrefillReplicas
<1>3. /\ r \in Requests /\ r \in Items(waitingPrefill)
      /\ waitingPrefill' \in Seq(Requests) /\ Distinct(waitingPrefill')
      /\ Items(waitingPrefill') = Items(waitingPrefill) \ {r}
  BY <1>1, QueuesAre, ItemsAre, TailQueue
<1> HIDE DEF i, r
<1>4. r # None /\ r \notin Prefilling
  BY <1>3, Typing, QueuesAre DEF InOnePlace, Apart
<1>5. /\ current'[i] = r /\ \A j \in PrefillPool \ {i} : current'[j] = current[j]
      /\ current' \in [PrefillPool -> Requests \cup {None}]
  BY <1>1, <1>2, <1>3 DEF TypeOK
<1>6. Prefilling' = Prefilling \cup {r}
  <2>1. \A x : x \in Prefilling <=> x # None /\ \E j \in PrefillPool : x = current[j]
    BY DEF Prefilling
  <2>2. \A x : x \in Prefilling' <=> x # None /\ \E j \in PrefillPool : x = current'[j]
    BY DEF Prefilling
  <2>3. ASSUME NEW x \in Prefilling PROVE x \in Prefilling'
    <3>1. PICK j \in PrefillPool : x = current[j] /\ x # None
      BY <2>1, <2>3
    <3>2. j # i /\ current'[j] = x
      BY <1>2, <1>5, <3>1
    <3> QED
      BY <2>2, <3>1, <3>2
  <2>4. ASSUME NEW x \in Prefilling' PROVE x \in Prefilling \/ x = r
    <3>1. PICK j \in PrefillPool : x = current'[j] /\ x # None
      BY <2>2, <2>4
    <3> QED
      BY <1>5, <2>1, <3>1
  <2>5. r \in Prefilling'
    BY <1>2, <1>4, <1>5, <2>2
  <2> QED
    BY <2>3, <2>4, <2>5
<1>7. OneReplica'
  <2>1. ASSUME NEW j \in PrefillPool, NEW k \in PrefillPool,
               current'[j] = current'[k], current'[j] # None
        PROVE  j = k
    <3>1. \A l \in PrefillPool \ {i} : current'[l] # r
      BY <1>4, <1>5 DEF Prefilling
    <3>2. CASE j = i \/ k = i
      BY <1>5, <2>1, <3>1, <3>2
    <3>3. CASE j # i /\ k # i
      BY <1>5, <2>1, <3>3, LostNone DEF OneReplica
    <3> QED
      BY <3>2, <3>3
  <2> QED
    BY <1>1, <2>1, LostNone DEF OneReplica
<1>8. InOnePlace'
  <2>1. Batched' = Batched /\ Items(waitingDecode') = Items(waitingDecode)
    BY <1>1 DEF Batched
  <2> QED
    BY <1>1, <1>3, <1>6, <2>1, QueuesAre DEF InOnePlace, Apart
<1> QED
  BY <1>1, <1>3, <1>5, <1>6, <1>7, <1>8, LostNone, LostNoneNext DEF r

\* A request is added to the batch of replica d.
LEMMA BatchedWith ==
  ASSUME TypeOK, NEW d \in DecodePool, NEW r,
         running' = [running EXCEPT ![d] = running[d] \cup {r}]
  PROVE  /\ Batched' = Batched \cup {r} /\ running'[d] = running[d] \cup {r}
         /\ \A e \in DecodePool \ {d} : running'[e] = running[e]
<1>1. /\ running'[d] = running[d] \cup {r}
      /\ \A e \in DecodePool \ {d} : running'[e] = running[e]
  BY DEF TypeOK
<1>2. \A x : x \in Batched <=> \E e \in DecodePool : x \in running[e]
  BY DEF Batched
<1>3. \A x : x \in Batched' <=> \E e \in DecodePool : x \in running'[e]
  BY DEF Batched
<1>4. ASSUME NEW x \in Batched' PROVE x \in Batched \cup {r}
  <2>1. PICK e \in DecodePool : x \in running'[e]
    BY <1>3, <1>4
  <2> QED
    BY <1>1, <1>2, <2>1
<1>5. ASSUME NEW x \in Batched \cup {r} PROVE x \in Batched'
  <2>1. CASE x = r
    BY <1>1, <1>3, <2>1
  <2>2. CASE x # r
    <3>1. PICK e \in DecodePool : x \in running[e]
      BY <1>2, <1>5, <2>2
    <3> QED
      BY <1>1, <1>3, <3>1
  <2> QED
    BY <2>1, <2>2
<1> QED
  BY <1>1, <1>4, <1>5

LEMMA EnterPlaces ==
  ASSUME TypeOK, NoLostRequest, waitingDecode # << >>, NEW d \in DecodePool, Enter(d)
  PROVE  /\ NoLostRequest' /\ Head(waitingDecode) \in Requests
         /\ Head(waitingDecode) \in Items(waitingDecode)
         /\ Head(waitingDecode) \notin Batched
         /\ waitingDecode' \in Seq(Requests)
         /\ Items(waitingDecode') = Items(waitingDecode) \ {Head(waitingDecode)}
         /\ Batched' = Batched \cup {Head(waitingDecode)}
         /\ running'[d] = running[d] \cup {Head(waitingDecode)}
         /\ \A e \in DecodePool \ {d} : running'[e] = running[e]
         /\ running' \in [DecodePool -> SUBSET Requests]
<1> DEFINE r == Head(waitingDecode)
<1>1. /\ waitingDecode' = Tail(waitingDecode)
      /\ running' = [running EXCEPT ![d] = running[d] \cup {r}]
      /\ UNCHANGED <<arrived, waitingPrefill, current, transfers, completed>>
  BY DEF Enter, prefill
<1>2. /\ r \in Requests /\ r \in Items(waitingDecode)
      /\ waitingDecode' \in Seq(Requests) /\ Distinct(waitingDecode')
      /\ Items(waitingDecode') = Items(waitingDecode) \ {r}
  BY <1>1, QueuesAre, ItemsAre, TailQueue
<1> HIDE DEF r
<1>3. r \notin Batched
  BY <1>2, QueuesAre DEF InOnePlace, Apart
<1>4. /\ Batched' = Batched \cup {r} /\ running'[d] = running[d] \cup {r}
      /\ \A e \in DecodePool \ {d} : running'[e] = running[e]
  BY <1>1, BatchedWith
<1>5. running' \in [DecodePool -> SUBSET Requests]
  BY <1>1, <1>2 DEF TypeOK
<1>6. OneReplica'
  <2>1. \A e \in DecodePool \ {d} : r \notin running[e]
    BY <1>3, OnReplica
  <2>2. \A e, f \in DecodePool : e # f => running'[e] \cap running'[f] = {}
    BY <1>4, <2>1, LostNone DEF OneReplica
  <2> QED
    BY <1>1, <2>2, LostNone DEF OneReplica
<1>7. InOnePlace'
  <2>1. Prefilling' = Prefilling /\ Items(waitingPrefill') = Items(waitingPrefill)
    BY <1>1 DEF Prefilling
  <2> QED
    BY <1>1, <1>2, <1>4, <2>1, QueuesAre DEF InOnePlace, Apart
<1> QED
  BY <1>1, <1>2, <1>3, <1>4, <1>5, <1>6, <1>7, LostNone, LostNoneNext DEF r

LEMMA PreemptPlaces ==
  ASSUME TypeOK, NoLostRequest, Preempt
  PROVE  LET d == Min(Startable)
             v == Max(running[d])
         IN  /\ NoLostRequest' /\ d \in Startable /\ d \in DecodePool
             /\ v \in running[d] /\ v \in Requests /\ v \in Batched
             /\ waitingPrefill' \in Seq(Requests)
             /\ Items(waitingPrefill') = {v} \cup Items(waitingPrefill)
             /\ Batched' = Batched \ {v}
             /\ running' = [running EXCEPT ![d] = running[d] \ {v}]
<1> DEFINE d == Min(Startable)
           v == Max(running[d])
<1>1. /\ Startable # {}
      /\ running' = [running EXCEPT ![d] = running[d] \ {v}]
      /\ waitingPrefill' = <<v>> \o waitingPrefill
      /\ UNCHANGED <<arrived, current, transfers, waitingDecode, completed>>
  BY DEF Preempt, Requeue
<1>2. d \in Startable /\ d \in DecodePool /\ running[d] # {}
  BY <1>1, Chosen DEF Startable
<1>3. v \in running[d]
  BY <1>2, Chosen
<1> HIDE DEF d, v
<1>4. v \in Requests /\ v \in Batched /\ v \notin Items(waitingPrefill)
  BY <1>2, <1>3, OnReplica, Typing, QueuesAre DEF InOnePlace, Apart
<1>5. /\ waitingPrefill' \in Seq(Requests) /\ Distinct(waitingPrefill')
      /\ Items(waitingPrefill') = {v} \cup Items(waitingPrefill)
  BY <1>1, <1>4, QueuesAre, ItemsAre, PushQueue
<1>6. /\ running'[d] = running[d] \ {v}
      /\ \A e \in DecodePool \ {d} : running'[e] = running[e] /\ v \notin running[e]
  BY <1>1, <1>2, <1>3, LostNone DEF TypeOK, OneReplica
<1>7. Batched' = Batched \ {v}
  <2>1. ASSUME NEW x \in Batched' PROVE x \in Batched \ {v}
    <3>1. PICK e \in DecodePool : x \in running'[e]
      BY DEF Batched
    <3>2. x \in running[e] /\ x # v
      BY <1>6, <3>1
    <3> QED
      BY <3>2 DEF Batched
  <2>2. ASSUME NEW x \in Batched \ {v} PROVE x \in Batched'
    <3>1. PICK e \in DecodePool : x \in running[e]
      BY DEF Batched
    <3>2. x \in running'[e]
      BY <1>6, <2>2, <3>1
    <3> QED
      BY <3>2 DEF Batched
  <2> QED
    BY <2>1, <2>2
<1>8. OneReplica'
  <2>1. \A e \in DecodePool : running'[e] \in SUBSET running[e]
    BY <1>6
  <2> QED
    BY <1>1, <2>1, LostNone DEF OneReplica
<1>9. InOnePlace'
  <2>1. Prefilling' = Prefilling /\ Items(waitingDecode') = Items(waitingDecode)
    BY <1>1 DEF Prefilling
  <2>2. Apart(Items(waitingPrefill), Prefilling, Items(transfers), Items(waitingDecode),
              Batched, completed, 1 .. arrived)
    BY QueuesAre DEF InOnePlace
  <2>3. Apart({v} \cup Items(waitingPrefill), Prefilling, Items(transfers), Items(waitingDecode),
              Batched \ {v}, completed, 1 .. arrived)
    BY <1>4, <2>2 DEF Apart
  <2> QED
    BY <1>1, <1>5, <1>7, <2>1, <2>3 DEF InOnePlace
<1> QED
  BY <1>1, <1>2, <1>3, <1>4, <1>5, <1>7, <1>8, <1>9, LostNone, LostNoneNext DEF d, v

-----------------------------------------------------------------------------
(***************************************************************************)
(* The inductive invariant.  TokenConservation is not inductive alone: the *)
(* request that arrives next must hold nothing, and who emits must sit on  *)
(* a replica and nowhere else.                                             *)
(***************************************************************************)
Unarrived == \A r \in Requests : r > arrived => context[r] = 0

IInv == TypeOK /\ NoLostRequest /\ TokenConservation /\ BatchIntact /\ Unarrived

LEMMA InitInv == Init => IInv
<1> SUFFICES ASSUME Init PROVE IInv
  OBVIOUS
<1>1. /\ prompt \in [Requests -> PromptLens] /\ output \in [Requests -> OutputLens]
      /\ pc = "event" /\ arrived = 0 /\ waitingPrefill = << >>
      /\ current = [i \in PrefillPool |-> None] /\ transfers = << >> /\ waitingDecode = << >>
      /\ running = [d \in DecodePool |-> {}] /\ iterBatch = [d \in DecodePool |-> {}]
      /\ completed = {} /\ context = [r \in Requests |-> 0] /\ gen = [r \in Requests |-> 0]
      /\ kvUsed = [d \in DecodePool |-> 0] /\ kvReserved = [d \in DecodePool |-> 0]
      /\ peakKv = 0 /\ forced = FALSE /\ victims = FALSE
  BY DEF Init
<1>2. TypeOK
  <2>1. /\ kvUsed \in [DecodePool -> Int] /\ kvReserved \in [DecodePool -> Int]
        /\ context \in [Requests -> Nat] /\ gen \in [Requests -> Nat] /\ peakKv \in Int
        /\ running \in [DecodePool -> SUBSET Requests]
        /\ iterBatch \in [DecodePool -> SUBSET Requests]
        /\ current \in [PrefillPool -> Requests \cup {None}]
    BY <1>1
  <2>2. forced \in BOOLEAN /\ victims \in BOOLEAN
    BY <1>1, Zenon
  <2>3. /\ waitingPrefill \in Seq(Requests) /\ waitingDecode \in Seq(Requests)
        /\ transfers \in Seq(Requests)
    <3>1. << >> \in Seq(Requests)
      OBVIOUS
    <3> QED
      BY <1>1, <3>1, Zenon
  <2>4. arrived \in 0 .. N /\ completed \in SUBSET Requests
    BY <1>1, DisaggAssumption
  <2> QED
    BY <1>1, <2>1, <2>2, <2>3, <2>4, Zenon DEF TypeOK
<1>3. /\ Items(waitingPrefill) = {} /\ Items(transfers) = {} /\ Items(waitingDecode) = {}
      /\ Prefilling = {} /\ Batched = {}
  <2>1. Items(<< >>) = {}
    BY DEF Items
  <2>2. Prefilling = {}
    BY <1>1 DEF Prefilling
  <2>3. Batched = {}
    BY <1>1 DEF Batched
  <2> QED
    BY <1>1, <2>1, <2>2, <2>3, Zenon
<1>4. NoLostRequest
  <2>1. Len(waitingPrefill) = 0 /\ Len(transfers) = 0 /\ Len(waitingDecode) = 0
    BY <1>1
  <2>2. Distinct(waitingPrefill) /\ Distinct(transfers) /\ Distinct(waitingDecode)
    BY <2>1 DEF Distinct
  <2>3. OneReplica
    BY <1>1 DEF OneReplica
  <2>4. InOnePlace
    <3>1. 1 .. 0 = {}
      OBVIOUS
    <3> QED
      BY <1>1, <1>3, <3>1 DEF InOnePlace, Apart
  <2> QED
    BY <2>2, <2>3, <2>4, LostNone
<1>5. TokenConservation
  <2>1. \A r \in Requests : gen[r] < output[r]
    BY <1>1, <1>2, Typing
  <2> QED
    BY <1>1, <1>3, <2>1 DEF TokenConservation
<1>6. BatchIntact
  BY <1>1, FS_EmptySet, DisaggAssumption DEF BatchIntact
<1>7. Unarrived
  BY <1>1 DEF Unarrived
<1> QED
  BY <1>2, <1>4, <1>5, <1>6, <1>7 DEF IInv

\* The dispatch loops' ends and a stutter move no request.
LEMMA QuietInv ==
  ASSUME IInv, UNCHANGED <<lens, arrived, prefill, transfers, decode, completed, reqs, kv>>,
         pc' \in {"event", "prefill", "admit", "force", "start"}, victims' \in BOOLEAN
  PROVE  IInv'
<1> USE DEF IInv
<1>1. TypeOK'
  BY DEF TypeOK, lens, prefill, decode, reqs, kv
<1>2. NoLostRequest' /\ Prefilling' = Prefilling /\ Batched' = Batched
  BY UnmovedPlaces DEF decode
<1>3. TokenConservation' /\ BatchIntact' /\ Unarrived'
  BY <1>2 DEF TokenConservation, BatchIntact, Unarrived, lens, prefill, decode, reqs
<1> QED
  BY <1>1, <1>2, <1>3

LEMMA ArrivalInv == ASSUME IInv, Arrival PROVE IInv'
<1> USE DEF IInv
<1>1. /\ NoLostRequest' /\ waitingPrefill' \in Seq(Requests) /\ arrived' \in 0 .. N
      /\ Items(waitingPrefill') = Items(waitingPrefill) \cup {arrived + 1}
  BY ArrivalPlaces
<1>2. /\ pc' = "prefill" /\ arrived' = arrived + 1
      /\ UNCHANGED <<lens, current, transfers, decode, completed, reqs, kv, victims>>
  BY DEF Arrival
<1>3. TypeOK'
  BY <1>1, <1>2 DEF TypeOK, lens, decode, reqs, kv
<1>4. arrived + 1 \in Requests /\ arrived + 1 > arrived
  <2>1. N \in Nat /\ arrived \in 0 .. N /\ arrived < N /\ Requests = 1 .. N
    BY Typing DEF TypeOK, Arrival
  <2> QED
    BY <2>1
<1>5. context[arrived + 1] = 0
  BY <1>4 DEF Unarrived
<1>6. TokenConservation'
  <2>1. Prefilling' = Prefilling /\ Batched' = Batched
    BY <1>2 DEF Prefilling, Batched, decode
  <2> QED
    BY <1>1, <1>2, <1>5, <2>1 DEF TokenConservation, lens, decode, reqs
<1>7. BatchIntact'
  BY <1>2 DEF BatchIntact, decode
<1>8. Unarrived'
  <2>1. \A r \in Requests : r > arrived + 1 => r > arrived
    <3>1. arrived \in 0 .. N /\ N \in Nat /\ Requests = 1 .. N
      BY Typing DEF TypeOK
    <3> QED
      BY <3>1
  <2> QED
    BY <1>2, <2>1 DEF Unarrived, reqs
<1> QED
  BY <1>1, <1>3, <1>6, <1>7, <1>8

\* A request that has a place has arrived.
LEMMA PlacedArrived ==
  ASSUME TypeOK, NoLostRequest
  PROVE  \A r \in Requests : r > arrived =>
           /\ r \notin Items(waitingPrefill) /\ r \notin Prefilling /\ r \notin Items(transfers)
           /\ r \notin Items(waitingDecode) /\ r \notin Batched /\ r \notin completed
<1>1. \A r \in Requests : r > arrived => r \notin 1 .. arrived
  BY Typing DEF TypeOK
<1> QED
  BY <1>1, QueuesAre DEF InOnePlace, Apart

LEMMA PrefillDoneInv ==
  ASSUME IInv, NEW i \in PrefillPool, PrefillDone(i)
  PROVE  IInv'
<1> USE DEF IInv
<1> DEFINE r == current[i]
<1>1. /\ NoLostRequest' /\ r \in Requests /\ Prefilling' = Prefilling \ {r}
      /\ current' \in [PrefillPool -> Requests \cup {None}]
      /\ transfers' \in Seq(Requests) /\ Items(transfers') = Items(transfers) \cup {r}
  BY PrefillDonePlaces
<1>2. /\ pc' = "prefill" /\ context' = [context EXCEPT ![r] = Target(r)]
      /\ r # None
      /\ UNCHANGED <<lens, arrived, waitingPrefill, decode, completed, gen, kv, victims>>
  BY DEF PrefillDone
<1>3. r \in Prefilling
  BY <1>2, OnReplica
<1> HIDE DEF r
<1>4. Target(r) \in Nat /\ Target(r) = prompt[r] + gen[r]
  BY <1>1, Typing DEF Target
<1>5. context'[r] = Target(r) /\ \A s \in Requests \ {r} : context'[s] = context[s]
  BY <1>1, <1>2 DEF TypeOK
<1>6. TypeOK'
  BY <1>1, <1>2, <1>4 DEF TypeOK, lens, decode, kv
<1>7. TokenConservation'
  <2>1. /\ Items(waitingPrefill') = Items(waitingPrefill)
        /\ Items(waitingDecode') = Items(waitingDecode) /\ Batched' = Batched
    BY <1>2 DEF Batched, decode
  <2>2. \A s \in Items(transfers) \cup Items(waitingDecode) \cup Batched : s \in Requests \ {r}
    BY <1>3, QueuesAre DEF InOnePlace, Apart
  <2>3. \A s \in Items(waitingPrefill) : s \in Requests \ {r}
    BY <1>3, QueuesAre DEF InOnePlace, Apart
  <2>4. \A s \in Prefilling : s \in Requests
    BY QueuesAre DEF InOnePlace, Apart
  <2>5. \A s \in Items(transfers') \cup Items(waitingDecode') \cup Batched' :
          context'[s] = prompt[s] + gen[s]
    BY <1>1, <1>2, <1>4, <1>5, <2>1, <2>2 DEF TokenConservation
  <2>6. \A s \in Items(waitingPrefill') \cup Prefilling' : context'[s] = 0
    BY <1>1, <1>5, <2>1, <2>3, <2>4 DEF TokenConservation
  <2> QED
    BY <1>2, <2>5, <2>6 DEF TokenConservation, lens
<1>8. BatchIntact'
  BY <1>2 DEF BatchIntact, decode
<1>9. Unarrived'
  <2>1. \A s \in Requests : s > arrived => s # r
    BY <1>3, PlacedArrived
  <2> QED
    BY <1>2, <1>5, <2>1 DEF Unarrived
<1> QED
  BY <1>1, <1>6, <1>7, <1>8, <1>9

LEMMA TransferDoneInv ==
  ASSUME IInv, NEW k \in Requests, TransferDone(k)
  PROVE  IInv'
<1> USE DEF IInv
<1>1. /\ NoLostRequest' /\ waitingDecode' \in Seq(Requests)
      /\ transfers' \in Seq(Requests) /\ Items(transfers') \in SUBSET Items(transfers)
      /\ Items(waitingDecode') = Items(waitingDecode) \cup {transfers[k]}
      /\ transfers[k] \in Items(transfers)
  BY TransferDonePlaces
<1>2. /\ pc' = "admit"
      /\ UNCHANGED <<lens, arrived, prefill, running, iterBatch, completed, reqs, kv, victims>>
  BY DEF TransferDone
<1>3. TypeOK'
  BY <1>1, <1>2 DEF TypeOK, lens, prefill, reqs, kv
<1>4. TokenConservation'
  <2>1. Prefilling' = Prefilling /\ Batched' = Batched /\ waitingPrefill' = waitingPrefill
    BY <1>2 DEF Prefilling, Batched, prefill
  <2> QED
    BY <1>1, <1>2, <2>1 DEF TokenConservation, lens, reqs
<1>5. BatchIntact' /\ Unarrived'
  BY <1>2 DEF BatchIntact, Unarrived, reqs
<1> QED
  BY <1>1, <1>3, <1>4, <1>5

\* What the end of an iteration does to the token counts.
LEMMA DecodeDoneTokens ==
  ASSUME IInv, NEW d \in DecodePool, DecodeDone(d)
  PROVE  /\ iterBatch[d] \in SUBSET running[d] /\ running[d] \in SUBSET Batched
         /\ \A s \in iterBatch[d] : /\ s \in Requests /\ s \notin completed
                                    /\ context'[s] = context[s] + 1
                                    /\ gen'[s] = gen[s] + 1
                                    /\ gen[s] < output[s]
                                    /\ s \in Finishing(d) <=> gen[s] + 1 = output[s]
         /\ \A s \in Requests \ iterBatch[d] :
              context'[s] = context[s] /\ gen'[s] = gen[s]
         /\ context' \in [Requests -> Nat] /\ gen' \in [Requests -> Nat]
<1> USE DEF IInv
<1>1. /\ gen' = [r \in Requests |-> IF r \in iterBatch[d] THEN gen[r] + 1 ELSE gen[r]]
      /\ context' = [r \in Requests |->
                       IF r \in iterBatch[d] THEN context[r] + 1 ELSE context[r]]
  BY DEF DecodeDone, Emitting
<1>2. iterBatch[d] \in SUBSET running[d] /\ running[d] \in SUBSET Batched
  BY OnReplica DEF BatchIntact
<1>3. \A r \in Requests : context[r] \in Nat /\ gen[r] \in Nat /\ output[r] \in Nat
  BY Typing
<1>4. context' \in [Requests -> Nat] /\ gen' \in [Requests -> Nat]
  <2>1. \A r \in Requests : context[r] + 1 \in Nat /\ gen[r] + 1 \in Nat
    BY <1>3
  <2> QED
    BY <1>1, <1>3, <2>1
<1>5. ASSUME NEW s \in iterBatch[d]
      PROVE  /\ s \in Requests /\ s \notin completed /\ gen[s] < output[s]
             /\ s \in Finishing(d) <=> gen[s] + 1 = output[s]
  <2>1. s \in Requests /\ s \notin completed
    BY <1>2, Typing, QueuesAre DEF InOnePlace, Apart
  <2>2. gen[s] < output[s]
    BY <2>1 DEF TokenConservation
  <2>3. s \in Finishing(d) <=> gen[s] + 1 >= output[s]
    BY DEF Finishing, Emitting
  <2> QED
    BY <1>3, <2>1, <2>2, <2>3
<1> QED
  BY <1>1, <1>2, <1>4, <1>5

LEMMA DecodeDoneInv ==
  ASSUME IInv, NEW d \in DecodePool, DecodeDone(d)
  PROVE  IInv'
<1> USE DEF IInv
<1>1. /\ NoLostRequest' /\ completed' = completed \cup Finishing(d)
      /\ running' = [running EXCEPT ![d] = running[d] \ Finishing(d)]
      /\ Batched' = Batched \ Finishing(d) /\ Finishing(d) \in SUBSET running[d]
  BY DecodeDonePlaces
<1>2. /\ iterBatch' = [iterBatch EXCEPT ![d] = {}] /\ pc' = "admit"
      /\ UNCHANGED <<lens, arrived, prefill, transfers, waitingDecode, forced, victims>>
  BY DEF DecodeDone
<1>3. /\ iterBatch[d] \in SUBSET running[d] /\ running[d] \in SUBSET Batched
      /\ \A s \in iterBatch[d] : /\ s \in Requests /\ s \notin completed
                                 /\ context'[s] = context[s] + 1
                                 /\ gen'[s] = gen[s] + 1 /\ gen[s] < output[s]
                                 /\ s \in Finishing(d) <=> gen[s] + 1 = output[s]
      /\ \A s \in Requests \ iterBatch[d] : context'[s] = context[s] /\ gen'[s] = gen[s]
      /\ context' \in [Requests -> Nat] /\ gen' \in [Requests -> Nat]
  BY DecodeDoneTokens
<1>4. /\ running[d] \in SUBSET Requests /\ Finishing(d) \in SUBSET iterBatch[d]
      /\ IsFiniteSet(running[d])
  BY Typing
<1>5. TypeOK'
  <2>1. kvUsed' \in [DecodePool -> Int] /\ peakKv' \in Int
    <3> DEFINE grown == kvUsed[d] + Growth(d)
               gone == Total(Longer, Finishing(d))
    <3>1. /\ kvUsed' = [kvUsed EXCEPT ![d] = grown - gone]
          /\ peakKv' = Larger(peakKv, grown)
      BY DEF DecodeDone, Longer
    <3>2. grown \in Int /\ gone \in Int
      <4>1. Finishing(d) \in SUBSET Requests
        BY <1>3, <1>4
      <4>2. kvUsed[d] \in Int /\ Growth(d) \in Nat
        BY SumTypes DEF TypeOK
      <4> QED
        BY <4>1, <4>2, SumTypes
    <3> HIDE DEF grown, gone
    <3> QED
      BY <3>1, <3>2 DEF TypeOK, Larger
  <2>2. kvReserved' \in [DecodePool -> Int]
    <3> DEFINE gone == Total(Full, Finishing(d))
    <3>1. kvReserved' = IF OnDemand THEN kvReserved
                        ELSE [kvReserved EXCEPT ![d] = kvReserved[d] - gone]
      BY DEF DecodeDone, Full
    <3>2. gone \in Int
      <4>1. Finishing(d) \in SUBSET Requests
        BY <1>3, <1>4
      <4> QED
        BY <4>1, SumTypes
    <3> HIDE DEF gone
    <3> QED
      BY <3>1, <3>2 DEF TypeOK
  <2>3. completed' \in SUBSET Requests /\ running' \in [DecodePool -> SUBSET Requests]
        /\ iterBatch' \in [DecodePool -> SUBSET Requests]
    BY <1>1, <1>2, <1>4 DEF TypeOK
  <2> QED
    BY <1>2, <1>3, <2>1, <2>2, <2>3 DEF TypeOK, lens, prefill
<1>6. TokenConservation'
  <2>1. /\ Prefilling' = Prefilling /\ waitingPrefill' = waitingPrefill
        /\ prompt' = prompt /\ output' = output
    BY <1>2 DEF Prefilling, prefill, lens
  <2>2. ASSUME NEW s \in Items(transfers') \cup Items(waitingDecode') \cup Batched'
        PROVE  context'[s] = prompt'[s] + gen'[s]
    <3>1. s \in Requests /\ context[s] = prompt[s] + gen[s]
      <4>1. s \in Items(transfers) \cup Items(waitingDecode) \cup Batched
        BY <1>1, <1>2
      <4> QED
        BY <4>1, QueuesAre DEF InOnePlace, Apart, TokenConservation
    <3>2. prompt[s] \in Nat /\ gen[s] \in Nat
      BY <3>1, Typing
    <3> QED
      BY <1>3, <2>1, <3>1, <3>2
  <2>3. ASSUME NEW s \in Items(waitingPrefill') \cup Prefilling'
        PROVE  context'[s] = 0
    <3>1. s \in Requests /\ s \notin Batched /\ context[s] = 0
      BY <2>1, <2>3, QueuesAre DEF InOnePlace, Apart, TokenConservation
    <3>2. s \notin iterBatch[d]
      BY <1>3, <3>1
    <3> QED
      BY <1>3, <3>1, <3>2
  <2>4. ASSUME NEW s \in Requests
        PROVE  IF s \in completed' THEN gen'[s] = output'[s] ELSE gen'[s] < output'[s]
    <3>1. gen[s] \in Nat /\ output[s] \in Nat
      BY Typing
    <3>2. IF s \in completed THEN gen[s] = output[s] ELSE gen[s] < output[s]
      BY DEF TokenConservation
    <3>3. CASE s \in iterBatch[d]
      BY <1>1, <1>3, <2>1, <3>1, <3>3
    <3>4. CASE s \notin iterBatch[d]
      BY <1>1, <1>3, <1>4, <2>1, <3>2, <3>4
    <3> QED
      BY <3>3, <3>4
  <2> QED
    BY <2>2, <2>3, <2>4 DEF TokenConservation
<1>7. BatchIntact'
  <2> SUFFICES ASSUME NEW e \in DecodePool
               PROVE  iterBatch'[e] \subseteq running'[e] /\ Cardinality(running'[e]) <= MaxBatch
    BY DEF BatchIntact
  <2>1. iterBatch[e] \subseteq running[e] /\ Cardinality(running[e]) <= MaxBatch
    BY DEF BatchIntact
  <2>2. CASE e = d
    <3>1. iterBatch'[d] = {} /\ running'[d] \in SUBSET running[d]
      BY <1>1, <1>2 DEF TypeOK
    <3>2. Cardinality(running'[d]) <= Cardinality(running[d])
      BY <1>4, <3>1, FS_Subset
    <3>3. Cardinality(running[d]) \in Nat /\ Cardinality(running'[d]) \in Nat
      BY <1>4, <3>1, FS_Subset, FS_CardinalityType
    <3> QED
      BY <2>1, <2>2, <3>1, <3>2, <3>3, DisaggAssumption
  <2>3. CASE e # d
    <3>1. iterBatch'[e] = iterBatch[e] /\ running'[e] = running[e]
      BY <1>1, <1>2, <2>3 DEF TypeOK
    <3> QED
      BY <2>1, <3>1
  <2> QED
    BY <2>2, <2>3
<1>8. Unarrived'
  <2>1. \A s \in Requests : s > arrived => s \notin iterBatch[d]
    BY <1>3, PlacedArrived
  <2> QED
    BY <1>2, <1>3, <2>1 DEF Unarrived
<1> QED
  BY <1>1, <1>5, <1>6, <1>7, <1>8

LEMMA StartPrefillInv == ASSUME IInv, StartPrefill PROVE IInv'
<1> USE DEF IInv
<1> DEFINE r == Head(waitingPrefill)
           i == Min(FreePrefillReplicas)
<1>1. /\ NoLostRequest' /\ r \in Requests /\ r \in Items(waitingPrefill)
      /\ waitingPrefill' \in Seq(Requests)
      /\ current' \in [PrefillPool -> Requests \cup {None}]
      /\ Items(waitingPrefill') = Items(waitingPrefill) \ {r}
      /\ Prefilling' = Prefilling \cup {r}
  BY StartPrefillPlaces
<1>2. /\ context' = [context EXCEPT ![r] = 0]
      /\ UNCHANGED <<lens, pc, arrived, transfers, decode, completed, gen, kv, victims>>
  BY DEF StartPrefill
<1> HIDE DEF r
<1>3. context' = context
  <2>1. context[r] = 0 /\ context \in [Requests -> Nat]
    BY <1>1 DEF TokenConservation, TypeOK
  <2> QED
    BY <1>1, <1>2, <2>1
<1>4. TypeOK'
  BY <1>1, <1>2, <1>3 DEF TypeOK, lens, decode, kv
<1>5. TokenConservation'
  <2>1. waitingDecode' = waitingDecode /\ Batched' = Batched
    BY <1>2 DEF Batched, decode
  <2>2. context[r] = 0
    BY <1>1 DEF TokenConservation
  <2> QED
    BY <1>1, <1>2, <1>3, <2>1, <2>2 DEF TokenConservation, lens
<1>6. BatchIntact' /\ Unarrived'
  BY <1>2, <1>3 DEF BatchIntact, Unarrived, decode
<1> QED
  BY <1>1, <1>4, <1>5, <1>6

LEMMA EnterInv ==
  ASSUME IInv, waitingDecode # << >>, NEW d \in DecodePool, Enter(d),
         Cardinality(running[d]) < MaxBatch
  PROVE  IInv'
<1> USE DEF IInv
<1> DEFINE r == Head(waitingDecode)
<1>1. /\ NoLostRequest' /\ r \in Requests /\ r \in Items(waitingDecode)
      /\ waitingDecode' \in Seq(Requests)
      /\ Items(waitingDecode') = Items(waitingDecode) \ {r}
      /\ Batched' = Batched \cup {r} /\ running'[d] = running[d] \cup {r}
      /\ \A e \in DecodePool \ {d} : running'[e] = running[e]
      /\ running' \in [DecodePool -> SUBSET Requests]
  BY EnterPlaces
<1>2. /\ kvUsed' = [kvUsed EXCEPT ![d] = kvUsed[d] + KvBytes(context[r])]
      /\ kvReserved' = IF OnDemand THEN kvReserved
                       ELSE [kvReserved EXCEPT ![d] = kvReserved[d] + FullFp(r)]
      /\ peakKv' = Larger(peakKv, kvUsed'[d])
      /\ UNCHANGED <<lens, pc, arrived, prefill, transfers, iterBatch, completed, reqs,
                     forced, victims>>
  BY DEF Enter
<1> HIDE DEF r
<1>3. TypeOK'
  <2>1. KvBytes(context[r]) \in Nat /\ FullFp(r) \in Nat
    BY <1>1, Typing
  <2>2. kvUsed' \in [DecodePool -> Int] /\ kvReserved' \in [DecodePool -> Int]
    BY <1>2, <2>1 DEF TypeOK
  <2>3. peakKv' \in Int
    BY <1>2, <2>2 DEF TypeOK, Larger
  <2> QED
    BY <1>1, <1>2, <2>2, <2>3 DEF TypeOK, lens, prefill, reqs
<1>4. TokenConservation'
  <2>1. Prefilling' = Prefilling /\ waitingPrefill' = waitingPrefill
    BY <1>2 DEF Prefilling, prefill
  <2> QED
    BY <1>1, <1>2, <2>1 DEF TokenConservation, lens, reqs
<1>5. BatchIntact'
  <2> SUFFICES ASSUME NEW e \in DecodePool
               PROVE  iterBatch'[e] \subseteq running'[e] /\ Cardinality(running'[e]) <= MaxBatch
    BY DEF BatchIntact
  <2>1. iterBatch[e] \subseteq running[e] /\ Cardinality(running[e]) <= MaxBatch
    BY DEF BatchIntact
  <2>2. CASE e = d
    <3>1. IsFiniteSet(running[d]) /\ Cardinality(running[d]) \in Nat
      BY Typing, FS_CardinalityType
    <3>2. Cardinality(running[d] \cup {r}) \in {Cardinality(running[d]), Cardinality(running[d]) + 1}
      BY <3>1, FS_AddElement
    <3>3. Cardinality(running[d] \cup {r}) <= MaxBatch
      BY <3>1, <3>2, DisaggAssumption
    <3>4. iterBatch'[e] \subseteq running'[e]
      BY <1>1, <1>2, <2>1, <2>2
    <3> QED
      BY <1>1, <2>2, <3>3, <3>4
  <2>3. CASE e # d
    BY <1>1, <1>2, <2>1, <2>3
  <2> QED
    BY <2>2, <2>3
<1>6. Unarrived'
  BY <1>2 DEF Unarrived, reqs
<1> QED
  BY <1>1, <1>3, <1>4, <1>5, <1>6

\* The replica a request enters has a slot, whether it has headroom or is empty.
LEMMA EntersWithSlot ==
  ASSUME TypeOK, Admit \/ ForceAdmit
  PROVE  \E d \in DecodePool :
           /\ Enter(d) /\ waitingDecode # << >> /\ Cardinality(running[d]) < MaxBatch
           /\ CanAdmit(d, Head(waitingDecode)) \/ running[d] = {}
<1>1. CASE Admit
  <2>1. LeastLoaded(Head(waitingDecode)) \in Open(Head(waitingDecode))
    BY <1>1, LeastLoadedOpen DEF Admit
  <2> QED
    BY <1>1, <2>1 DEF Admit, Open, CanAdmit
<1>2. CASE ForceAdmit
  <2>1. Min(Empty) \in Empty
    BY <1>2, Chosen DEF ForceAdmit, MustForce
  <2>2. Cardinality({}) < MaxBatch
    BY FS_EmptySet, DisaggAssumption
  <2> QED
    BY <1>2, <2>1, <2>2 DEF ForceAdmit, MustForce, Empty
<1> QED
  BY <1>1, <1>2

LEMMA PreemptInv == ASSUME IInv, Preempt PROVE IInv'
<1> USE DEF IInv
<1> DEFINE d == Min(Startable)
           v == Max(running[d])
<1>1. /\ NoLostRequest' /\ d \in Startable /\ d \in DecodePool
      /\ v \in running[d] /\ v \in Requests /\ v \in Batched
      /\ waitingPrefill' \in Seq(Requests)
      /\ Items(waitingPrefill') = {v} \cup Items(waitingPrefill)
      /\ Batched' = Batched \ {v}
      /\ running' = [running EXCEPT ![d] = running[d] \ {v}]
  BY PreemptPlaces
<1>2. /\ kvUsed' = [kvUsed EXCEPT ![d] = kvUsed[d] - KvBytes(context[v])]
      /\ context' = [context EXCEPT ![v] = 0] /\ victims' = TRUE
      /\ UNCHANGED <<lens, pc, arrived, current, transfers, waitingDecode, iterBatch,
                     completed, gen, kvReserved, peakKv, forced>>
  BY DEF Preempt
<1> HIDE DEF d, v
<1>3. context'[v] = 0 /\ \A s \in Requests \ {v} : context'[s] = context[s]
  BY <1>1, <1>2 DEF TypeOK
<1>4. TypeOK'
  <2>1. KvBytes(context[v]) \in Nat
    BY <1>1, Typing
  <2>2. kvUsed' \in [DecodePool -> Int]
    BY <1>1, <1>2, <2>1 DEF TypeOK
  <2>3. running' \in [DecodePool -> SUBSET Requests] /\ context' \in [Requests -> Nat]
    BY <1>1, <1>2 DEF TypeOK
  <2>4. victims' \in BOOLEAN
    BY <1>2, Zenon
  <2> QED
    BY <1>1, <1>2, <2>2, <2>3, <2>4 DEF TypeOK, lens
<1>5. TokenConservation'
  <2>1. Prefilling' = Prefilling /\ prompt' = prompt /\ output' = output
    BY <1>2 DEF Prefilling, lens
  <2>2. \A s \in Items(transfers) \cup Items(waitingDecode) \cup (Batched \ {v}) : s \in Requests \ {v}
    BY <1>1, QueuesAre DEF InOnePlace, Apart
  <2>3. \A s \in Items(transfers') \cup Items(waitingDecode') \cup Batched' :
          context'[s] = prompt[s] + gen[s]
    BY <1>1, <1>2, <1>3, <2>2 DEF TokenConservation
  <2>4. \A s \in Items(waitingPrefill) \cup Prefilling : s \in Requests \ {v}
    BY <1>1, QueuesAre DEF InOnePlace, Apart
  <2>5. \A s \in Items(waitingPrefill') \cup Prefilling' : context'[s] = 0
    BY <1>1, <1>3, <2>1, <2>4 DEF TokenConservation
  <2> QED
    BY <1>2, <2>1, <2>3, <2>5 DEF TokenConservation
<1>6. BatchIntact'
  <2> SUFFICES ASSUME NEW e \in DecodePool
               PROVE  iterBatch'[e] \subseteq running'[e] /\ Cardinality(running'[e]) <= MaxBatch
    BY DEF BatchIntact
  <2>1. iterBatch[e] \subseteq running[e] /\ Cardinality(running[e]) <= MaxBatch
    BY DEF BatchIntact
  <2>2. running'[e] \in SUBSET running[e] /\ (e # d => running'[e] = running[e])
    BY <1>1 DEF TypeOK
  <2>3. e = d => iterBatch[e] = {}
    BY <1>1 DEF Startable
  <2>4. IsFiniteSet(running[e])
    BY Typing
  <2>5. /\ Cardinality(running'[e]) <= Cardinality(running[e])
        /\ Cardinality(running'[e]) \in Nat /\ Cardinality(running[e]) \in Nat
    BY <2>2, <2>4, FS_Subset, FS_CardinalityType
  <2>6. iterBatch'[e] \subseteq running'[e]
    BY <1>2, <2>1, <2>2, <2>3
  <2> QED
    BY <2>1, <2>5, <2>6, DisaggAssumption
<1>7. Unarrived'
  BY <1>2, <1>3 DEF Unarrived
<1> QED
  BY <1>1, <1>4, <1>5, <1>6, <1>7

LEMMA StartIterationInv == ASSUME IInv, StartIteration PROVE IInv'
<1> USE DEF IInv
<1> DEFINE d == Min(Startable)
<1>1. d \in DecodePool
  BY Chosen DEF StartIteration, Startable
<1>2. /\ iterBatch' = [iterBatch EXCEPT ![d] = running[d]]
      /\ forced' = (forced \/ LoneOver(d))
      /\ UNCHANGED <<lens, pc, arrived, prefill, transfers, waitingDecode, running,
                     completed, reqs, kvUsed, kvReserved, peakKv, victims>>
  BY DEF StartIteration
<1> HIDE DEF d
<1>3. TypeOK'
  <2>1. iterBatch' \in [DecodePool -> SUBSET Requests]
    BY <1>1, <1>2 DEF TypeOK
  <2>2. forced' \in BOOLEAN
    BY <1>2
  <2> QED
    BY <1>2, <2>1, <2>2 DEF TypeOK, lens, prefill, reqs
<1>4. NoLostRequest' /\ Prefilling' = Prefilling /\ Batched' = Batched
  BY <1>2, UnmovedPlaces
<1>5. TokenConservation' /\ Unarrived'
  BY <1>2, <1>4 DEF TokenConservation, Unarrived, lens, prefill, reqs
<1>6. BatchIntact'
  BY <1>1, <1>2 DEF BatchIntact, TypeOK
<1> QED
  BY <1>3, <1>4, <1>5, <1>6

\* Every step keeps the inductive invariant.
LEMMA NextInv == ASSUME IInv, [Next]_vars PROVE IInv'
<1> USE DEF IInv
<1>1. CASE Arrival
  BY <1>1, ArrivalInv
<1>2. ASSUME NEW i \in PrefillPool, PrefillDone(i) PROVE IInv'
  BY <1>2, PrefillDoneInv
<1>3. ASSUME NEW k \in Requests, TransferDone(k) PROVE IInv'
  BY <1>3, TransferDoneInv
<1>4. ASSUME NEW d \in DecodePool, DecodeDone(d) PROVE IInv'
  BY <1>4, DecodeDoneInv
<1>5. CASE StartPrefill
  BY <1>5, StartPrefillInv
<1>6. CASE Admit \/ ForceAdmit
  BY <1>6, EntersWithSlot, EnterInv
<1>7. CASE Preempt
  BY <1>7, PreemptInv
<1>8. CASE StartIteration
  BY <1>8, StartIterationInv
<1>9. CASE EndPrefills \/ EndAdmission
  BY <1>9, QuietInv DEF EndPrefills, EndAdmission, TypeOK
<1>10. CASE EndForce
  <2>1. victims' \in BOOLEAN /\ pc' = "start"
    BY <1>10 DEF EndForce
  <2>2. UNCHANGED <<lens, arrived, prefill, transfers, decode, completed, reqs, kv>>
    BY <1>10 DEF EndForce
  <2> QED
    BY <2>1, <2>2, QuietInv
<1>11. CASE EndStarts
  <2>1. pc' \in {"event", "prefill"} /\ victims' \in BOOLEAN
    BY <1>11 DEF EndStarts, AfterStarts, TypeOK
  <2>2. UNCHANGED <<lens, arrived, prefill, transfers, decode, completed, reqs, kv>>
    BY <1>11 DEF EndStarts
  <2> QED
    BY <2>1, <2>2, QuietInv
<1>12. CASE Finished \/ UNCHANGED vars
  <2>1. UNCHANGED <<lens, arrived, prefill, transfers, decode, completed, reqs, kv>>
        /\ pc' = pc /\ victims' = victims
    BY <1>12 DEF Finished, vars
  <2> QED
    BY <2>1, QuietInv DEF TypeOK
<1> QED
  BY <1>1, <1>2, <1>3, <1>4, <1>5, <1>6, <1>7, <1>8, <1>9, <1>10, <1>11, <1>12 DEF Next

LEMMA Invariance == Spec => []IInv
<1>1. IInv /\ [Next]_vars => IInv'
  BY NextInv
<1> QED
  BY InitInv, <1>1, PTL DEF Spec

\* Every variable keeps the type of the code's variable.
THEOREM TypeCorrect == Spec => []TypeOK
<1>1. IInv => TypeOK
  BY DEF IInv
<1> QED
  BY Invariance, <1>1, PTL

\* No request is lost or held twice on its way through the two pools: it is in
\* one queue, on one replica, on the link, or completed.
THEOREM RequestsKept == Spec => []NoLostRequest
<1>1. IInv => NoLostRequest
  BY DEF IInv
<1> QED
  BY Invariance, <1>1, PTL

\* A request holds nothing before its prefill is done, then its prompt and the
\* tokens it emitted, through any preemptions and recomputes, and completes
\* exactly at output_len of them.
THEOREM TokensConserved == Spec => []TokenConservation
<1>1. IInv => TokenConservation
  BY DEF IInv
<1> QED
  BY Invariance, <1>1, PTL

\* An iteration under way keeps everybody it began with, and a replica never
\* runs more than max_batch, with those who joined since.
THEOREM BatchesKept == Spec => []BatchIntact
<1>1. IInv => BatchIntact
  BY DEF IInv
<1> QED
  BY Invariance, <1>1, PTL

\* Only who was on a replica when its iteration began emits, and one token.
THEOREM EmitsOnlyInTurn == Spec => EmitsInTurn
<1> DEFINE Turn == \A r \in Requests : gen'[r] # gen[r] =>
                     /\ \E d \in DecodePool : r \in iterBatch[d]
                     /\ gen'[r] = gen[r] + 1
<1>1. ASSUME IInv, [Next]_vars PROVE [Turn]_gen
  <2>1. ASSUME NEW d \in DecodePool, DecodeDone(d) PROVE Turn
    BY <1>1, <2>1, DecodeDoneTokens
  <2>2. ASSUME NEW i \in PrefillPool, PrefillDone(i) PROVE gen' = gen
    BY <2>2 DEF PrefillDone
  <2>3. ASSUME NEW k \in Requests, TransferDone(k) PROVE gen' = gen
    BY <2>3 DEF TransferDone, reqs
  <2>4. CASE Arrival \/ StartPrefill \/ EndPrefills \/ Admit \/ EndAdmission \/ ForceAdmit
             \/ EndForce \/ Preempt \/ StartIteration \/ EndStarts \/ Finished
             \/ UNCHANGED vars
    BY <2>4 DEF Arrival, StartPrefill, EndPrefills, Admit, EndAdmission, ForceAdmit, Enter,
                EndForce, Preempt, StartIteration, EndStarts, Finished, vars, reqs
  <2> HIDE DEF Turn
  <2> QED
    BY <1>1, <2>1, <2>2, <2>3, <2>4 DEF Next
<1> QED
  BY Invariance, <1>1, PTL DEF Spec, EmitsInTurn

-----------------------------------------------------------------------------
(***************************************************************************)
(* Nothing is idle that has work.  Between events this rests on what each  *)
(* loop of a dispatch leaves behind, while a later loop may undo it: the   *)
(* victims of the start loop wait for a prefill replica until the prefill  *)
(* loop has run again.                                                     *)
(***************************************************************************)
PrefillsBusy == waitingPrefill # << >> => \A i \in PrefillPool : current[i] # None

NoneEmpty == waitingDecode # << >> => \A d \in DecodePool : running[d] # {}

AllIterate == \A d \in DecodePool : running[d] # {} => iterBatch[d] # {}

Busy ==
  /\ pc \in {"event", "admit", "force"} \/ (pc = "start" /\ ~victims) => PrefillsBusy
  /\ pc \in {"event", "prefill", "start"} => NoneEmpty
  /\ pc \in {"event", "prefill"} => AllIterate

LEMMA BusyInit == Init => Busy
BY DEF Init, Busy, PrefillsBusy, NoneEmpty, AllIterate

LEMMA BusyNext == ASSUME IInv, Busy, [Next]_vars PROVE Busy'
<1>1. CASE Arrival
  BY <1>1 DEF Arrival, Loop, Busy, NoneEmpty, AllIterate, decode
<1>2. ASSUME NEW i \in PrefillPool, PrefillDone(i) PROVE Busy'
  BY <1>2 DEF PrefillDone, Loop, Busy, NoneEmpty, AllIterate, decode
<1>3. ASSUME NEW k \in Requests, TransferDone(k) PROVE Busy'
  BY <1>3 DEF TransferDone, Loop, Busy, PrefillsBusy, prefill
<1>4. ASSUME NEW d \in DecodePool, DecodeDone(d) PROVE Busy'
  BY <1>4 DEF DecodeDone, Loop, Busy, PrefillsBusy, prefill
<1>5. CASE StartPrefill
  BY <1>5 DEF StartPrefill, Busy, NoneEmpty, AllIterate, decode
<1>6. CASE EndPrefills
  <2>1. pc = "prefill" /\ UNCHANGED <<prefill, decode>> /\ pc' = "event"
    BY <1>6 DEF EndPrefills
  <2>2. PrefillsBusy'
    <3>1. CASE waitingPrefill = << >>
      BY <2>1, <3>1 DEF PrefillsBusy, prefill
    <3>2. CASE FreePrefillReplicas = {}
      BY <2>1, <3>2 DEF PrefillsBusy, FreePrefillReplicas, prefill
    <3> QED
      BY <1>6, <3>1, <3>2 DEF EndPrefills
  <2> QED
    BY <2>1, <2>2 DEF Busy, NoneEmpty, AllIterate, decode
<1>7. CASE Admit \/ ForceAdmit
  <2>1. pc \in {"admit", "force"} /\ pc' = pc /\ UNCHANGED prefill
    BY <1>7 DEF Admit, ForceAdmit, Enter
  <2> QED
    BY <2>1 DEF Busy, PrefillsBusy, prefill
<1>8. CASE EndAdmission
  BY <1>8 DEF EndAdmission, Busy, PrefillsBusy, prefill
<1>9. CASE EndForce
  BY <1>9 DEF EndForce, MustForce, Empty, Busy, PrefillsBusy, NoneEmpty, prefill, decode
<1>10. CASE Preempt
  <2> DEFINE d == Min(Startable)
             v == Max(running[d])
  <2>1. /\ pc = "start" /\ pc' = "start" /\ victims' = TRUE /\ Overflow(d)
        /\ waitingDecode' = waitingDecode
        /\ running' = [running EXCEPT ![d] = running[d] \ {v}]
    BY <1>10 DEF Preempt
  <2>2. d \in DecodePool /\ v \in running[d]
    BY <1>10, PreemptPlaces DEF IInv
  <2> HIDE DEF d, v
  <2>3. running[d] \ {v} # {}
    <3>1. Cardinality(running[d]) > 1
      BY <2>1 DEF Overflow
    <3>2. CASE running[d] = {v}
      BY <3>1, <3>2, SingletonSize
    <3> QED
      BY <2>2, <3>2
  <2>4. \A e \in DecodePool : running[e] # {} => running'[e] # {}
    BY <2>1, <2>2, <2>3 DEF IInv, TypeOK
  <2> QED
    BY <2>1, <2>4 DEF Busy, NoneEmpty
<1>11. CASE StartIteration
  BY <1>11 DEF StartIteration, Busy, PrefillsBusy, NoneEmpty, prefill
<1>12. CASE EndStarts
  <2>1. /\ pc = "start" /\ Startable = {} /\ pc' = AfterStarts
        /\ UNCHANGED <<prefill, decode, victims>>
    BY <1>12 DEF EndStarts
  <2>2. AllIterate
    BY <2>1 DEF AllIterate, Startable
  <2>3. ~victims => PrefillsBusy
    BY <2>1 DEF Busy
  <2>4. pc' = "prefill" \/ (pc' = "event" /\ ~victims)
    BY <2>1 DEF AfterStarts
  <2> QED
    BY <2>1, <2>2, <2>3, <2>4 DEF Busy, PrefillsBusy, NoneEmpty, AllIterate, prefill, decode
<1>13. CASE Finished \/ UNCHANGED vars
  BY <1>13 DEF Finished, vars, Busy, PrefillsBusy, NoneEmpty, AllIterate, prefill, decode
<1> QED
  BY <1>1, <1>2, <1>3, <1>4, <1>5, <1>6, <1>7, <1>8, <1>9, <1>10, <1>11, <1>12, <1>13
  DEF Next

\* Between events no prefill replica is free while a request waits for one,
\* and no decode replica is empty or at rest while a request waits or sits on
\* it: what the dispatch functions started covers everything they could.
THEOREM NothingIdles == Spec => []WorkConserving
<1>1. IInv /\ Busy /\ [Next]_vars => Busy'
  BY BusyNext
<1>2. Spec => []Busy
  BY Invariance, BusyInit, <1>1, PTL DEF Spec
<1>3. Busy => WorkConserving
  BY DEF Busy, PrefillsBusy, NoneEmpty, AllIterate, WorkConserving
<1> QED
  BY <1>2, <1>3, PTL

-----------------------------------------------------------------------------
(***************************************************************************)
(* Disaggregated serving implements RequestService with the slots of all   *)
(* decode replicas: the two pools, the transfers and the way back of a     *)
(* preempted request are invisible to its submitter.                       *)
(***************************************************************************)
\* The refinement mapping, of the sets it is made of.
WhereIs(done, batch, arr) ==
  [r \in Requests |-> CASE r \in done  -> "done"
                        [] r \in batch -> "batch"
                        [] r > arr     -> "coming"
                        [] OTHER       -> "queued"]

LEMMA PlaceIs == /\ Place = WhereIs(completed, Batched, arrived)
                 /\ Place' = WhereIs(completed', Batched', arrived')
BY DEF Place, WhereIs

LEMMA WhereOne ==
  ASSUME NEW done, NEW batch, NEW arr, NEW r \in Requests, ~(r > arr)
  PROVE  /\ r \in done /\ r \notin batch => WhereIs(done, batch, arr)[r] = "done"
         /\ r \notin done /\ r \in batch => WhereIs(done, batch, arr)[r] = "batch"
         /\ r \notin done /\ r \notin batch => WhereIs(done, batch, arr)[r] = "queued"
<1>1. WhereIs(done, batch, arr)[r] = CASE r \in done  -> "done"
                                       [] r \in batch -> "batch"
                                       [] r > arr     -> "coming"
                                       [] OTHER       -> "queued"
  BY DEF WhereIs
<1> QED
  BY <1>1

\* Who has not arrived is nowhere in the pools.
LEMMA Arrived ==
  ASSUME IInv, NEW r \in Requests
  PROVE  /\ r \in Nat /\ arrived \in Nat
         /\ r \in Items(waitingPrefill) \cup Prefilling \cup Items(transfers)
                    \cup Items(waitingDecode) \cup Batched \cup completed <=> r <= arrived
         /\ r \in Batched => r \notin completed
         /\ r \in Items(waitingDecode) => r \notin completed /\ r \notin Batched
<1> DEFINE Seen == Items(waitingPrefill) \cup Prefilling \cup Items(transfers)
                     \cup Items(waitingDecode) \cup Batched \cup completed
<1>1. r \in Nat /\ arrived \in Nat /\ (r \in 1 .. arrived <=> r <= arrived)
  BY DisaggAssumption DEF IInv, TypeOK, Requests
<1>2. /\ Seen = 1 .. arrived
      /\ Items(waitingDecode) \cap (Batched \cup completed) = {}
      /\ Batched \cap completed = {}
  BY QueuesAre DEF IInv, InOnePlace, Apart
<1>3. /\ r \in Batched => r \notin completed
      /\ r \in Items(waitingDecode) => r \notin completed /\ r \notin Batched
  BY <1>2
<1> HIDE DEF Seen
<1>4. r \in Seen <=> r <= arrived
  BY <1>1, <1>2
<1> QED
  BY <1>1, <1>3, <1>4 DEF Seen

LEMMA PlaceOf ==
  ASSUME IInv, NEW r \in Requests
  PROVE  /\ Place[r] = "done" <=> r \in completed
         /\ Place[r] = "batch" <=> r \in Batched
         /\ Place[r] = "coming" <=> r > arrived
         /\ r \in Items(waitingDecode) => Place[r] = "queued"
<1>1. Place[r] = CASE r \in completed -> "done"
                   [] r \in Batched   -> "batch"
                   [] r > arrived     -> "coming"
                   [] OTHER           -> "queued"
  BY DEF Place
<1>2. r > arrived <=> ~(r <= arrived)
  BY Arrived
<1> QED
  BY <1>1, <1>2, Arrived

LEMMA ServiceRequests == Service!Requests = Requests
BY DEF Service!Requests, Requests

LEMMA BatchSlots ==
  ASSUME IInv
  PROVE  Service!At("batch") = Batched /\ Batched \in SUBSET Requests
<1>1. Batched \in SUBSET Requests
  BY QueuesAre DEF IInv, InOnePlace, Apart
<1> QED
  BY <1>1, ServiceRequests, PlaceOf DEF Service!At

-----------------------------------------------------------------------------
(***************************************************************************)
(* The slots of the pool.                                                  *)
(***************************************************************************)
First(S, k) == UNION {S[e] : e \in 1 .. k}

\* Sets of at most m members, one of them with less: together they have less
\* than m each.
LEMMA SlotLeft ==
  ASSUME NEW n \in Nat, NEW m \in Nat \ {0}, NEW S, NEW d \in 1 .. n,
         \A e \in 1 .. n : IsFiniteSet(S[e]) /\ Cardinality(S[e]) <= m,
         Cardinality(S[d]) < m
  PROVE  Cardinality(First(S, n)) < n * m
<1> DEFINE Bound(k) == k * m - (IF d <= k THEN 1 ELSE 0)
           Good(k) == IsFiniteSet(First(S, k)) /\ Cardinality(First(S, k)) <= Bound(k)
           Bad == {k \in 0 .. n : ~Good(k)}
<1>1. Good(0)
  <2>1. First(S, 0) = {}
    BY DEF First
  <2>2. IsFiniteSet(First(S, 0)) /\ Cardinality(First(S, 0)) = 0
    BY <2>1, FS_EmptySet
  <2>3. Bound(0) = 0
    OBVIOUS
  <2> HIDE DEF Bound
  <2> QED
    BY <2>2, <2>3
<1>2. ASSUME NEW x \in 1 .. n, Good(x - 1) PROVE Good(x)
  <2> DEFINE y == x - 1
             U == First(S, y)
             V == S[x]
  <2>1. First(S, x) = U \cup V
    <3>1. 1 .. x = 1 .. y \cup {x}
      OBVIOUS
    <3>2. ASSUME NEW z PROVE z \in First(S, x) <=> z \in U \cup V
      <4>1. z \in First(S, x) <=> \E e \in 1 .. x : z \in S[e]
        BY DEF First
      <4>2. z \in U <=> \E e \in 1 .. y : z \in S[e]
        BY DEF First
      <4> HIDE DEF U, y
      <4> QED
        BY <3>1, <4>1, <4>2
    <3> QED
      BY <3>2
  <2>2. IsFiniteSet(U) /\ Cardinality(U) <= Bound(y)
    BY <1>2
  <2>3. IsFiniteSet(V) /\ Cardinality(V) <= m
    OBVIOUS
  <2> HIDE DEF U, V
  <2>4. /\ IsFiniteSet(U \cup V)
        /\ Cardinality(U \cup V) = Cardinality(U) + Cardinality(V) - Cardinality(U \cap V)
    BY <2>2, <2>3, FS_Union
  <2>5. Cardinality(U) \in Nat /\ Cardinality(V) \in Nat /\ Cardinality(U \cap V) \in Nat
    BY <2>2, <2>3, FS_CardinalityType, FS_Intersection
  <2>6. Cardinality(U \cup V) <= Cardinality(U) + Cardinality(V)
    BY <2>4, <2>5
  <2>7. x * m = y * m + m /\ x * m \in Nat /\ y * m \in Nat
    OBVIOUS
  <2>8. Cardinality(U) + Cardinality(V) <= Bound(x)
    <3>1. CASE x = d
      <4>1. Cardinality(V) <= m - 1
        BY <2>5, <3>1 DEF V
      <4>2. Bound(y) = y * m /\ Bound(x) = x * m - 1
        BY <2>7, <3>1
      <4> HIDE DEF Bound
      <4> QED
        BY <2>2, <2>5, <2>7, <4>1, <4>2
    <3>2. CASE x # d
      <4>1. Bound(x) = Bound(y) + m /\ Bound(y) \in Int
        BY <2>7, <3>2
      <4> HIDE DEF Bound
      <4> QED
        BY <2>2, <2>3, <2>5, <4>1
    <3> QED
      BY <3>1, <3>2
  <2>9. Bound(x) \in Int
    BY <2>7
  <2> HIDE DEF Bound
  <2> QED
    BY <2>1, <2>4, <2>5, <2>6, <2>8, <2>9
<1> HIDE DEF Good
<1>3. Bad = {}
  <2> SUFFICES ASSUME Bad # {} PROVE FALSE
    OBVIOUS
  <2>1. PICK x \in Bad : \A y \in Bad : x <= y
    <3>1. Bad \in SUBSET Nat
      OBVIOUS
    <3> QED
      BY <3>1, LeastElement
  <2>2. x \in 1 .. n /\ ~Good(x)
    BY <1>1
  <2>3. x - 1 \in 0 .. n /\ ~(x <= x - 1)
    BY <2>2
  <2>4. Good(x - 1)
    BY <2>1, <2>3
  <2> QED
    BY <1>2, <2>2, <2>4
<1>4. Good(n)
  BY <1>3
<1>5. n * m \in Nat
  OBVIOUS
<1> QED
  BY <1>4, <1>5, FS_CardinalityType DEF Good

LEMMA PoolSlotLeft ==
  ASSUME IInv, NEW d \in DecodePool, Cardinality(running[d]) < MaxBatch
  PROVE  Cardinality(Batched) < ND * MaxBatch
<1>1. ND \in Nat /\ MaxBatch \in Nat \ {0} /\ DecodePool = 1 .. ND
  BY DisaggAssumption DEF DecodePool
<1>2. \A e \in 1 .. ND : IsFiniteSet(running[e]) /\ Cardinality(running[e]) <= MaxBatch
  BY <1>1, Typing DEF IInv, BatchIntact
<1>3. Batched = First(running, ND)
  BY <1>1 DEF Batched, First
<1> QED
  BY <1>1, <1>2, <1>3, SlotLeft

-----------------------------------------------------------------------------
(***************************************************************************)
(* The steps.                                                              *)
(***************************************************************************)
LEMMA InitRefines == Init => Service!Init
<1> SUFFICES ASSUME Init PROVE Service!Init
  OBVIOUS
<1>1. output \in [Requests -> Nat \ {0}]
  BY DisaggAssumption DEF Init
<1>2. completed = {} /\ arrived = 0 /\ Batched = {}
  BY DEF Init, Batched
<1>3. \A r \in Requests : r > 0
  BY DisaggAssumption DEF Requests
<1>4. Place = [r \in Requests |-> "coming"]
  BY <1>2, <1>3 DEF Place
<1>5. gen = [r \in Requests |-> 0]
  BY DEF Init
<1> QED
  BY <1>1, <1>4, <1>5, ServiceRequests DEF Service!Init

LEMMA StutterRefines ==
  ASSUME UNCHANGED <<output, gen, completed, running, arrived>>
  PROVE  UNCHANGED Service!svars
<1>1. Batched' = Batched
  BY DEF Batched
<1> QED
  BY <1>1, PlaceIs DEF Service!svars

LEMMA ArrivalRefines ==
  ASSUME IInv, IInv', Arrival
  PROVE  Service!Next
<1> DEFINE a == arrived + 1
<1>1. /\ arrived' = a /\ arrived < N /\ arrived \in Nat /\ N \in Nat
      /\ UNCHANGED <<output, gen, completed, running>>
  BY DisaggAssumption DEF Arrival, lens, decode, reqs, IInv, TypeOK
<1>2. a \in Requests /\ a > arrived
  BY <1>1 DEF Requests
<1>3. Place[a] = "coming"
  BY <1>2, PlaceOf
<1>4. Batched' = Batched
  BY <1>1 DEF Batched
<1>5. ASSUME NEW s \in Requests
      PROVE  Place'[s] = IF Place[s] = "coming" /\ s <= a THEN "queued" ELSE Place[s]
  <2>1. s \in Nat /\ (s > arrived => s \notin completed /\ s \notin Batched)
    BY Arrived
  <2>2. /\ Place[s] = WhereIs(completed, Batched, arrived)[s]
        /\ Place'[s] = WhereIs(completed, Batched, a)[s]
    BY <1>1, <1>4, PlaceIs
  <2>3. CASE s > arrived
    <3>1. Place[s] = "coming"
      BY <2>3, PlaceOf
    <3>2. Place'[s] = IF s > a THEN "coming" ELSE "queued"
      BY <2>1, <2>2, <2>3 DEF WhereIs
    <3>3. s > a <=> ~(s <= a)
      BY <1>1, <2>1
    <3> QED
      BY <3>1, <3>2, <3>3
  <2>4. CASE ~(s > arrived)
    <3>1. Place[s] # "coming"
      BY <2>4, PlaceOf
    <3>2. ~(s > a)
      BY <1>1, <2>1, <2>4
    <3>3. Place'[s] = Place[s]
      BY <2>2, <2>4, <3>2 DEF WhereIs
    <3> QED
      BY <3>1, <3>3
  <2> QED
    BY <2>3, <2>4
<1>6. Place' = [s \in Requests |->
                  IF Place[s] = "coming" /\ s <= a THEN "queued" ELSE Place[s]]
  <2>1. Place' = WhereIs(completed', Batched', arrived')
    BY PlaceIs
  <2> QED
    BY <1>5, <2>1 DEF WhereIs
<1> HIDE DEF a
<1>7. Service!Arrive(a)
  BY <1>1, <1>3, <1>6, ServiceRequests DEF Service!Arrive
<1> QED
  BY <1>2, <1>7, ServiceRequests DEF Service!Next

\* Moving one request to another place.
LEMMA MoveOne ==
  ASSUME NEW r \in Requests, NEW p, Place'[r] = p, UNCHANGED <<completed, arrived>>,
         \A s \in Requests \ {r} : s \in Batched' <=> s \in Batched
  PROVE  Place' = [Place EXCEPT ![r] = p]
<1>1. /\ Place = WhereIs(completed, Batched, arrived)
      /\ Place' = WhereIs(completed, Batched', arrived)
  BY PlaceIs
<1>2. \A s \in Requests \ {r} : Place'[s] = Place[s]
  BY <1>1 DEF WhereIs
<1> QED
  BY <1>1, <1>2 DEF WhereIs

LEMMA EnterRefines ==
  ASSUME IInv, IInv', Admit \/ ForceAdmit
  PROVE  Service!Next
<1> DEFINE r == Head(waitingDecode)
<1>1. PICK d \in DecodePool : /\ Enter(d) /\ waitingDecode # << >>
                              /\ Cardinality(running[d]) < MaxBatch
  BY EntersWithSlot DEF IInv
<1>2. /\ r \in Requests /\ r \in Items(waitingDecode)
      /\ Batched' = Batched \cup {r}
  BY <1>1, EnterPlaces DEF IInv
<1>3. UNCHANGED <<completed, arrived, output, gen>>
  BY <1>1 DEF Enter, lens, reqs
<1>4. Cardinality(Batched) < ND * MaxBatch
  BY <1>1, PoolSlotLeft
<1> HIDE DEF r
<1>5. Place[r] = "queued"
  BY <1>2, PlaceOf
<1>6. Place'[r] = "batch"
  <2>1. r \notin completed /\ r \in Batched' /\ ~(r > arrived)
    BY <1>2, Arrived
  <2>2. Place' = WhereIs(completed, Batched', arrived)
    BY <1>3, PlaceIs
  <2> QED
    BY <1>2, <2>1, <2>2, WhereOne
<1>7. Place' = [Place EXCEPT ![r] = "batch"]
  <2>1. \A s \in Requests \ {r} : s \in Batched' <=> s \in Batched
    BY <1>2
  <2> QED
    BY <1>2, <1>3, <1>6, <2>1, MoveOne
<1>8. Service!Admit(r)
  <2>1. Service!Cardinality(Service!At("batch")) < ND * MaxBatch
    <3>1. Service!Cardinality(Batched) = Cardinality(Batched)
      BY DEF Service!Cardinality, Cardinality
    <3> QED
      BY <1>4, <3>1, BatchSlots
  <2> QED
    BY <1>3, <1>5, <1>7, <2>1 DEF Service!Admit
<1> QED
  BY <1>2, <1>8, ServiceRequests DEF Service!Next

LEMMA PreemptRefines ==
  ASSUME IInv, IInv', Preempt
  PROVE  Service!Next
<1>1. PICK v : v = Max(running[Min(Startable)])
  OBVIOUS
<1>2. v \in Requests /\ v \in Batched /\ Batched' = Batched \ {v}
  BY <1>1, PreemptPlaces DEF IInv
<1>3. UNCHANGED <<completed, arrived, output, gen>>
  BY DEF Preempt, lens
<1>4. Place[v] = "batch"
  BY <1>2, PlaceOf
<1>5. Place'[v] = "queued"
  <2>1. v \notin completed /\ ~(v > arrived) /\ v \notin Batched'
    BY <1>2, Arrived
  <2>2. Place' = WhereIs(completed, Batched', arrived)
    BY <1>3, PlaceIs
  <2> QED
    BY <1>2, <2>1, <2>2, WhereOne
<1>6. Place' = [Place EXCEPT ![v] = "queued"]
  <2>1. \A s \in Requests \ {v} : s \in Batched' <=> s \in Batched
    BY <1>2
  <2> QED
    BY <1>2, <1>3, <1>5, <2>1, MoveOne
<1>7. Service!Preempt(v)
  BY <1>3, <1>4, <1>6 DEF Service!Preempt
<1> QED
  BY <1>2, <1>7, ServiceRequests DEF Service!Next

LEMMA EmitRefines ==
  ASSUME IInv, IInv', NEW d \in DecodePool, DecodeDone(d)
  PROVE  Service!Next
<1> DEFINE S == iterBatch[d]
           F == Finishing(d)
<1>1. /\ completed' = completed \cup F /\ Batched' = Batched \ F
      /\ gen' = [r \in Requests |-> IF r \in S THEN gen[r] + 1 ELSE gen[r]]
      /\ UNCHANGED <<arrived, output>>
  BY DecodeDonePlaces DEF DecodeDone, Emitting, lens, IInv
<1>2. S \in SUBSET Batched /\ F \in SUBSET S
  BY DecodeDoneTokens, Typing DEF IInv
<1>3. \A r \in Requests : r \in F <=> r \in S /\ gen[r] + 1 = output[r]
  BY <1>2, DecodeDoneTokens
<1> HIDE DEF S, F
<1>4. ASSUME NEW r \in Requests
      PROVE  Place'[r] = IF r \in S /\ gen[r] + 1 = output[r] THEN "done" ELSE Place[r]
  <2>1. /\ Place = WhereIs(completed, Batched, arrived)
        /\ Place' = WhereIs(completed', Batched', arrived)
    BY <1>1, PlaceIs
  <2>2. CASE r \in F
    <3>1. r \in completed' /\ r \notin Batched' /\ ~(r > arrived)
      BY <1>1, <1>2, <2>2, Arrived
    <3>2. Place'[r] = "done"
      BY <2>1, <3>1, WhereOne
    <3> QED
      BY <1>3, <2>2, <3>2
  <2>3. CASE r \notin F
    <3>1. Place'[r] = Place[r]
      BY <1>1, <2>1, <2>3 DEF WhereIs
    <3> QED
      BY <1>3, <2>3, <3>1
  <2> QED
    BY <2>2, <2>3
<1>5. Place' = [r \in Requests |->
                  IF r \in S /\ gen[r] + 1 = output[r] THEN "done" ELSE Place[r]]
  <2>1. Place' = WhereIs(completed', Batched', arrived')
    BY PlaceIs
  <2> QED
    BY <1>4, <2>1 DEF WhereIs
<1>6. S \in SUBSET Service!At("batch") /\ S \in SUBSET Requests
  BY <1>2, BatchSlots
<1>7. Service!Emit(S)
  BY <1>1, <1>5, <1>6, ServiceRequests DEF Service!Emit
<1> QED
  BY <1>6, <1>7, ServiceRequests DEF Service!Next

LEMMA NextRefines ==
  ASSUME IInv, IInv', [Next]_vars
  PROVE  [Service!Next]_(Service!svars)
<1>1. CASE Arrival
  BY <1>1, ArrivalRefines
<1>2. CASE Admit \/ ForceAdmit
  BY <1>2, EnterRefines
<1>3. CASE Preempt
  BY <1>3, PreemptRefines
<1>4. ASSUME NEW d \in DecodePool, DecodeDone(d) PROVE Service!Next
  BY <1>4, EmitRefines
<1>5. ASSUME \/ \E i \in PrefillPool : PrefillDone(i)
             \/ \E k \in Requests : TransferDone(k)
             \/ StartPrefill \/ EndPrefills \/ EndAdmission \/ EndForce
             \/ StartIteration \/ EndStarts \/ Finished \/ UNCHANGED vars
      PROVE  UNCHANGED Service!svars
  <2>1. UNCHANGED <<output, gen, completed, running, arrived>>
    BY <1>5 DEF PrefillDone, TransferDone, StartPrefill, EndPrefills, EndAdmission,
                EndForce, StartIteration, EndStarts, Finished, vars, lens, decode, reqs
  <2> QED
    BY <2>1, StutterRefines
<1> QED
  BY <1>1, <1>2, <1>3, <1>4, <1>5 DEF Next

\* Every behaviour of the two pools is one of RequestService with the slots of
\* all decode replicas: a request keeps its tokens through preemptions,
\* transfers and recomputes, emits only while it holds a slot, and leaves with
\* exactly output_len tokens.
THEOREM ServesRequests == Spec => ImplementsService
<1>1. IInv /\ IInv' /\ [Next]_vars => [Service!Next]_(Service!svars)
  BY NextRefines
<1> QED
  BY InitRefines, Invariance, <1>1, PTL DEF Spec, ImplementsService, Service!Spec
=============================================================================
