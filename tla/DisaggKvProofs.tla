---------------------------- MODULE DisaggKvProofs ----------------------------
(***************************************************************************)
(* The KV properties of disaggregated serving, for every workload, budget  *)
(* and number of replicas: the ledgers of the decode replicas although     *)
(* requests join them in mid-iteration, the reservations, the watermark    *)
(* and the budget.                                                         *)
(***************************************************************************)
EXTENDS DisaggProofs

-----------------------------------------------------------------------------
(***************************************************************************)
(* What each step does to the KV held on the replicas.                     *)
(***************************************************************************)
LEMMA NextTypes ==
  ASSUME IInv'
  PROVE  /\ Foot' \in [1 .. N -> Nat]
         /\ \A d \in DecodePool : /\ Held(d)' = Total(Foot', running'[d])
                                  /\ Held(d)' \in Nat
                                  /\ running'[d] \in SUBSET (1 .. N)
         /\ \A r \in Requests : Foot'[r] = KvBytes(context'[r])
<1>1. /\ context' \in [Requests -> Nat] /\ running' \in [DecodePool -> SUBSET Requests]
      /\ Requests = 1 .. N /\ N \in Nat
  BY DisaggAssumption DEF IInv, TypeOK, Requests
<1>2. \A r \in Requests : KvBytes(context'[r]) \in Nat
  BY <1>1, KvBytesType
<1>3. Foot' \in [1 .. N -> Nat] /\ \A r \in Requests : Foot'[r] = KvBytes(context'[r])
  BY <1>1, <1>2 DEF Foot
<1>4. \A d \in DecodePool : /\ Held(d)' = Total(Foot', running'[d])
                            /\ running'[d] \in SUBSET (1 .. N)
  BY <1>1 DEF Held, Foot
<1> QED
  BY <1>1, <1>3, <1>4, TotalType

\* What a replica holds if nothing on it changes.
LEMMA HeldSame ==
  ASSUME IInv, IInv', NEW d \in DecodePool, running'[d] = running[d],
         \A s \in running[d] : context'[s] = context[s]
  PROVE  Held(d)' = Held(d)
<1>1. running[d] \in SUBSET Requests /\ Held(d) = Total(Foot, running[d])
  BY Typing, SumTypes DEF IInv
<1>2. \A s \in running[d] : Foot'[s] = Foot[s]
  BY <1>1, NextTypes DEF Foot
<1>3. Total(Foot', running[d]) = Total(Foot, running[d])
  BY <1>2, TotalEqual
<1> QED
  BY <1>1, <1>3, NextTypes

\* A step that changes no context on a replica, and no batch.
LEMMA BatchesHeld ==
  ASSUME IInv, IInv', running' = running, \A s \in Batched : context'[s] = context[s]
  PROVE  \A d \in DecodePool : Held(d)' = Held(d)
BY HeldSame, OnReplica

LEMMA EnterHeld ==
  ASSUME IInv, IInv', waitingDecode # << >>, NEW d \in DecodePool, Enter(d)
  PROVE  /\ Held(d)' = Held(d) + KvBytes(context[Head(waitingDecode)])
         /\ \A e \in DecodePool \ {d} : Held(e)' = Held(e)
<1> DEFINE r == Head(waitingDecode)
<1>1. /\ r \in Requests /\ r \notin Batched /\ running'[d] = running[d] \cup {r}
      /\ \A e \in DecodePool \ {d} : running'[e] = running[e]
  BY EnterPlaces DEF IInv
<1>2. context' = context
  BY DEF Enter, reqs
<1> HIDE DEF r
<1>3. Foot' = Foot /\ Foot[r] = KvBytes(context[r])
  BY <1>1, <1>2 DEF Foot
<1>4. Held(d)' = Held(d) + Foot[r]
  <2>1. /\ N \in Nat /\ Foot \in [1 .. N -> Nat] /\ Held(d) = Total(Foot, running[d])
        /\ running[d] \in SUBSET (1 .. N)
    BY SumTypes, Typing DEF IInv
  <2>2. running'[d] \in SUBSET (1 .. N) /\ Held(d)' = Total(Foot, running'[d])
    BY <1>3, NextTypes
  <2>3. r \notin running[d]
    BY <1>1, OnReplica
  <2>4. Total(Foot, running'[d]) = Total(Foot, running'[d] \ {r}) + Foot[r]
    BY <1>1, <2>1, <2>2, TotalRemove
  <2>5. running'[d] \ {r} = running[d]
    BY <1>1, <2>3
  <2> QED
    BY <2>1, <2>2, <2>4, <2>5
<1>5. \A e \in DecodePool \ {d} : Held(e)' = Held(e)
  BY <1>1, <1>2, HeldSame
<1> QED
  BY <1>3, <1>4, <1>5 DEF r

\* The replica and the victim are those before the step.
LEMMA PreemptHeld ==
  ASSUME IInv, IInv', Preempt,
         NEW d, d = Min(Startable), NEW v, v = Max(running[d])
  PROVE  /\ d \in DecodePool /\ v \in Requests /\ iterBatch[d] = {}
         /\ Held(d) = Held(d)' + KvBytes(context[v])
         /\ running'[d] = running[d] \ {v}
         /\ \A e \in DecodePool \ {d} : Held(e)' = Held(e) /\ running'[e] = running[e]
<1>1. /\ d \in DecodePool /\ v \in running[d] /\ v \in Requests /\ d \in Startable
      /\ running' = [running EXCEPT ![d] = running[d] \ {v}]
  BY PreemptPlaces DEF IInv
<1>2. context' = [context EXCEPT ![v] = 0]
  BY DEF Preempt
<1>3. \A s \in Requests \ {v} : context'[s] = context[s]
  BY <1>1, <1>2 DEF IInv, TypeOK
<1>4. /\ running'[d] = running[d] \ {v}
      /\ \A e \in DecodePool \ {d} : running'[e] = running[e] /\ v \notin running[e]
  BY <1>1, LostNone DEF IInv, TypeOK, OneReplica
<1>5. Held(d) = Held(d)' + KvBytes(context[v])
  <2>1. /\ N \in Nat /\ Foot \in [1 .. N -> Nat] /\ Held(d) = Total(Foot, running[d])
        /\ running[d] \in SUBSET (1 .. N) /\ Requests = 1 .. N
    BY <1>1, SumTypes, Typing DEF IInv
  <2>2. Total(Foot, running[d]) = Total(Foot, running[d] \ {v}) + Foot[v]
    BY <1>1, <2>1, TotalRemove
  <2>3. \A s \in running[d] \ {v} : Foot'[s] = Foot[s]
    BY <1>3, <2>1, NextTypes DEF Foot
  <2>4. Total(Foot', running[d] \ {v}) = Total(Foot, running[d] \ {v})
    BY <2>3, TotalEqual
  <2>5. Held(d)' = Total(Foot', running[d] \ {v})
    BY <1>1, <1>4, NextTypes
  <2>6. Foot[v] = KvBytes(context[v])
    BY <1>1 DEF Foot
  <2> QED
    BY <2>1, <2>2, <2>4, <2>5, <2>6
<1>6. \A e \in DecodePool \ {d} : Held(e)' = Held(e)
  <2> TAKE e \in DecodePool \ {d}
  <2>1. \A s \in running[e] : context'[s] = context[s]
    BY <1>3, <1>4, Typing DEF IInv
  <2> QED
    BY <1>4, <2>1, HeldSame
<1> QED
  BY <1>1, <1>4, <1>5, <1>6 DEF Startable

\* What a replica holds at the end of its iteration, before anybody leaves:
\* the members of the iteration hold one token more, who joined does not.
LEMMA GrownIs ==
  ASSUME IInv, NEW d \in DecodePool
  PROVE  /\ Held(d) + Growth(d)
              = Total(Foot, running[d] \ iterBatch[d]) + Total(Longer, iterBatch[d])
         /\ Total(Foot, running[d] \ iterBatch[d]) \in Nat
         /\ Total(Longer, iterBatch[d]) \in Nat
         /\ Held(d) \in Nat /\ Growth(d) \in Nat
<1> DEFINE R == running[d]
           I == iterBatch[d]
<1>1. /\ Foot \in [1 .. N -> Nat] /\ Longer \in [1 .. N -> Nat] /\ Gain \in [1 .. N -> Nat]
      /\ Growth(d) = Total(Gain, I) /\ Growth(d) \in Nat
      /\ Held(d) = Total(Foot, R) /\ Held(d) \in Nat
  BY SumTypes DEF IInv
<1>2. N \in Nat /\ Requests = 1 .. N /\ R \in SUBSET (1 .. N) /\ I \in SUBSET R
  BY Typing DEF IInv, BatchIntact
<1> HIDE DEF R, I
<1>3. Total(Foot, R) = Total(Foot, R \ I) + Total(Foot, I)
  <2>1. R = (R \ I) \cup I /\ (R \ I) \cap I = {}
    BY <1>2
  <2>2. R \ I \in SUBSET (1 .. N) /\ I \in SUBSET (1 .. N)
    BY <1>2
  <2>3. Total(Foot, (R \ I) \cup I) = Total(Foot, R \ I) + Total(Foot, I)
    <3>1. Foot \in [1 .. N -> Nat] /\ N \in Nat
      BY <1>1, <1>2
    <3> QED
      BY <2>1, <2>2, <3>1, TotalSplit
  <2> QED
    BY <2>1, <2>3
<1>4. Total(Longer, I) = Total(Foot, I) + Total(Gain, I)
  <2>1. \A s \in I : Longer[s] = Foot[s] + Gain[s]
    <3> TAKE s \in I
    <3>1. s \in Requests /\ context[s] \in Nat
      BY <1>2, Typing DEF IInv
    <3> QED
      BY <3>1, GrowIsDifference DEF Longer, Foot, Gain
  <2>2. I \in SUBSET (1 .. N)
    BY <1>2
  <2> QED
    BY <1>1, <1>2, <2>1, <2>2, TotalPlus
<1>5. /\ Total(Foot, R \ I) \in Nat /\ Total(Foot, I) \in Nat
      /\ Total(Gain, I) \in Nat /\ Total(Longer, I) \in Nat
  <2>1. R \ I \in SUBSET (1 .. N) /\ I \in SUBSET (1 .. N)
    BY <1>2
  <2> QED
    BY <1>1, <1>2, <2>1, TotalType
<1> QED
  BY <1>1, <1>3, <1>4, <1>5 DEF R, I

LEMMA DecodeDoneHeld ==
  ASSUME IInv, IInv', NEW d \in DecodePool, DecodeDone(d)
  PROVE  /\ Held(d)' + Total(Longer, Finishing(d)) = Held(d) + Growth(d)
         /\ Total(Longer, Finishing(d)) \in Nat
         /\ \A e \in DecodePool \ {d} : Held(e)' = Held(e)
<1> DEFINE R == running[d]
           I == iterBatch[d]
           F == Finishing(d)
           new == Foot'
<1>1. /\ running' = [running EXCEPT ![d] = R \ F]
  BY DecodeDonePlaces DEF IInv
<1>2. /\ I \in SUBSET R /\ F \in SUBSET I /\ R \in SUBSET (1 .. N)
      /\ N \in Nat /\ Requests = 1 .. N
  BY Typing DEF IInv, BatchIntact
<1>3. /\ \A s \in I : context'[s] = context[s] + 1
      /\ \A s \in Requests \ I : context'[s] = context[s]
  BY DecodeDoneTokens
<1>4. /\ new \in [1 .. N -> Nat] /\ Held(d)' = Total(new, running'[d])
      /\ \A r \in Requests : new[r] = KvBytes(context'[r])
  BY NextTypes
<1>5. /\ Foot \in [1 .. N -> Nat] /\ Longer \in [1 .. N -> Nat]
  BY SumTypes DEF IInv
<1>6. running'[d] = R \ F /\ \A e \in DecodePool \ {d} : running'[e] = running[e]
  BY <1>1 DEF IInv, TypeOK
<1>7. /\ \A s \in I : new[s] = Longer[s]
      /\ \A s \in R \ I : new[s] = Foot[s]
  BY <1>2, <1>3, <1>4 DEF Longer, Foot
<1>8. \A e \in DecodePool \ {d} : Held(e)' = Held(e)
  <2> TAKE e \in DecodePool \ {d}
  <2>1. running[e] \cap R = {}
    BY LostNone DEF IInv, OneReplica
  <2>2. \A s \in running[e] : s \in Requests \ I
    BY <1>2, <2>1, Typing DEF IInv
  <2> QED
    BY <1>3, <1>6, <2>2, HeldSame
<1> HIDE DEF R, I, F, new
<1>9. Total(new, R) = Total(Foot, R \ I) + Total(Longer, I)
  <2>1. R = (R \ I) \cup I /\ (R \ I) \cap I = {}
    BY <1>2
  <2>2. R \ I \in SUBSET (1 .. N) /\ I \in SUBSET (1 .. N)
    BY <1>2
  <2>3. Total(new, (R \ I) \cup I) = Total(new, R \ I) + Total(new, I)
    BY <1>2, <1>4, <2>1, <2>2, TotalSplit
  <2>4. Total(new, R \ I) = Total(Foot, R \ I) /\ Total(new, I) = Total(Longer, I)
    BY <1>7, TotalEqual
  <2> QED
    BY <2>1, <2>3, <2>4
<1>10. Total(new, R) = Total(new, R \ F) + Total(Longer, F) /\ Total(Longer, F) \in Nat
  <2>1. R = (R \ F) \cup F /\ (R \ F) \cap F = {}
    BY <1>2
  <2>2. R \ F \in SUBSET (1 .. N) /\ F \in SUBSET (1 .. N)
    BY <1>2
  <2>3. Total(new, (R \ F) \cup F) = Total(new, R \ F) + Total(new, F)
    BY <1>2, <1>4, <2>1, <2>2, TotalSplit
  <2>4. Total(new, F) = Total(Longer, F)
    <3>1. \A s \in F : new[s] = Longer[s]
      BY <1>2, <1>7
    <3> QED
      BY <3>1, TotalEqual
  <2> QED
    BY <1>2, <1>5, <2>1, <2>2, <2>3, <2>4, TotalType
<1>11. Held(d) + Growth(d) = Total(Foot, R \ I) + Total(Longer, I)
  BY GrownIs DEF R, I
<1>12. Held(d)' = Total(new, R \ F)
  BY <1>4, <1>6
<1> QED
  BY <1>8, <1>9, <1>10, <1>11, <1>12 DEF F

\* A step that leaves the batches, what they hold and the ledgers alone.
Still ==
  /\ UNCHANGED <<running, kvUsed, kvReserved, peakKv>>
  /\ \A s \in Batched : context'[s] = context[s]

\* The steps, as the KV sees them.
LEMMA StepKinds ==
  ASSUME IInv, [Next]_vars
  PROVE  \/ \E d \in DecodePool : DecodeDone(d)
         \/ Admit \/ ForceAdmit
         \/ Preempt
         \/ Still /\ (StartIteration \/ iterBatch' = iterBatch)
<1> USE DEF IInv
<1>1. ASSUME NEW i \in PrefillPool, PrefillDone(i) PROVE Still /\ iterBatch' = iterBatch
  <2>1. current[i] \in Requests /\ current[i] \notin Batched
    <3>1. current[i] \in Prefilling /\ current[i] \in Requests
      BY <1>1, OnReplica, PrefillDonePlaces DEF PrefillDone
    <3> QED
      BY <3>1, QueuesAre DEF InOnePlace, Apart
  <2>2. \A s \in Batched : s \in Requests
    BY QueuesAre DEF InOnePlace, Apart
  <2> QED
    BY <1>1, <2>1, <2>2 DEF PrefillDone, Still, decode, kv, TypeOK
<1>2. ASSUME NEW k \in Requests, TransferDone(k) PROVE Still /\ iterBatch' = iterBatch
  BY <1>2 DEF TransferDone, Still, kv, reqs
<1>3. CASE StartPrefill
  <2>1. Head(waitingPrefill) \in Requests /\ Head(waitingPrefill) \notin Batched
    BY <1>3, StartPrefillPlaces, QueuesAre DEF InOnePlace, Apart
  <2>2. \A s \in Batched : s \in Requests
    BY QueuesAre DEF InOnePlace, Apart
  <2>3. \A s \in Batched : context'[s] = context[s]
    BY <1>3, <2>1, <2>2 DEF StartPrefill, TypeOK
  <2> QED
    BY <1>3, <2>3 DEF StartPrefill, Still, decode, kv
<1>4. CASE StartIteration
  BY <1>4 DEF StartIteration, Still, reqs
<1>5. CASE Arrival \/ EndPrefills \/ EndAdmission \/ EndForce \/ EndStarts \/ Finished
           \/ UNCHANGED vars
  BY <1>5 DEF Arrival, EndPrefills, EndAdmission, EndForce, EndStarts, Finished, vars,
              Still, decode, kv, reqs
<1> QED
  BY <1>1, <1>2, <1>3, <1>4, <1>5 DEF Next

\* The lengths never change.
LEMMA LensKept ==
  ASSUME [Next]_vars
  PROVE  /\ prompt' = prompt /\ output' = output
         /\ \A r \in Requests : FullFp(r)' = FullFp(r) /\ FitsBudget(r)' = FitsBudget(r)
<1>1. UNCHANGED lens
  BY DEF Next, Arrival, PrefillDone, TransferDone, DecodeDone, StartPrefill, EndPrefills,
         Admit, EndAdmission, ForceAdmit, Enter, EndForce, Preempt, StartIteration,
         EndStarts, Finished, vars
<1>2. prompt' = prompt /\ output' = output
  BY <1>1 DEF lens
<1> QED
  BY <1>2 DEF FullFp, FitsBudget

\* What the end of an iteration writes in the ledgers.
LEMMA DecodeDoneBooks ==
  ASSUME NEW d \in DecodePool, DecodeDone(d)
  PROVE  /\ kvUsed' = [kvUsed EXCEPT ![d] =
                         (kvUsed[d] + Growth(d)) - Total(Longer, Finishing(d))]
         /\ peakKv' = Larger(peakKv, kvUsed[d] + Growth(d))
         /\ ~OnDemand => kvReserved' = [kvReserved EXCEPT ![d] =
                                         kvReserved[d] - Total(Full, Finishing(d))]
<1> DEFINE grown == kvUsed[d] + Growth(d)
           gone == Total(Longer, Finishing(d))
           given == Total(Full, Finishing(d))
<1>1. kvUsed' = [kvUsed EXCEPT ![d] = grown - gone] /\ peakKv' = Larger(peakKv, grown)
  BY DEF DecodeDone, Longer
<1>2. ~OnDemand => kvReserved' = [kvReserved EXCEPT ![d] = kvReserved[d] - given]
  BY DEF DecodeDone, Full
<1> QED
  BY <1>1, <1>2

-----------------------------------------------------------------------------
(***************************************************************************)
(* The ledgers: kv_used is maintained by increments at the end of an       *)
(* iteration, at entry and at a preemption.                                *)
(***************************************************************************)
LEMMA LedgerInit == Init => KvLedger
<1> SUFFICES ASSUME Init, NEW d \in DecodePool PROVE kvUsed[d] = Held(d)
  BY DEF KvLedger
<1>1. kvUsed[d] = 0 /\ running[d] = {}
  BY DEF Init
<1> QED
  BY <1>1, TotalEmpty DEF Held

LEMMA LedgerNext == ASSUME IInv, IInv', KvLedger, [Next]_vars PROVE KvLedger'
<1> SUFFICES ASSUME NEW e \in DecodePool PROVE kvUsed'[e] = Held(e)'
  BY DEF KvLedger
<1>1. kvUsed[e] = Held(e) /\ kvUsed[e] \in Int /\ kvUsed \in [DecodePool -> Int]
  BY DEF KvLedger, IInv, TypeOK
<1>2. ASSUME NEW d \in DecodePool, DecodeDone(d) PROVE kvUsed'[e] = Held(e)'
  <2>1. kvUsed' = [kvUsed EXCEPT ![d] =
                     (kvUsed[d] + Growth(d)) - Total(Longer, Finishing(d))]
    BY <1>2, DecodeDoneBooks
  <2>2. /\ Held(d)' + Total(Longer, Finishing(d)) = Held(d) + Growth(d)
        /\ Total(Longer, Finishing(d)) \in Nat
        /\ \A f \in DecodePool \ {d} : Held(f)' = Held(f)
    BY <1>2, DecodeDoneHeld
  <2>3. Held(d) \in Nat /\ Growth(d) \in Nat /\ Held(d)' \in Nat
    BY SumTypes, NextTypes DEF IInv
  <2>4. CASE e = d
    <3>1. kvUsed'[d] = (Held(d) + Growth(d)) - Total(Longer, Finishing(d))
      BY <1>1, <2>1, <2>4
    <3> QED
      BY <2>2, <2>3, <2>4, <3>1
  <2>5. CASE e # d
    BY <1>1, <2>1, <2>2, <2>5
  <2> QED
    BY <2>4, <2>5
<1>3. CASE Admit \/ ForceAdmit
  <2>1. PICK d \in DecodePool : Enter(d) /\ waitingDecode # << >>
    BY <1>3, EntersWithSlot DEF IInv
  <2>2. kvUsed' = [kvUsed EXCEPT ![d] = kvUsed[d] + KvBytes(context[Head(waitingDecode)])]
    BY <2>1 DEF Enter
  <2>3. /\ Held(d)' = Held(d) + KvBytes(context[Head(waitingDecode)])
        /\ \A f \in DecodePool \ {d} : Held(f)' = Held(f)
    BY <2>1, EnterHeld
  <2> QED
    BY <1>1, <2>2, <2>3
<1>4. CASE Preempt
  <2> DEFINE d == Min(Startable)
             v == Max(running[d])
  <2>1. kvUsed' = [kvUsed EXCEPT ![d] = kvUsed[d] - KvBytes(context[v])]
    BY <1>4 DEF Preempt
  <2> HIDE DEF v
  <2>2. PICK c : c = d
    OBVIOUS
  <2>3. PICK w : w = v
    OBVIOUS
  <2>4. /\ c \in DecodePool /\ w \in Requests
        /\ Held(c) = Held(c)' + KvBytes(context[w])
        /\ \A f \in DecodePool \ {c} : Held(f)' = Held(f)
    BY <1>4, <2>2, <2>3, PreemptHeld DEF v
  <2>5. kvUsed' = [kvUsed EXCEPT ![c] = kvUsed[c] - KvBytes(context[w])]
    BY <2>1, <2>2, <2>3
  <2>6. KvBytes(context[w]) \in Nat /\ Held(c)' \in Nat
    BY <2>4, Typing, NextTypes DEF IInv
  <2>7. CASE e = c
    <3>1. kvUsed'[c] = Held(c) - KvBytes(context[w])
      BY <1>1, <2>5, <2>7
    <3> QED
      BY <2>4, <2>6, <2>7, <3>1
  <2>8. CASE e # c
    BY <1>1, <2>4, <2>5, <2>8
  <2> QED
    BY <2>7, <2>8
<1>5. CASE Still
  BY <1>1, <1>5, BatchesHeld DEF Still
<1> QED
  BY <1>2, <1>3, <1>4, <1>5, StepKinds

\* kv_used of every decode replica is exactly what its requests hold, although
\* requests join while others are in the middle of an iteration, whose growth
\* is booked at its end for its own members only.
THEOREM LedgersExact == Spec => []KvLedger
<1>1. IInv /\ IInv' /\ KvLedger /\ [Next]_vars => KvLedger'
  BY LedgerNext
<1> QED
  BY Invariance, LedgerInit, <1>1, PTL DEF Spec

-----------------------------------------------------------------------------
(***************************************************************************)
(* The full lengths: every request fits a replica to its end, and holds    *)
(* no more than that until then.                                           *)
(***************************************************************************)
AllFit == \A r \in Requests : FitsBudget(r)

LEMMA FitInit == Init => AllFit
BY DEF Init, AllFit

LEMMA FitNext == AllFit /\ [Next]_vars => AllFit'
BY LensKept DEF AllFit

\* Before its last token, a request holds at most its full length, and so
\* with one more token.
LEMMA FootUnderFull ==
  ASSUME IInv, NEW s \in Batched \cup Items(waitingDecode)
  PROVE  /\ s \in Requests
         /\ Foot[s] \in Nat /\ Longer[s] \in Nat /\ Full[s] \in Nat
         /\ Foot[s] <= Longer[s] /\ Longer[s] <= Full[s]
<1>1. s \in Requests /\ s \notin completed
  BY QueuesAre, ItemsAre DEF IInv, InOnePlace, Apart
<1>2. context[s] = prompt[s] + gen[s] /\ gen[s] < output[s]
  BY <1>1 DEF IInv, TokenConservation
<1>3. /\ prompt[s] \in Nat /\ output[s] \in Nat /\ gen[s] \in Nat /\ context[s] \in Nat
      /\ KvBytes(context[s]) \in Nat /\ KvBytes(context[s] + 1) \in Nat /\ FullFp(s) \in Nat
  BY <1>1, Typing DEF IInv
<1>4. KvBytes(context[s]) <= KvBytes(context[s] + 1)
  BY <1>3, KvBytesMonotone
<1>5. KvBytes(context[s] + 1) <= KvBytes(prompt[s] + output[s])
  BY <1>2, <1>3, KvBytesMonotone
<1> QED
  BY <1>1, <1>3, <1>4, <1>5 DEF Foot, Longer, Full, FullFp

\* The replica's KV, also at the end of the iteration under way, is within the
\* full lengths of its requests.
LEMMA GrownUnderFull ==
  ASSUME IInv, NEW d \in DecodePool
  PROVE  /\ Held(d) + Growth(d) <= Total(Full, running[d])
         /\ Held(d) <= Total(Full, running[d])
         /\ Total(Full, running[d]) \in Nat
<1> DEFINE R == running[d]
           I == iterBatch[d]
<1>1. /\ N \in Nat /\ Requests = 1 .. N /\ R \in SUBSET (1 .. N) /\ I \in SUBSET R
      /\ Foot \in [1 .. N -> Nat] /\ Longer \in [1 .. N -> Nat] /\ Full \in [1 .. N -> Nat]
  BY Typing, SumTypes DEF IInv, BatchIntact
<1>2. \A s \in R : Foot[s] <= Full[s] /\ Longer[s] <= Full[s]
  <2> TAKE s \in R
  <2>1. s \in Batched
    BY OnReplica
  <2> QED
    BY <2>1, FootUnderFull
<1>3. /\ Held(d) + Growth(d) = Total(Foot, R \ I) + Total(Longer, I)
      /\ Total(Foot, R \ I) \in Nat /\ Total(Longer, I) \in Nat
      /\ Held(d) \in Nat /\ Growth(d) \in Nat
  BY GrownIs
<1> HIDE DEF R, I
<1>4. /\ R \ I \in SUBSET (1 .. N) /\ I \in SUBSET (1 .. N)
      /\ (R \ I) \cup I = R /\ (R \ I) \cap I = {}
  BY <1>1
<1>5. Total(Full, R) = Total(Full, R \ I) + Total(Full, I)
  <2>1. Full \in [1 .. N -> Nat] /\ N \in Nat
    BY <1>1
  <2>2. Total(Full, (R \ I) \cup I) = Total(Full, R \ I) + Total(Full, I)
    BY <1>4, <2>1, TotalSplit
  <2> QED
    BY <1>4, <2>2
<1>6. Total(Foot, R \ I) <= Total(Full, R \ I)
  <2>1. R \ I \in SUBSET (R \ I) /\ \A s \in R \ I : Foot[s] <= Full[s]
    BY <1>2
  <2> QED
    BY <1>1, <1>4, <2>1, TotalLeq
<1>7. Total(Longer, I) <= Total(Full, I)
  <2>1. I \in SUBSET I /\ \A s \in I : Longer[s] <= Full[s]
    BY <1>1, <1>2
  <2> QED
    BY <1>1, <1>4, <2>1, TotalLeq
<1>8. Total(Full, R \ I) \in Nat /\ Total(Full, I) \in Nat
  BY <1>1, <1>4, TotalType
<1>9. Held(d) + Growth(d) <= Total(Full, R)
  BY <1>3, <1>5, <1>6, <1>7, <1>8
<1>10. Total(Full, R) \in Nat
  BY <1>5, <1>8
<1> QED
  BY <1>3, <1>9, <1>10 DEF R

(***************************************************************************)
(* reserve: what is committed on a replica.                                *)
(***************************************************************************)
Reserved ==
  ~OnDemand => \A d \in DecodePool : /\ kvReserved[d] = Total(Full, running[d])
                                     /\ kvReserved[d] <= KvBudget

LEMMA ReservedInit == Init => Reserved
<1> SUFFICES ASSUME Init, NEW d \in DecodePool
             PROVE  kvReserved[d] = Total(Full, running[d]) /\ kvReserved[d] <= KvBudget
  BY DEF Reserved
<1>1. kvReserved[d] = 0 /\ running[d] = {}
  BY DEF Init
<1> QED
  BY <1>1, TotalEmpty, DisaggAssumption

LEMMA ReservedNext == ASSUME IInv, IInv', AllFit, Reserved, [Next]_vars PROVE Reserved'
<1> SUFFICES ASSUME ~OnDemand, NEW e \in DecodePool
             PROVE  /\ kvReserved'[e] = Total(Full, running'[e])
                    /\ kvReserved'[e] <= KvBudget
  <2>1. Full' = Full
    BY LensKept DEF Full
  <2> QED
    BY <2>1 DEF Reserved
<1>1. /\ kvReserved[e] = Total(Full, running[e]) /\ kvReserved[e] <= KvBudget
      /\ kvReserved \in [DecodePool -> Int] /\ KvBudget \in Nat
      /\ running \in [DecodePool -> SUBSET Requests]
  BY DisaggAssumption DEF Reserved, IInv, TypeOK
<1>2. N \in Nat /\ Requests = 1 .. N /\ Full \in [1 .. N -> Nat]
  BY Typing, SumTypes DEF IInv
<1>3. ASSUME NEW d \in DecodePool, DecodeDone(d)
      PROVE  kvReserved'[e] = Total(Full, running'[e]) /\ kvReserved'[e] <= KvBudget
  <2> DEFINE R == running[d]
             F == Finishing(d)
  <2>1. /\ kvReserved' = [kvReserved EXCEPT ![d] = kvReserved[d] - Total(Full, F)]
        /\ running' = [running EXCEPT ![d] = R \ F]
    BY <1>3, DecodeDoneBooks, DecodeDonePlaces DEF IInv
  <2>2. F \in SUBSET R /\ R \in SUBSET (1 .. N)
    BY <1>2, Typing DEF IInv, BatchIntact
  <2> HIDE DEF F
  <2>3. /\ R \ F \in SUBSET (1 .. N) /\ F \in SUBSET (1 .. N)
        /\ (R \ F) \cup F = R /\ (R \ F) \cap F = {}
    BY <2>2
  <2>4. Total(Full, (R \ F) \cup F) = Total(Full, R \ F) + Total(Full, F)
    BY <1>2, <2>3, TotalSplit
  <2>5. Total(Full, R \ F) \in Nat /\ Total(Full, F) \in Nat
    BY <1>2, <2>3, TotalType
  <2>6. CASE e = d
    <3>1. kvReserved'[e] = kvReserved[e] - Total(Full, F) /\ running'[e] = R \ F
      BY <1>1, <2>1, <2>6
    <3>2. kvReserved[e] = Total(Full, R \ F) + Total(Full, F)
      BY <1>1, <2>3, <2>4, <2>6
    <3> QED
      BY <1>1, <2>5, <3>1, <3>2
  <2>7. CASE e # d
    BY <1>1, <2>1, <2>7
  <2> QED
    BY <2>6, <2>7
<1>4. CASE Admit \/ ForceAdmit
  <2>1. PICK d \in DecodePool : /\ Enter(d) /\ waitingDecode # << >>
                                /\ CanAdmit(d, Head(waitingDecode)) \/ running[d] = {}
    BY <1>4, EntersWithSlot DEF IInv
  <2> DEFINE r == Head(waitingDecode)
  <2>2. /\ r \in Requests /\ r \notin Batched
        /\ running'[d] = running[d] \cup {r}
        /\ \A f \in DecodePool \ {d} : running'[f] = running[f]
    BY <2>1, EnterPlaces DEF IInv
  <2>3. /\ kvReserved'[d] = kvReserved[d] + FullFp(r)
        /\ \A f \in DecodePool \ {d} : kvReserved'[f] = kvReserved[f]
    BY <1>1, <2>1 DEF Enter
  <2>4. \/ kvReserved[d] + FullFp(r) <= KvBudget
        \/ running[d] = {}
    BY <2>1 DEF CanAdmit
  <2>5. FullFp(r) \in Nat /\ FullFp(r) <= KvBudget /\ Full[r] = FullFp(r)
    BY <2>2, Typing DEF AllFit, FitsBudget, IInv, Full
  <2>6. r \notin running[d]
    BY <2>2, OnReplica
  <2> HIDE DEF r
  <2>7. Total(Full, running'[d]) = Total(Full, running[d]) + Full[r]
    <3>1. /\ running'[d] \in SUBSET (1 .. N) /\ r \in running'[d]
          /\ running'[d] \ {r} = running[d]
      BY <1>1, <1>2, <2>2, <2>6
    <3> QED
      BY <1>2, <3>1, TotalRemove
  <2>8. CASE e = d
    <3>1. kvReserved'[e] = Total(Full, running'[e])
      BY <1>1, <2>3, <2>5, <2>7, <2>8
    <3>2. kvReserved'[e] <= KvBudget
      <4>1. CASE running[d] = {}
        <5>1. kvReserved[e] = 0
          BY <1>1, <2>8, <4>1, TotalEmpty
        <5> QED
          BY <1>1, <2>3, <2>5, <2>8, <5>1
      <4> QED
        BY <2>3, <2>4, <2>8, <4>1
    <3> QED
      BY <3>1, <3>2
  <2>9. CASE e # d
    BY <1>1, <2>2, <2>3, <2>9
  <2> QED
    BY <2>8, <2>9
<1>5. CASE Preempt
  BY <1>5 DEF Preempt, Overflow
<1>6. CASE Still
  BY <1>1, <1>6 DEF Still
<1> QED
  BY <1>3, <1>4, <1>5, <1>6, StepKinds

LEMMA Booked == Spec => [](IInv /\ KvLedger /\ AllFit /\ Reserved)
<1>1. /\ IInv /\ IInv' /\ KvLedger /\ [Next]_vars => KvLedger'
      /\ IInv /\ IInv' /\ AllFit /\ Reserved /\ [Next]_vars => Reserved'
  BY LedgerNext, ReservedNext
<1> QED
  BY Invariance, LedgerInit, FitInit, FitNext, ReservedInit, <1>1, PTL DEF Spec

\* reserve: what is committed on a replica covers everybody on it to its last
\* token, and never more than the budget: no preemption is needed.
THEOREM ReserveIsEnough == Spec => []ReserveCovers
<1>1. IInv /\ KvLedger /\ AllFit /\ Reserved => ReserveCovers
  <2> SUFFICES ASSUME IInv, KvLedger, Reserved, ~OnDemand, NEW d \in DecodePool
               PROVE  /\ kvReserved[d] = Total(Full, running[d])
                      /\ kvUsed[d] <= kvReserved[d] /\ kvReserved[d] <= KvBudget
    BY DEF ReserveCovers, Full
  <2> QED
    BY GrownUnderFull DEF KvLedger, Reserved
<1> QED
  BY Booked, <1>1, PTL

-----------------------------------------------------------------------------
(***************************************************************************)
(* on_demand: the watermark.  An iteration starts with room for a token of *)
(* each of its members, or with one request alone; who joins it while it   *)
(* is under way was admitted below the watermark, and then a slot was free *)
(* of its members.                                                         *)
(***************************************************************************)
Joined(d) == Cardinality(iterBatch[d]) < MaxBatch /\ Held(d) <= Usable

Fits(d) == /\ iterBatch[d] = running[d]
           /\ Held(d) + Cardinality(running[d]) * KvPerToken <= Usable

MidIteration ==
  OnDemand => \A d \in DecodePool :
                iterBatch[d] # {} => Fits(d) \/ Cardinality(running[d]) = 1 \/ Joined(d)

LEMMA MidInit == Init => MidIteration
BY DEF Init, MidIteration

\* What the end of the admission test says in on_demand.
LEMMA AdmittedBelow ==
  ASSUME IInv, IInv', OnDemand, waitingDecode # << >>, NEW d \in DecodePool, Enter(d),
         CanAdmit(d, Head(waitingDecode))
  PROVE  Held(d)' <= Usable /\ Cardinality(iterBatch[d]) < MaxBatch
<1>1. Held(d)' = Held(d) + KvBytes(context[Head(waitingDecode)])
  BY EnterHeld
<1>2. Committed(d) = Held(d)
  BY SumTypes DEF IInv
<1>3. /\ Cardinality(running[d]) < MaxBatch
      /\ Committed(d) + KvBytes(context[Head(waitingDecode)]) <= Usable
  BY DEF CanAdmit
<1>4. Cardinality(iterBatch[d]) <= Cardinality(running[d])
  BY Typing, FS_Subset DEF IInv, BatchIntact
<1>5. /\ Cardinality(iterBatch[d]) \in Nat /\ Cardinality(running[d]) \in Nat
      /\ MaxBatch \in Nat
  BY Typing, FS_Subset, FS_CardinalityType, DisaggAssumption DEF IInv, BatchIntact
<1> QED
  BY <1>1, <1>2, <1>3, <1>4, <1>5

\* A replica whose batches and KV a step leaves alone.
LEMMA MidSame ==
  ASSUME OnDemand, MidIteration, NEW d \in DecodePool, running'[d] = running[d],
         iterBatch'[d] = iterBatch[d], Held(d)' = Held(d), iterBatch'[d] # {}
  PROVE  Fits(d)' \/ Cardinality(running'[d]) = 1 \/ Joined(d)'
BY DEF MidIteration, Fits, Joined

LEMMA MidNext ==
  ASSUME IInv, IInv', KvLedger, MidIteration, [Next]_vars
  PROVE  MidIteration'
<1> SUFFICES ASSUME OnDemand, NEW e \in DecodePool, iterBatch'[e] # {}
             PROVE  Fits(e)' \/ Cardinality(running'[e]) = 1 \/ Joined(e)'
  BY DEF MidIteration
<1>1. iterBatch \in [DecodePool -> SUBSET Requests] /\ running \in [DecodePool -> SUBSET Requests]
  BY DEF IInv, TypeOK
<1>2. ASSUME NEW d \in DecodePool, DecodeDone(d)
      PROVE  Fits(e)' \/ Cardinality(running'[e]) = 1 \/ Joined(e)'
  <2>1. /\ iterBatch' = [iterBatch EXCEPT ![d] = {}]
        /\ running' = [running EXCEPT ![d] = running[d] \ Finishing(d)]
    BY <1>2, DecodeDonePlaces DEF DecodeDone, IInv
  <2>2. e \in DecodePool \ {d}
    BY <1>1, <2>1
  <2>3. running'[e] = running[e] /\ iterBatch'[e] = iterBatch[e] /\ Held(e)' = Held(e)
    BY <1>1, <1>2, <2>1, <2>2, DecodeDoneHeld
  <2> QED
    BY <2>3, MidSame
<1>3. CASE Admit \/ ForceAdmit
  <2>1. PICK d \in DecodePool : /\ Enter(d) /\ waitingDecode # << >>
                                /\ CanAdmit(d, Head(waitingDecode)) \/ running[d] = {}
    BY <1>3, EntersWithSlot DEF IInv
  <2>2. iterBatch' = iterBatch
    BY <2>1 DEF Enter
  <2>3. CASE e = d
    <3>1. running[d] # {}
      BY <2>2, <2>3 DEF IInv, BatchIntact
    <3>2. Held(e)' <= Usable /\ Cardinality(iterBatch[e]) < MaxBatch
      BY <2>1, <2>3, <3>1, AdmittedBelow
    <3> QED
      BY <2>2, <3>2 DEF Joined
  <2>4. CASE e # d
    <3>1. running'[e] = running[e] /\ Held(e)' = Held(e)
      BY <2>1, <2>4, EnterPlaces, EnterHeld DEF IInv
    <3> QED
      BY <2>2, <3>1, MidSame
  <2> QED
    BY <2>3, <2>4
<1>4. CASE Preempt
  <2>1. PICK d, v : d = Min(Startable) /\ v = Max(running[d])
    OBVIOUS
  <2>2. iterBatch' = iterBatch
    BY <1>4 DEF Preempt
  <2>3. /\ iterBatch[d] = {}
        /\ \A f \in DecodePool \ {d} : Held(f)' = Held(f) /\ running'[f] = running[f]
    BY <1>4, <2>1, PreemptHeld
  <2> QED
    BY <2>2, <2>3, MidSame
<1>5. CASE Still /\ iterBatch' = iterBatch
  <2>1. running' = running /\ Held(e)' = Held(e)
    BY <1>5, BatchesHeld DEF Still
  <2> QED
    BY <1>5, <2>1, MidSame
<1>6. CASE Still /\ StartIteration
  <2>1. PICK d : d = Min(Startable)
    OBVIOUS
  <2>2. /\ d \in DecodePool /\ running[d] # {} /\ ~Overflow(d)
        /\ iterBatch' = [iterBatch EXCEPT ![d] = running[d]]
    BY <1>6, <2>1, Chosen DEF StartIteration, Startable, IInv
  <2>3. running' = running /\ Held(e)' = Held(e)
    BY <1>6, BatchesHeld DEF Still
  <2>4. CASE e = d
    <3>1. iterBatch'[e] = running[e]
      BY <1>1, <2>2, <2>4
    <3>2. Cardinality(running[e]) \in Nat /\ Cardinality(running[e]) # 0
      BY <2>2, <2>4, Typing, FS_CardinalityType, FS_EmptySet DEF IInv
    <3>3. \/ ~(Cardinality(running[e]) > 1)
          \/ ~(kvUsed[e] + Cardinality(running[e]) * KvPerToken > Usable)
      BY <2>2, <2>4 DEF Overflow
    <3>4. CASE ~(Cardinality(running[e]) > 1)
      BY <2>3, <3>2, <3>4
    <3>5. CASE ~(kvUsed[e] + Cardinality(running[e]) * KvPerToken > Usable)
      <4>1. kvUsed[e] = Held(e) /\ Held(e) \in Nat
        BY SumTypes DEF KvLedger, IInv
      <4>2. /\ Cardinality(running[e]) * KvPerToken \in Nat
            /\ Usable \in Nat
        BY <3>2, KvAssumption, DisaggAssumption
      <4>3. Held(e) + Cardinality(running[e]) * KvPerToken <= Usable
        BY <3>5, <4>1, <4>2
      <4> QED
        BY <2>3, <3>1, <4>3 DEF Fits
    <3> QED
      BY <3>3, <3>4, <3>5
  <2>5. CASE e # d
    BY <1>1, <2>2, <2>3, <2>5, MidSame
  <2> QED
    BY <2>4, <2>5
<1> QED
  BY <1>2, <1>3, <1>4, <1>5, <1>6, StepKinds

LEMMA MidInvariant == Spec => [](IInv /\ KvLedger /\ AllFit /\ Reserved /\ MidIteration)
<1>1. IInv /\ IInv' /\ KvLedger /\ MidIteration /\ [Next]_vars => MidIteration'
  BY MidNext
<1> QED
  BY Booked, Invariance, MidInit, <1>1, PTL DEF Spec

\* Between events a decode replica is under the watermark or runs one request:
\* the admission test charges a replica with what it holds although members
\* of the iteration under way are about to hold more, and the eviction at the
\* next start makes up for it.
THEOREM RestsUnderWatermark == Spec => []WatermarkAtRest
<1>1. IInv /\ KvLedger /\ Reserved /\ MidIteration /\ Busy => WatermarkAtRest
  <2> SUFFICES ASSUME IInv, KvLedger, Reserved, MidIteration, Busy, pc = "event",
                      NEW d \in DecodePool
               PROVE  Held(d) <= Usable \/ Cardinality(running[d]) = 1
    BY DEF WatermarkAtRest
  <2>1. Held(d) \in Nat /\ Usable \in Nat /\ KvPerToken \in Nat
    BY SumTypes, DisaggAssumption, KvAssumption DEF IInv
  <2>2. CASE ~OnDemand
    BY <2>2, <2>1, GrownUnderFull, DisaggAssumption DEF Reserved
  <2>3. CASE OnDemand /\ running[d] = {}
    <3>1. Held(d) = 0
      BY <2>3, SumTypes, TotalEmpty DEF IInv
    <3> QED
      BY <2>1, <3>1
  <2>4. CASE OnDemand /\ running[d] # {}
    <3>1. iterBatch[d] # {}
      BY <2>4 DEF Busy, AllIterate
    <3>2. Fits(d) \/ Cardinality(running[d]) = 1 \/ Joined(d)
      BY <2>4, <3>1 DEF MidIteration
    <3>3. CASE Fits(d)
      <4>1. Cardinality(running[d]) * KvPerToken \in Nat
        BY Typing, FS_CardinalityType, KvAssumption DEF IInv
      <4> QED
        BY <2>1, <3>3, <4>1 DEF Fits
    <3> QED
      BY <3>2, <3>3 DEF Joined
  <2> QED
    BY <2>2, <2>3, <2>4
<1> QED
  BY MidInvariant, Invariance, BusyInit, BusyNext, <1>1, PTL DEF Spec

-----------------------------------------------------------------------------
(***************************************************************************)
(* The hard budget.  The headroom above the watermark must hold one token  *)
(* of every member of an iteration that somebody else has joined.          *)
(***************************************************************************)
Headroom == OnDemand => Usable + (MaxBatch - 1) * KvPerToken <= KvBudget

\* A replica with one request never outgrows the budget.
LEMMA LoneFits ==
  ASSUME IInv, AllFit, NEW d \in DecodePool, Cardinality(running[d]) = 1
  PROVE  Held(d) + Growth(d) <= KvBudget
<1>1. /\ N \in Nat /\ Requests = 1 .. N /\ running[d] \in SUBSET (1 .. N)
      /\ Full \in [1 .. N -> Nat] /\ IsFiniteSet(running[d])
  BY Typing, SumTypes DEF IInv
<1>2. PICK s \in running[d] : TRUE
  BY FS_EmptySet
<1>3. running[d] = {s}
  <2>1. \A p \in running[d] : p = s
    BY <1>1, <1>2, AtMostOne
  <2> QED
    BY <1>2, <2>1
<1>4. Total(Full, running[d]) = Full[s]
  BY <1>1, <1>2, <1>3, TotalOne
<1>5. Full[s] = FullFp(s) /\ FullFp(s) <= KvBudget /\ FullFp(s) \in Nat
  BY <1>1, <1>2, Typing DEF Full, AllFit, FitsBudget, IInv
<1>6. Held(d) + Growth(d) <= FullFp(s) /\ Held(d) + Growth(d) \in Nat
  <2>1. Held(d) \in Nat /\ Growth(d) \in Nat
    BY GrownIs
  <2> QED
    BY <1>4, <1>5, <2>1, GrownUnderFull
<1> QED
  BY <1>5, <1>6, DisaggAssumption

\* The end of an iteration grows its members by a token at most each.
LEMMA GrowthBounded ==
  ASSUME IInv, NEW d \in DecodePool
  PROVE  /\ Growth(d) <= Cardinality(iterBatch[d]) * KvPerToken
         /\ Cardinality(iterBatch[d]) \in Nat
<1>1. /\ N \in Nat /\ Requests = 1 .. N /\ iterBatch[d] \in SUBSET (1 .. N)
      /\ Gain \in [1 .. N -> Nat] /\ Growth(d) = Total(Gain, iterBatch[d])
  BY Typing, SumTypes DEF IInv
<1>2. \A s \in iterBatch[d] : Gain[s] <= KvPerToken
  <2> TAKE s \in iterBatch[d]
  <2>1. s \in Requests /\ context[s] \in Nat
    BY <1>1, Typing DEF IInv
  <2>2. KvGrow(context[s]) \in 0 .. KvPerToken
    BY <2>1, GrowIsDifference
  <2> QED
    BY <2>1, <2>2, KvAssumption DEF Gain
<1> QED
  BY <1>1, <1>2, TotalBounded, KvAssumption

LEMMA GrownWithinBudget ==
  ASSUME Headroom, IInv, AllFit, Reserved, MidIteration,
         NEW d \in DecodePool, iterBatch[d] # {}
  PROVE  Held(d) + Growth(d) <= KvBudget
<1>1. /\ Held(d) \in Nat /\ Growth(d) \in Nat /\ Usable \in Nat /\ KvBudget \in Nat
      /\ Usable <= KvBudget /\ KvPerToken \in Nat /\ MaxBatch \in Nat \ {0}
  BY SumTypes, DisaggAssumption, KvAssumption DEF IInv
<1>2. CASE ~OnDemand
  BY <1>1, <1>2, GrownUnderFull DEF Reserved
<1>3. CASE OnDemand /\ Fits(d)
  <2>1. Growth(d) <= Cardinality(running[d]) * KvPerToken
    BY <1>3, GrowthBounded DEF Fits
  <2>2. Cardinality(running[d]) * KvPerToken \in Nat
    BY <1>1, Typing, FS_CardinalityType DEF IInv
  <2> QED
    BY <1>1, <1>3, <2>1, <2>2 DEF Fits
<1>4. CASE OnDemand /\ Cardinality(running[d]) = 1
  BY <1>4, LoneFits
<1>5. CASE OnDemand /\ Joined(d)
  <2>1. /\ Growth(d) <= Cardinality(iterBatch[d]) * KvPerToken
        /\ Cardinality(iterBatch[d]) \in Nat
    BY GrowthBounded
  <2>2. Cardinality(iterBatch[d]) <= MaxBatch - 1 /\ MaxBatch - 1 \in Nat
    BY <1>1, <1>5, <2>1 DEF Joined
  <2>3. /\ Cardinality(iterBatch[d]) * KvPerToken \in Nat
        /\ Cardinality(iterBatch[d]) * KvPerToken <= (MaxBatch - 1) * KvPerToken
        /\ (MaxBatch - 1) * KvPerToken \in Nat
    BY <1>1, <2>1, <2>2, TimesMonotone
  <2>4. Held(d) <= Usable /\ Usable + (MaxBatch - 1) * KvPerToken <= KvBudget
    BY <1>5 DEF Joined, Headroom
  <2> QED
    BY <1>1, <2>1, <2>3, <2>4
<1> QED
  BY <1>2, <1>3, <1>4, <1>5 DEF MidIteration

LEMMA EnteredWithinBudget ==
  ASSUME IInv, IInv', AllFit, Reserved, waitingDecode # << >>,
         NEW d \in DecodePool, Enter(d),
         CanAdmit(d, Head(waitingDecode)) \/ running[d] = {}
  PROVE  Held(d)' <= KvBudget
<1> DEFINE r == Head(waitingDecode)
<1>1. /\ Held(d)' \in Nat /\ Held(d) \in Nat /\ Usable \in Nat /\ KvBudget \in Nat
      /\ Usable <= KvBudget
  BY NextTypes, SumTypes, DisaggAssumption DEF IInv
<1>2. Held(d)' = Held(d) + KvBytes(context[r])
  BY EnterHeld
<1>3. r \in Items(waitingDecode)
  BY EnterPlaces DEF IInv
<1>4. OnDemand /\ CanAdmit(d, r) => Held(d)' <= Usable
  BY AdmittedBelow
<1>5. ~OnDemand /\ CanAdmit(d, r) => kvReserved[d] + FullFp(r) <= KvBudget
  BY DEF CanAdmit
<1> HIDE DEF r
<1>6. r \in Requests /\ Foot[r] \in Nat /\ Full[r] \in Nat /\ Foot[r] <= Full[r]
  BY <1>3, FootUnderFull
<1>7. Foot[r] = KvBytes(context[r]) /\ Full[r] = FullFp(r) /\ FullFp(r) <= KvBudget
  BY <1>6 DEF Foot, Full, AllFit, FitsBudget
<1>8. CASE OnDemand /\ CanAdmit(d, r)
  BY <1>1, <1>4, <1>8
<1>9. CASE ~OnDemand /\ CanAdmit(d, r)
  <2>1. kvReserved[d] \in Int /\ Held(d) <= kvReserved[d]
    BY <1>9, GrownUnderFull DEF Reserved, IInv, TypeOK
  <2> QED
    BY <1>1, <1>2, <1>5, <1>6, <1>7, <1>9, <2>1
<1>10. CASE running[d] = {}
  <2>1. Held(d) = 0
    BY <1>10, SumTypes, TotalEmpty DEF IInv
  <2> QED
    BY <1>1, <1>2, <1>6, <1>7, <2>1
<1> QED
  BY <1>8, <1>9, <1>10 DEF r

LEMMA BudgetNext ==
  ASSUME Headroom, IInv, IInv', KvLedger, KvLedger', AllFit, Reserved,
         MidIteration, HardBudget, [Next]_vars
  PROVE  HardBudget'
<1>1. peakKv \in Int /\ peakKv <= KvBudget
  BY DEF IInv, TypeOK, HardBudget
<1>2. ASSUME NEW d \in DecodePool, DecodeDone(d) PROVE HardBudget'
  <2>1. peakKv' = Larger(peakKv, kvUsed[d] + Growth(d)) /\ iterBatch[d] # {}
    BY <1>2, DecodeDoneBooks DEF DecodeDone
  <2>2. kvUsed[d] = Held(d) /\ Held(d) + Growth(d) <= KvBudget
    BY <2>1, GrownWithinBudget DEF KvLedger
  <2> QED
    BY <1>1, <2>1, <2>2 DEF Larger, HardBudget
<1>3. CASE Admit \/ ForceAdmit
  <2>1. PICK d \in DecodePool : /\ Enter(d) /\ waitingDecode # << >>
                                /\ CanAdmit(d, Head(waitingDecode)) \/ running[d] = {}
    BY <1>3, EntersWithSlot DEF IInv
  <2>2. peakKv' = Larger(peakKv, kvUsed'[d])
    BY <2>1 DEF Enter
  <2>3. kvUsed'[d] = Held(d)' /\ Held(d)' <= KvBudget
    BY <2>1, EnteredWithinBudget DEF KvLedger
  <2> QED
    BY <1>1, <2>2, <2>3 DEF Larger, HardBudget
<1>4. CASE Preempt
  BY <1>1, <1>4 DEF Preempt, HardBudget
<1>5. CASE Still
  BY <1>1, <1>5 DEF Still, HardBudget
<1> QED
  BY <1>2, <1>3, <1>4, <1>5, StepKinds

\* With one token of headroom above the watermark for every other member of a
\* batch, a decode replica's DRAM is never overbooked, although requests join
\* an iteration whose members' growth nobody has charged.  With less it can be:
\* the run disagg_full_watermark.
THEOREM BudgetKept ==
  ASSUME Headroom
  PROVE  Spec => []HardBudget
<1>1. Init => HardBudget
  BY DisaggAssumption DEF Init, HardBudget
<1>2. IInv /\ KvLedger /\ AllFit /\ Reserved /\ MidIteration /\ IInv' /\ KvLedger'
        /\ HardBudget /\ [Next]_vars => HardBudget'
  BY BudgetNext
<1> QED
  BY MidInvariant, <1>1, <1>2, PTL DEF Spec
=============================================================================
