---------------------------- MODULE ServeKvProofs ----------------------------
(***************************************************************************)
(* The KV properties of the serving loop, for every workload and budget:   *)
(* the ledger against what the requests hold, the reservations, and the    *)
(* budget itself.                                                          *)
(***************************************************************************)
EXTENDS ServeProofs

\* The footprint of each request, and what each would hold in the end.
Foot == [r \in Requests |-> KvBytes(context[r])]

Full == [r \in Requests |-> FullFp(r)]

-----------------------------------------------------------------------------
LEMMA TimesSum ==
  ASSUME NEW a \in Nat, NEW b \in Nat, NEW k \in Nat
  PROVE  (a + b) * k = a * k + b * k
OBVIOUS

LEMMA TimesSplit ==
  ASSUME NEW c \in Nat, NEW j \in Nat, NEW k \in Nat
  PROVE  c * (j + k) = c * j + c * k
OBVIOUS

\* A chunk of c tokens never adds more than KvPerToken a token, and exactly
\* that without windowed layers.
LEMMA ChunkFootprint ==
  ASSUME NEW a \in Nat, NEW c \in Nat
  PROVE  /\ c * KvPerToken \in Nat
         /\ KvBytes(a + c) <= KvBytes(a) + c * KvPerToken
         /\ SwaShare = 0 => KvBytes(a + c) = KvBytes(a) + c * KvPerToken
<1> DEFINE kept(ctx) == IF ctx > SwaWindow THEN SwaWindow ELSE ctx
           q == KvPerToken - SwaShare
<1>1. q \in Nat /\ SwaShare \in Nat /\ KvPerToken = q + SwaShare
  BY KvAssumption
<1>2. kept(a) \in Nat /\ kept(a + c) \in Nat /\ kept(a + c) <= kept(a) + c
  BY KvAssumption
<1>3. /\ KvBytes(a) = a * q + kept(a) * SwaShare
      /\ KvBytes(a + c) = (a + c) * q + kept(a + c) * SwaShare
  BY KvBytesByLayer
<1> HIDE DEF kept, q
<1>4. /\ (a + c) * q = a * q + c * q
      /\ c * KvPerToken = c * q + c * SwaShare
  BY <1>1, TimesSum, TimesSplit
<1>5. kept(a + c) * SwaShare <= kept(a) * SwaShare + c * SwaShare
  <2>1. kept(a) + c \in Nat
    BY <1>2
  <2>2. kept(a + c) * SwaShare <= (kept(a) + c) * SwaShare
    BY <1>1, <1>2, <2>1, TimesMonotone
  <2>3. (kept(a) + c) * SwaShare = kept(a) * SwaShare + c * SwaShare
    BY <1>1, <1>2, TimesSum
  <2> QED
    BY <2>2, <2>3
<1>6. /\ a * q \in Nat /\ c * q \in Nat /\ c * SwaShare \in Nat
      /\ kept(a) * SwaShare \in Nat /\ kept(a + c) * SwaShare \in Nat
  BY <1>1, <1>2, TimesMonotone
<1>7. SwaShare = 0 => kept(a) * SwaShare = 0 /\ kept(a + c) * SwaShare = 0 /\ c * SwaShare = 0
  BY <1>2
<1> QED
  BY <1>3, <1>4, <1>5, <1>6, <1>7

-----------------------------------------------------------------------------
(***************************************************************************)
(* What each step does to the KV held.                                     *)
(***************************************************************************)
LEMMA FootTypes ==
  ASSUME TypeOK
  PROVE  /\ Foot \in [1 .. N -> Nat] /\ Full \in [1 .. N -> Nat]
         /\ N \in Nat /\ Requests = 1 .. N
         /\ running \in SUBSET (1 .. N) /\ Decoders \in SUBSET (1 .. N)
         /\ Pending \in SUBSET (1 .. N) /\ Finishing \in SUBSET (1 .. N)
         /\ Held = Total(Foot, running) /\ Held \in Nat
BY SumTypes, Typing DEF Foot, Full, Held

LEMMA FootTypesNext ==
  ASSUME IInv'
  PROVE  /\ Foot' \in [1 .. N -> Nat] /\ running' \in SUBSET (1 .. N)
         /\ Held' = Total(Foot', running') /\ Held' \in Nat
<1>1. /\ context' \in [Requests -> Nat] /\ running' \in SUBSET Requests
      /\ Requests = 1 .. N /\ N \in Nat
  BY ServeAssumption DEF IInv, TypeOK, Requests
<1>2. \A r \in Requests : KvBytes(context'[r]) \in Nat
  BY <1>1, KvBytesType
<1>3. Foot' \in [1 .. N -> Nat]
  BY <1>1, <1>2 DEF Foot
<1>4. Held' = Total(Foot', running')
  BY DEF Held, Foot
<1> QED
  BY <1>1, <1>3, <1>4, TotalType

\* The batch is its decoders and its pending requests.
LEMMA BatchParts ==
  ASSUME TypeOK
  PROVE  /\ running = Decoders \cup Pending /\ Decoders \cap Pending = {}
         /\ Held = Total(Foot, Decoders) + Total(Foot, Pending)
         /\ Total(Foot, Decoders) \in Nat /\ Total(Foot, Pending) \in Nat
<1>1. running = Decoders \cup Pending /\ Decoders \cap Pending = {}
  BY DEF Decoders, Pending
<1>2. /\ Foot \in [1 .. N -> Nat] /\ N \in Nat /\ Held = Total(Foot, running)
      /\ Decoders \in SUBSET (1 .. N) /\ Pending \in SUBSET (1 .. N)
  BY FootTypes
<1>3. Total(Foot, Decoders \cup Pending) = Total(Foot, Decoders) + Total(Foot, Pending)
  BY <1>1, <1>2, TotalSplit
<1> QED
  BY <1>1, <1>2, <1>3, TotalType

LEMMA EnterHeld ==
  ASSUME IInv, IInv', waiting # << >>, Enter(Head(waiting))
  PROVE  Held' = Held
<1> DEFINE r == Head(waiting)
<1>1. r \in Requests /\ r \notin running
  BY QueueIs, TailQueue DEF IInv
<1>2. running' = running \cup {r} /\ context' = [context EXCEPT ![r] = 0]
  BY DEF Enter
<1> HIDE DEF r
<1>3. Foot'[r] = 0 /\ \A x \in running : Foot'[x] = Foot[x]
  <2>1. context \in [Requests -> Nat] /\ running \in SUBSET Requests
    BY DEF IInv, TypeOK
  <2>2. context'[r] = 0 /\ \A x \in running : x \in Requests /\ context'[x] = context[x]
    BY <1>1, <1>2, <2>1
  <2>3. \A x \in Requests : Foot'[x] = KvBytes(context'[x]) /\ Foot[x] = KvBytes(context[x])
    BY DEF Foot
  <2> QED
    BY <1>1, <2>2, <2>3, KvBytesZero
<1>4. /\ Foot' \in [1 .. N -> Nat] /\ N \in Nat /\ running' \in SUBSET (1 .. N)
      /\ Held' = Total(Foot', running')
  BY FootTypes, FootTypesNext DEF IInv
<1>5. Total(Foot', running') = Total(Foot', running' \ {r}) + Foot'[r]
  BY <1>2, <1>4, TotalRemove
<1>6. Total(Foot', running) = Total(Foot, running)
  BY <1>3, TotalEqual
<1>7. running' \ {r} = running /\ Held = Total(Foot, running) /\ Held \in Nat
  BY <1>1, <1>2, FootTypes DEF IInv
<1>8. Total(Foot', running' \ {r}) = Held
  BY <1>6, <1>7
<1>9. Held' = Held + 0
  BY <1>3, <1>4, <1>5, <1>8
<1> QED
  BY <1>7, <1>9

LEMMA PreemptHeld ==
  ASSUME IInv, IInv', Preempt
  PROVE  /\ Held = Held' + KvBytes(context[Victim])
         /\ kvUsed' = kvUsed - KvBytes(context[Victim])
         /\ running' = running \ {Victim}
         /\ \A x \in running' : context'[x] = context[x]
<1> DEFINE v == Victim
<1>1. v \in running
  BY VictimDecodes, Typing DEF Preempt, IInv
<1>2. /\ running' = running \ {v} /\ context' = [context EXCEPT ![v] = 0]
      /\ kvUsed' = kvUsed - KvBytes(context[v])
  BY DEF Preempt
<1> HIDE DEF v
<1>3. \A x \in running' : context'[x] = context[x]
  <2>1. context \in [Requests -> Nat] /\ running \in SUBSET Requests
    BY DEF IInv, TypeOK
  <2> QED
    BY <1>1, <1>2, <2>1
<1>4. \A x \in Requests : Foot'[x] = KvBytes(context'[x]) /\ Foot[x] = KvBytes(context[x])
  BY DEF Foot
<1>5. running \in SUBSET Requests /\ running' \in SUBSET Requests
  BY DEF IInv, TypeOK
<1>6. Total(Foot', running') = Total(Foot, running')
  <2>1. \A x \in running' : Foot'[x] = Foot[x]
    BY <1>3, <1>4, <1>5
  <2> QED
    BY <2>1, TotalEqual
<1>7. Total(Foot, running) = Total(Foot, running \ {v}) + Foot[v]
  <2>1. Foot \in [1 .. N -> Nat] /\ N \in Nat /\ running \in SUBSET (1 .. N)
    BY FootTypes DEF IInv
  <2> QED
    BY <1>1, <2>1, TotalRemove
<1>8. /\ Held = Total(Foot, running) /\ Held' = Total(Foot', running')
      /\ Foot[v] = KvBytes(context[v])
  BY <1>1, <1>4, <1>5, FootTypes, FootTypesNext DEF IInv
<1>9. Held = Held' + KvBytes(context[v])
  BY <1>2, <1>6, <1>7, <1>8
<1> QED
  BY <1>2, <1>3, <1>9 DEF v

LEMMA PrefillHeld ==
  ASSUME IInv, IInv', PrefillStep, \A x \in Requests : prefillDone[x] = 0
  PROVE  /\ Held' = Held + KvBytes(Target(Prefiller))
         /\ kvUsed' = kvUsed + KvBytes(Target(Prefiller))
         /\ Prefiller \in Pending /\ running' = running
         /\ \A x \in Requests \ {Prefiller} : context'[x] = context[x]
<1> DEFINE r == Prefiller
<1>1. r \in Pending /\ r \in Requests /\ r \in running
  BY PrefillerPending, Typing DEF PrefillStep, PrefillTurn, IInv
<1>2. /\ running' = running /\ context' = [context EXCEPT ![r] = Target(r)]
      /\ kvUsed' = kvUsed + KvBytes(Target(r))
  BY DEF PrefillStep, queue
<1>3. context[r] = 0
  BY <1>1 DEF IInv, TokenConservation
<1> HIDE DEF r
<1>4. context'[r] = Target(r) /\ \A x \in Requests \ {r} : context'[x] = context[x]
  <2>1. context \in [Requests -> Nat]
    BY DEF IInv, TypeOK
  <2> QED
    BY <1>1, <1>2, <2>1
<1>5. \A x \in Requests : Foot'[x] = KvBytes(context'[x]) /\ Foot[x] = KvBytes(context[x])
  BY DEF Foot
<1>6. Foot[r] = 0 /\ Foot'[r] = KvBytes(Target(r)) /\ KvBytes(Target(r)) \in Nat
  BY <1>1, <1>3, <1>4, <1>5, KvBytesZero, Typing DEF IInv
<1>7. Total(Foot', running) = Total(Foot, running) - Foot[r] + Foot'[r]
  <2>1. Foot \in [1 .. N -> Nat] /\ N \in Nat /\ running \in SUBSET (1 .. N)
    BY FootTypes DEF IInv
  <2>2. Foot' \in [1 .. N -> Nat] /\ running \in SUBSET Requests
    BY FootTypesNext, Typing DEF IInv
  <2>3. \A x \in running \ {r} : Foot'[x] = Foot[x]
    BY <1>4, <1>5, <2>2
  <2> QED
    BY <1>1, <2>1, <2>2, <2>3, TotalOneChanges
<1>8. /\ Held = Total(Foot, running) /\ Held' = Total(Foot', running) /\ Held \in Nat
  BY <1>2, FootTypes, FootTypesNext DEF IInv
<1>9. Held' = Held + KvBytes(Target(r))
  BY <1>6, <1>7, <1>8
<1> QED
  BY <1>1, <1>2, <1>4, <1>9 DEF r

\* A decode iteration: the decoders grow, the finished ones leave, and the
\* pending ones hold what they hold afterwards.
LEMMA EmitHeld ==
  ASSUME IInv, IInv', running' = running \ Finishing,
         \A x \in Decoders : context'[x] = context[x] + 1
  PROVE  /\ Held' + Released = Total(Foot, Decoders) + Growth + Total(Foot', Pending)
         /\ Total(Foot, Decoders) \in Nat /\ Total(Foot', Pending) \in Nat
<1> DEFINE new == Foot'
           old == Foot
           gr == [r \in Requests |-> KvGrow(context[r])]
           rl == [r \in Requests |-> KvBytes(context[r] + 1)]
<1>1. /\ old \in [1 .. N -> Nat] /\ new \in [1 .. N -> Nat] /\ N \in Nat
      /\ Requests = 1 .. N
      /\ gr \in [1 .. N -> Nat] /\ rl \in [1 .. N -> Nat]
      /\ Decoders \in SUBSET (1 .. N) /\ Pending \in SUBSET (1 .. N)
      /\ Finishing \in SUBSET (1 .. N) /\ running \in SUBSET (1 .. N)
      /\ Held' = Total(new, running') /\ Held' \in Nat
  BY FootTypes, FootTypesNext, SumTypes DEF IInv
<1>2. \A x \in Requests : /\ new[x] = KvBytes(context'[x]) /\ old[x] = KvBytes(context[x])
                           /\ gr[x] = KvGrow(context[x]) /\ rl[x] = KvBytes(context[x] + 1)
  BY DEF Foot
<1>3. Growth = Total(gr, Decoders) /\ Released = Total(rl, Finishing)
  BY DEF Growth, Released
<1> HIDE DEF new, old, gr, rl
<1>4. \A x \in Decoders : new[x] = old[x] + gr[x] /\ new[x] = rl[x]
  <2> TAKE x \in Decoders
  <2>1. x \in Requests /\ context[x] \in Nat /\ context'[x] = context[x] + 1
    BY Typing DEF IInv
  <2>2. KvBytes(context[x] + 1) = KvBytes(context[x]) + KvGrow(context[x])
    BY <2>1, GrowIsDifference
  <2>3. /\ new[x] = KvBytes(context'[x]) /\ old[x] = KvBytes(context[x])
        /\ gr[x] = KvGrow(context[x]) /\ rl[x] = KvBytes(context[x] + 1)
    BY <1>2, <2>1
  <2> QED
    BY <2>1, <2>2, <2>3
<1>5. Total(new, Decoders) = Total(old, Decoders) + Growth
  <2>1. /\ old \in [1 .. N -> Nat] /\ new \in [1 .. N -> Nat] /\ gr \in [1 .. N -> Nat]
        /\ N \in Nat /\ Decoders \in SUBSET (1 .. N)
    BY <1>1
  <2>2. \A x \in Decoders : new[x] = old[x] + gr[x]
    BY <1>4
  <2>3. Total(new, Decoders) = Total(old, Decoders) + Total(gr, Decoders)
    BY <2>1, <2>2, TotalPlus
  <2> QED
    BY <1>3, <2>3
<1>6. Finishing \in SUBSET Decoders
  BY DEF Finishing
<1>7. Total(new, Finishing) = Released
  BY <1>3, <1>4, <1>6, TotalEqual
<1>8. running = Decoders \cup Pending /\ Decoders \cap Pending = {}
  BY DEF Decoders, Pending
<1>9. Total(new, running) = Total(new, Decoders) + Total(new, Pending)
  <2>1. /\ new \in [1 .. N -> Nat] /\ N \in Nat
        /\ Decoders \in SUBSET (1 .. N) /\ Pending \in SUBSET (1 .. N)
    BY <1>1
  <2>2. Total(new, Decoders \cup Pending) = Total(new, Decoders) + Total(new, Pending)
    BY <1>8, <2>1, TotalSplit
  <2> QED
    BY <1>8, <2>2
<1>10. Total(new, running) = Held' + Released
  <2>1. /\ running' \cup Finishing = running /\ running' \cap Finishing = {}
        /\ running' \in SUBSET (1 .. N)
    BY <1>1, <1>6, <1>8
  <2>2. new \in [1 .. N -> Nat] /\ N \in Nat /\ Finishing \in SUBSET (1 .. N)
    BY <1>1
  <2> DEFINE rest == running'
  <2>3. rest \in SUBSET (1 .. N) /\ rest \cap Finishing = {}
    BY <2>1
  <2> HIDE DEF rest
  <2>4. Total(new, rest \cup Finishing) = Total(new, rest) + Total(new, Finishing)
    BY <2>2, <2>3, TotalSplit
  <2> QED
    BY <1>1, <1>7, <2>1, <2>4 DEF rest
<1>11. Total(old, Decoders) \in Nat /\ Total(new, Pending) \in Nat
  BY <1>1, TotalType
<1> QED
  BY <1>5, <1>9, <1>10, <1>11 DEF new, old

LEMMA DecodeHeld ==
  ASSUME IInv, IInv', DecodeStep
  PROVE  /\ Held' = (Held + Growth) - Released
         /\ kvUsed' = (kvUsed + Growth) - Released
         /\ running' = running \ Finishing
         /\ \A x \in Pending : context'[x] = context[x]
<1>1. /\ running' = running \ Finishing
      /\ kvUsed' = kvUsed + Growth - Released
      /\ \A x \in Requests : context'[x] = IF x \in Decoders THEN context[x] + 1 ELSE context[x]
  BY DEF DecodeStep, EmitTokens
<1>2. /\ Decoders \in SUBSET Requests /\ Pending \in SUBSET Requests
      /\ Decoders \cap Pending = {}
  BY BatchParts, Typing, FootTypes DEF IInv
<1>3. /\ \A x \in Decoders : context'[x] = context[x] + 1
      /\ \A x \in Pending : context'[x] = context[x]
  BY <1>1, <1>2
<1>4. /\ Held' + Released = Total(Foot, Decoders) + Growth + Total(Foot', Pending)
      /\ Total(Foot, Decoders) \in Nat /\ Total(Foot', Pending) \in Nat
  BY <1>1, <1>3, EmitHeld
<1>5. Total(Foot', Pending) = Total(Foot, Pending)
  <2>1. \A x \in Pending : Foot'[x] = Foot[x]
    BY <1>2, <1>3 DEF Foot
  <2> QED
    BY <2>1, TotalEqual
<1>6. Held = Total(Foot, Decoders) + Total(Foot, Pending)
  BY BatchParts DEF IInv
<1>7. /\ Growth \in Nat /\ Released \in Nat /\ kvUsed \in Int
      /\ Held \in Nat /\ Held' \in Nat
  BY SumTypes, FootTypesNext DEF IInv, TypeOK
<1>8. Held' = (Held + Growth) - Released
  BY <1>4, <1>5, <1>6, <1>7
<1>9. kvUsed' = (kvUsed + Growth) - Released
  BY <1>1, <1>7
<1> QED
  BY <1>1, <1>3, <1>8, <1>9

LEMMA MixedHeld ==
  ASSUME IInv, IInv', MixedStep
  PROVE  /\ ChunkSize \in Nat /\ ChunkSize * KvPerToken \in Nat
         /\ Held' + Released <= Held + Growth + ChunkSize * KvPerToken
         /\ SwaShare = 0 =>
              Held' + Released = Held + Growth + ChunkSize * KvPerToken
         /\ kvUsed' + Released = kvUsed + Growth + ChunkSize * KvPerToken
         /\ running' = running \ Finishing
         /\ \A x \in Pending : context'[x] = context[x] \/ x = Prefiller
<1> DEFINE c == ChunkSize
           filled == IF ChunkSize = 0 THEN {} ELSE {Prefiller}
<1>1. /\ running' = running \ Finishing
      /\ kvUsed' = (kvUsed + Growth + c * KvPerToken) - Released
      /\ \A x \in Requests : context'[x] =
           CASE x \in filled   -> prefillDone[x] + c
             [] x \in Decoders -> context[x] + 1
             [] OTHER          -> context[x]
  BY DEF MixedStep, EmitTokens
<1>2. /\ Decoders \in SUBSET Requests /\ Pending \in SUBSET Requests
      /\ Decoders \cap Pending = {} /\ N \in Nat /\ Requests = 1 .. N
  BY BatchParts, Typing, FootTypes DEF IInv
<1>3. filled \in SUBSET Pending /\ c \in Nat /\ (c = 0 <=> filled = {})
  <2>1. \A r \in Pending : prefillDone[r] < Target(r)
    BY DEF IInv, TokenConservation
  <2>2. c \in 0 .. Chunk /\ Chunk \in Nat
    BY <2>1, ChunkSizeType, ServeAssumption DEF IInv
  <2>3. c # 0 => Pending # {}
    BY DEF ChunkSize
  <2>4. c # 0 => Prefiller \in Pending
    BY <2>3, PrefillerPending DEF IInv
  <2> QED
    BY <2>2, <2>4
<1>4. \A x \in filled : x = Prefiller
  OBVIOUS
<1>5. \A x, y \in filled : x = y
  OBVIOUS
<1>6. c * KvPerToken \in Nat
  BY <1>3, ChunkFootprint
<1> HIDE DEF c, filled
<1>7. /\ \A x \in Decoders : context'[x] = context[x] + 1
      /\ \A x \in Pending : x \notin filled => context'[x] = context[x]
      /\ \A x \in filled : context'[x] = context[x] + c
  <2>1. \A x \in Pending : context[x] = prefillDone[x]
    BY DEF IInv, TokenConservation
  <2> QED
    BY <1>1, <1>2, <1>3, <2>1
<1>8. /\ Held' + Released = Total(Foot, Decoders) + Growth + Total(Foot', Pending)
      /\ Total(Foot, Decoders) \in Nat /\ Total(Foot', Pending) \in Nat
  BY <1>1, <1>7, EmitHeld
<1> DEFINE old == Foot
           new == Foot'
<1>9. /\ old \in [1 .. N -> Nat] /\ new \in [1 .. N -> Nat]
      /\ \A x \in Requests : new[x] = KvBytes(context'[x]) /\ old[x] = KvBytes(context[x])
  BY FootTypes, FootTypesNext DEF IInv, Foot
<1>10. /\ Held = Total(Foot, Decoders) + Total(old, Pending)
       /\ Total(old, Pending) \in Nat
  BY BatchParts DEF IInv
<1> HIDE DEF old, new
<1>11. /\ Total(new, Pending) <= Total(old, Pending) + c * KvPerToken
       /\ SwaShare = 0 => Total(new, Pending) = Total(old, Pending) + c * KvPerToken
  <2>1. CASE filled = {}
    <3>1. \A x \in Pending : new[x] = old[x]
      BY <1>2, <1>7, <1>9, <2>1
    <3>2. Total(new, Pending) = Total(old, Pending)
      BY <3>1, TotalEqual
    <3>3. c * KvPerToken = 0
      <4>1. c = 0
        BY <1>3, <2>1
      <4>2. 0 * KvPerToken = 0
        BY KvAssumption
      <4> QED
        BY <4>1, <4>2
    <3> QED
      BY <1>10, <3>2, <3>3
  <2>2. CASE filled # {}
    <3>1. PICK p \in filled : TRUE
      BY <2>2
    <3>2. p \in Pending /\ p \in Requests /\ \A x \in Pending \ {p} : x \notin filled
      BY <1>2, <1>3, <1>5, <3>1
    <3>3. Pending \in SUBSET (1 .. N) /\ \A x \in Pending \ {p} : new[x] = old[x]
      BY <1>2, <1>7, <1>9, <3>2
    <3>4. Total(new, Pending) = Total(old, Pending) - old[p] + new[p]
      <4>1. /\ old \in [1 .. N -> Nat] /\ new \in [1 .. N -> Nat]
            /\ N \in Nat /\ p \in Pending
        BY <1>2, <1>9, <3>2
      <4> QED
        BY <3>3, <4>1, TotalOneChanges
    <3>5. context[p] \in Nat
      BY <3>2, Typing DEF IInv
    <3>6. /\ KvBytes(context[p] + c) <= KvBytes(context[p]) + c * KvPerToken
          /\ SwaShare = 0 => KvBytes(context[p] + c) = KvBytes(context[p]) + c * KvPerToken
      BY <1>3, <3>5, ChunkFootprint
    <3>7. new[p] = KvBytes(context[p] + c) /\ old[p] = KvBytes(context[p])
      BY <1>7, <1>9, <3>1, <3>2
    <3>8. new[p] \in Nat /\ old[p] \in Nat
      BY <1>2, <1>9, <3>2
    <3> QED
      BY <1>6, <1>10, <3>4, <3>6, <3>7, <3>8
  <2> QED
    BY <2>1, <2>2
<1>12. /\ Growth \in Nat /\ Released \in Nat /\ kvUsed \in Int
       /\ Held \in Nat /\ Held' \in Nat
  BY SumTypes, FootTypesNext DEF IInv, TypeOK
<1>13. Total(Foot', Pending) = Total(new, Pending) /\ Total(new, Pending) \in Nat
  BY <1>8 DEF new
<1>14. /\ Held' + Released <= Held + Growth + c * KvPerToken
       /\ SwaShare = 0 => Held' + Released = Held + Growth + c * KvPerToken
  BY <1>6, <1>8, <1>10, <1>11, <1>12, <1>13
<1>15. kvUsed' + Released = kvUsed + Growth + c * KvPerToken
  BY <1>1, <1>6, <1>12
<1> QED
  BY <1>1, <1>3, <1>4, <1>6, <1>7, <1>14, <1>15 DEF c

-----------------------------------------------------------------------------
(***************************************************************************)
(* The prefills under way: at most one, and none without chunks.  The      *)
(* lengths stay those that passed livelock guard #1.                       *)
(***************************************************************************)
NoChunks == Chunk = 0 => \A r \in Requests : prefillDone[r] = 0

OneFilling == \A p, q \in InProgress : p = q

AllFit == \A r \in Requests : FitsBudget(r)

Filling == NoChunks /\ OneFilling /\ AllFit

LEMMA FillingInit == Init => Filling
BY DEF Init, Filling, NoChunks, OneFilling, AllFit, InProgress, Pending

LEMMA FillingKept ==
  ASSUME IInv, IInv', Filling, InProgress' \in SUBSET InProgress, UNCHANGED lens,
         \A x \in Requests : prefillDone'[x] \in {0, prefillDone[x]}
  PROVE  Filling'
<1>1. NoChunks' /\ OneFilling'
  BY DEF Filling, NoChunks, OneFilling
<1>2. AllFit'
  BY DEF Filling, AllFit, FitsBudget, FullFp, lens
<1> QED
  BY <1>1, <1>2 DEF Filling

LEMMA FillingEnter ==
  ASSUME IInv, IInv', Filling, waiting # << >>, Enter(Head(waiting))
  PROVE  Filling'
<1> DEFINE r == Head(waiting)
<1>1. r \in Requests
  BY QueueIs, TailQueue DEF IInv
<1> HIDE DEF r
<1>2. /\ prefillDone' = [prefillDone EXCEPT ![r] = 0]
      /\ needsPrefill' = [needsPrefill EXCEPT ![r] = TRUE]
      /\ running' = running \cup {r} /\ UNCHANGED lens
  BY DEF Enter, r
<1>3. /\ running' \in SUBSET Requests
      /\ needsPrefill \in [Requests -> BOOLEAN] /\ prefillDone \in [Requests -> Nat]
  BY DEF IInv, TypeOK
<1>4. /\ prefillDone'[r] = 0
      /\ \A x \in Requests \ {r} : /\ prefillDone'[x] = prefillDone[x]
                                   /\ needsPrefill'[x] = needsPrefill[x]
  BY <1>1, <1>2, <1>3
<1>5. ASSUME NEW x \in InProgress' PROVE x \in InProgress
  <2>1. x \in running' /\ needsPrefill'[x] /\ prefillDone'[x] > 0
    BY DEF InProgress, Pending
  <2>2. x # r
    BY <1>4, <2>1
  <2> QED
    BY <1>2, <1>3, <1>4, <2>1, <2>2 DEF InProgress, Pending
<1>6. \A x \in Requests : prefillDone'[x] \in {0, prefillDone[x]}
  BY <1>4
<1> QED
  BY <1>2, <1>5, <1>6, FillingKept

LEMMA FillingMixed ==
  ASSUME IInv, IInv', Filling, MixedStep
  PROVE  Filling'
<1> DEFINE filled == IF ChunkSize = 0 THEN {} ELSE {Prefiller}
           whole  == {r \in filled : Whole(r)}
<1>1. /\ \A x \in Requests : /\ x \notin filled => prefillDone'[x] = prefillDone[x]
                             /\ needsPrefill'[x] => needsPrefill[x]
      /\ running' \in SUBSET running /\ UNCHANGED lens /\ Chunk # 0
  <2>1. /\ prefillDone' = [r \in Requests |->
              IF r \in filled THEN prefillDone[r] + ChunkSize ELSE prefillDone[r]]
        /\ needsPrefill' = [r \in Requests |-> needsPrefill[r] /\ r \notin whole]
        /\ running' = running \ Finishing /\ UNCHANGED lens
    BY DEF MixedStep, EmitTokens
  <2>2. Chunk # 0
    BY ServeAssumption DEF MixedStep, MixedTurn
  <2> HIDE DEF filled, whole
  <2> QED
    BY <2>1, <2>2
<1>2. ASSUME NEW x \in InProgress' PROVE x = Prefiller
  <2>1. x \in running' /\ needsPrefill'[x] /\ prefillDone'[x] > 0
    BY DEF InProgress, Pending
  <2>2. x \in running /\ x \in Requests /\ needsPrefill[x]
    BY <1>1, <2>1, Typing DEF IInv
  <2>3. CASE x \in filled
    BY <2>3
  <2>4. CASE x \notin filled
    <3>1. x \in InProgress
      BY <1>1, <2>1, <2>2, <2>4 DEF InProgress, Pending
    <3>2. Prefiller \in InProgress
      BY <2>2, <3>1, PrefillerPending DEF IInv, Pending
    <3> QED
      BY <3>1, <3>2 DEF Filling, OneFilling
  <2> QED
    BY <2>3, <2>4
<1>3. OneFilling'
  BY <1>2 DEF OneFilling
<1>4. NoChunks' /\ AllFit'
  BY <1>1 DEF Filling, NoChunks, AllFit, FitsBudget, FullFp, lens
<1> QED
  BY <1>3, <1>4 DEF Filling

LEMMA FillingNext == ASSUME IInv, IInv', Filling, [Next]_vars PROVE Filling'
<1>1. CASE Intake \/ EndAdmission \/ Finished \/ UNCHANGED vars
  <2>1. UNCHANGED <<lens, running, reqs>>
    BY <1>1 DEF Intake, EndAdmission, Finished, vars
  <2>2. InProgress' = InProgress /\ prefillDone' = prefillDone
    BY <2>1 DEF InProgress, Pending, reqs
  <2> QED
    BY <2>1, <2>2, FillingKept
<1>2. CASE Admit \/ ForceAdmit
  BY <1>2, FillingEnter DEF Admit, ForceAdmit
<1>3. CASE Preempt
  <2> DEFINE v == Victim
  <2>1. /\ prefillDone' = [prefillDone EXCEPT ![v] = 0]
        /\ running' = running \ {v} /\ UNCHANGED lens
        /\ needsPrefill' = [needsPrefill EXCEPT ![v] = TRUE]
    BY <1>3 DEF Preempt
  <2> HIDE DEF v
  <2>2. \A x \in Requests : /\ prefillDone'[x] \in {0, prefillDone[x]}
                            /\ x # v => /\ prefillDone'[x] = prefillDone[x]
                                        /\ needsPrefill'[x] = needsPrefill[x]
    BY <2>1 DEF IInv, TypeOK
  <2>3. InProgress' \in SUBSET InProgress
    BY <2>1, <2>2, Typing DEF InProgress, Pending, IInv
  <2> QED
    BY <2>1, <2>2, <2>3, FillingKept
<1>4. CASE PrefillStep
  <2> DEFINE p == Prefiller
  <2>1. /\ prefillDone' = prefillDone /\ running' = running /\ UNCHANGED lens
        /\ needsPrefill' = [needsPrefill EXCEPT ![p] = FALSE]
    BY <1>4 DEF PrefillStep, queue
  <2> HIDE DEF p
  <2>2. \A x \in Requests : needsPrefill'[x] => needsPrefill[x]
    BY <2>1 DEF IInv, TypeOK
  <2>3. InProgress' \in SUBSET InProgress
    BY <2>1, <2>2, Typing DEF InProgress, Pending, IInv
  <2> QED
    BY <2>1, <2>3, FillingKept
<1>5. CASE DecodeStep
  <2>1. /\ prefillDone' = prefillDone /\ needsPrefill' = needsPrefill
        /\ running' \in SUBSET running /\ UNCHANGED lens
    BY <1>5 DEF DecodeStep, EmitTokens
  <2>2. InProgress' \in SUBSET InProgress
    BY <2>1 DEF InProgress, Pending
  <2> QED
    BY <2>1, <2>2, FillingKept
<1>6. CASE MixedStep
  BY <1>6, FillingMixed
<1> QED
  BY <1>1, <1>2, <1>3, <1>4, <1>5, <1>6 DEF Next

LEMMA FillingInvariant == Spec => []Filling
<1>1. IInv /\ IInv' /\ Filling /\ [Next]_vars => Filling'
  BY FillingNext
<1> QED
  BY FillingInit, Invariance, <1>1, PTL DEF Spec

\* "A single request prefills at a time", in every mode: a chunked prefill is
\* never left half done for another one, preemptions or not.
THEOREM OnePrefillAtATime == Spec => []OnePrefill
<1>1. Filling => OnePrefill
  BY OneAtMost DEF Filling, OneFilling, OnePrefill
<1> QED
  BY FillingInvariant, <1>1, PTL

-----------------------------------------------------------------------------
(***************************************************************************)
(* The ledger.  kv_used may exceed what is held, when chunks are charged   *)
(* past the sliding window, and never falls short of it.                   *)
(***************************************************************************)
Exact == Chunk = 0 \/ SwaShare = 0

Ledger == Held <= kvUsed /\ (Exact => kvUsed = Held)

\* The amounts a step compares, as numbers.
LEMMA AmountTypes ==
  ASSUME IInv, IInv', Ledger
  PROVE  /\ Held \in Nat /\ Held' \in Nat /\ kvUsed \in Int /\ kvUsed' \in Int
         /\ Growth \in Nat /\ Released \in Nat /\ Usable \in Nat
         /\ Held <= kvUsed
<1>1. Held \in Nat /\ Growth \in Nat /\ Released \in Nat
  BY SumTypes DEF IInv
<1>2. Held' \in Nat
  BY FootTypesNext
<1>3. kvUsed \in Int /\ kvUsed' \in Int
  BY DEF IInv, TypeOK
<1>4. Usable \in Nat
  BY ServeAssumption
<1> QED
  BY <1>1, <1>2, <1>3, <1>4 DEF Ledger

LEMMA LedgerInit == Init => Ledger
<1> SUFFICES ASSUME Init PROVE Ledger
  OBVIOUS
<1>1. running = {} /\ kvUsed = 0
  BY DEF Init
<1>2. Held = 0
  BY <1>1, TotalEmpty DEF Held
<1> QED
  BY <1>1, <1>2 DEF Ledger

LEMMA LedgerNext == ASSUME IInv, IInv', NoChunks, Ledger, [Next]_vars PROVE Ledger'
<1>0. /\ Held \in Nat /\ Held' \in Nat /\ kvUsed \in Int /\ kvUsed' \in Int
      /\ Growth \in Nat /\ Released \in Nat
      /\ Held <= kvUsed /\ (Exact => kvUsed = Held)
  BY AmountTypes DEF Ledger
<1>1. CASE Intake \/ EndAdmission \/ Finished \/ UNCHANGED vars
  <2>1. kvUsed' = kvUsed /\ running' = running /\ context' = context
    BY <1>1 DEF Intake, EndAdmission, Finished, vars, reqs, kv
  <2> QED
    BY <1>0, <2>1 DEF Ledger, Held
<1>2. CASE Admit \/ ForceAdmit
  <2>1. waiting # << >> /\ Enter(Head(waiting))
    BY <1>2 DEF Admit, ForceAdmit
  <2>2. Held' = Held /\ kvUsed' = kvUsed
    BY <2>1, EnterHeld DEF Enter
  <2> QED
    BY <1>0, <2>2 DEF Ledger
<1>3. CASE Preempt
  <2>1. KvBytes(context[Victim]) \in Nat
    BY <1>3, VictimDecodes, Typing DEF Preempt, IInv
  <2>2. /\ Held = Held' + KvBytes(context[Victim])
        /\ kvUsed' = kvUsed - KvBytes(context[Victim])
    BY <1>3, PreemptHeld
  <2> QED
    BY <1>0, <2>1, <2>2 DEF Ledger
<1>4. CASE PrefillStep
  <2>1. \A x \in Requests : prefillDone[x] = 0
    BY <1>4 DEF PrefillStep, PrefillTurn, NoChunks
  <2>2. /\ Held' = Held + KvBytes(Target(Prefiller))
        /\ kvUsed' = kvUsed + KvBytes(Target(Prefiller))
        /\ Prefiller \in Requests
    BY <1>4, <2>1, PrefillHeld, Typing DEF IInv
  <2>3. KvBytes(Target(Prefiller)) \in Nat
    BY <2>2, Typing DEF IInv
  <2> QED
    BY <1>0, <2>2, <2>3 DEF Ledger
<1>5. CASE DecodeStep
  <2>1. Held' = (Held + Growth) - Released /\ kvUsed' = (kvUsed + Growth) - Released
    BY <1>5, DecodeHeld
  <2>2. Held' <= kvUsed'
    BY <1>0, <2>1
  <2>3. Exact => kvUsed' = Held'
    BY <1>0, <2>1
  <2> QED
    BY <2>2, <2>3 DEF Ledger, Exact
<1>6. CASE MixedStep
  <2>1. /\ ChunkSize * KvPerToken \in Nat
        /\ Held' + Released <= Held + Growth + ChunkSize * KvPerToken
        /\ SwaShare = 0 => Held' + Released = Held + Growth + ChunkSize * KvPerToken
        /\ kvUsed' + Released = kvUsed + Growth + ChunkSize * KvPerToken
    BY <1>6, MixedHeld
  <2>2. Chunk # 0
    BY <1>6, ServeAssumption DEF MixedStep, MixedTurn
  <2>3. Held' <= kvUsed'
    BY <1>0, <2>1
  <2>4. Exact => kvUsed' = Held'
    <3>1. Exact => SwaShare = 0
      BY <2>2 DEF Exact
    <3> QED
      BY <1>0, <2>1, <3>1
  <2> QED
    BY <2>3, <2>4 DEF Ledger, Exact
<1> QED
  BY <1>1, <1>2, <1>3, <1>4, <1>5, <1>6 DEF Next

LEMMA LedgerInvariant == Spec => []Ledger
<1>1. IInv /\ IInv' /\ Filling /\ Ledger /\ [Next]_vars => Ledger'
  BY LedgerNext DEF Filling
<1> QED
  BY LedgerInit, Invariance, FillingInvariant, <1>1, PTL DEF Spec

\* kv_used is exactly the KV the running requests hold, whatever was
\* preempted, recomputed or finished, unless chunks meet a sliding window.
THEOREM KvLedgerExact ==
  ASSUME Chunk = 0 \/ SwaShare = 0
  PROVE  Spec => []KvLedger
<1>1. Ledger => KvLedger
  BY DEF Ledger, KvLedger, Exact
<1> QED
  BY LedgerInvariant, <1>1, PTL

-----------------------------------------------------------------------------
(***************************************************************************)
(* The reserve policy.                                                     *)
(***************************************************************************)
Reserved ==
  ~OnDemand => kvReserved = Total(Full, running) /\ kvReserved <= KvBudget

LEMMA ReservedInit == Init => Reserved
<1> SUFFICES ASSUME Init PROVE Reserved
  OBVIOUS
<1>1. running = {} /\ kvReserved = 0
  BY DEF Init
<1>2. Total(Full, {}) = 0 /\ KvBudget \in Nat
  BY TotalEmpty, ServeAssumption
<1> QED
  BY <1>1, <1>2 DEF Reserved

LEMMA ReservedEnter ==
  ASSUME IInv, IInv', Filling, Reserved, ~OnDemand,
         waiting # << >>, Enter(Head(waiting)), Admit \/ ForceAdmit
  PROVE  Reserved'
<1> DEFINE r == Head(waiting)
<1>1. r \in Requests /\ r \notin running /\ FullFp(r) \in Nat
  BY QueueIs, TailQueue, Typing DEF IInv
<1>2. /\ running' = running \cup {r} /\ kvReserved' = kvReserved + FullFp(r)
      /\ Full' = Full
  BY DEF Enter, Full, FullFp, lens
<1>3. kvReserved + FullFp(r) <= KvBudget
  <2>1. CASE CanAdmit(r)
    BY <2>1 DEF CanAdmit
  <2>2. CASE ~CanAdmit(r)
    <3>1. running = {}
      BY <2>2 DEF Admit, ForceAdmit
    <3>2. kvReserved = 0
      BY <3>1, TotalEmpty DEF Reserved
    <3>3. FullFp(r) <= KvBudget
      BY <1>1 DEF Filling, AllFit, FitsBudget
    <3> QED
      BY <1>1, <3>2, <3>3
  <2> QED
    BY <2>1, <2>2
<1> HIDE DEF r
<1>4. Total(Full, running') = Total(Full, running) + FullFp(r)
  <2> DEFINE new == running \cup {r}
  <2>1. /\ Full \in [1 .. N -> Nat] /\ N \in Nat /\ new \in SUBSET (1 .. N) /\ r \in new
        /\ new \ {r} = running /\ Full[r] = FullFp(r)
    <3>1. /\ Full \in [1 .. N -> Nat] /\ N \in Nat /\ Requests = 1 .. N
          /\ running \in SUBSET (1 .. N)
      BY FootTypes DEF IInv
    <3>2. Full[r] = FullFp(r)
      BY <1>1 DEF Full
    <3> QED
      BY <1>1, <3>1, <3>2
  <2> HIDE DEF new
  <2>2. Total(Full, new) = Total(Full, new \ {r}) + Full[r]
    BY <2>1, TotalRemove
  <2> QED
    BY <1>2, <2>1, <2>2 DEF new
<1> QED
  BY <1>2, <1>3, <1>4 DEF Reserved

LEMMA ReservedEmit ==
  ASSUME IInv, Reserved, EmitTokens, UNCHANGED lens
  PROVE  Reserved'
<1> SUFFICES ASSUME ~OnDemand PROVE Reserved'
  BY DEF Reserved
<1>1. /\ running' = running \ Finishing
      /\ kvReserved' = kvReserved - Total(Full, Finishing) /\ Full' = Full
  BY DEF EmitTokens, Full, FullFp, lens
<1> DEFINE rest == running \ Finishing
<1>2. /\ Full \in [1 .. N -> Nat] /\ N \in Nat /\ rest \in SUBSET (1 .. N)
      /\ Finishing \in SUBSET (1 .. N) /\ rest \cap Finishing = {}
      /\ rest \cup Finishing = running
  BY FootTypes DEF IInv, Finishing, Decoders
<1> HIDE DEF rest
<1>3. Total(Full, rest \cup Finishing) = Total(Full, rest) + Total(Full, Finishing)
  BY <1>2, TotalSplit
<1>4. Total(Full, rest) \in Nat /\ Total(Full, Finishing) \in Nat
  BY <1>2, TotalType
<1>5. kvReserved = Total(Full, rest) + Total(Full, Finishing) /\ kvReserved <= KvBudget
  BY <1>2, <1>3 DEF Reserved
<1>6. kvReserved' = Total(Full, rest) /\ kvReserved' <= KvBudget
  BY <1>1, <1>4, <1>5, ServeAssumption
<1> QED
  BY <1>1, <1>6 DEF Reserved, rest

LEMMA ReservedNext == ASSUME IInv, IInv', Filling, Reserved, [Next]_vars PROVE Reserved'
<1>1. CASE Intake \/ EndAdmission \/ Finished \/ PrefillStep \/ UNCHANGED vars
  <2>1. kvReserved' = kvReserved /\ running' = running /\ UNCHANGED lens
    BY <1>1 DEF Intake, EndAdmission, Finished, PrefillStep, vars, queue, kv
  <2> QED
    BY <2>1 DEF Reserved, Full, FullFp, lens
<1>2. CASE Admit \/ ForceAdmit
  <2>1. waiting # << >> /\ Enter(Head(waiting))
    BY <1>2 DEF Admit, ForceAdmit
  <2>2. CASE OnDemand
    BY <2>2 DEF Reserved
  <2>3. CASE ~OnDemand
    BY <1>2, <2>1, <2>3, ReservedEnter
  <2> QED
    BY <2>2, <2>3
<1>3. CASE Preempt
  BY <1>3 DEF Preempt, MustEvict, Reserved
<1>4. CASE DecodeStep \/ MixedStep
  BY <1>4, ReservedEmit DEF DecodeStep, MixedStep
<1> QED
  BY <1>1, <1>2, <1>3, <1>4 DEF Next

LEMMA ReservedInvariant == Spec => []Reserved
<1>1. IInv /\ IInv' /\ Filling /\ Reserved /\ [Next]_vars => Reserved'
  BY ReservedNext
<1> QED
  BY ReservedInit, Invariance, FillingInvariant, <1>1, PTL DEF Spec

\* No running request holds more than it would in the end.
LEMMA FootUnderFull ==
  ASSUME IInv
  PROVE  /\ \A r \in running : Foot[r] <= Full[r]
         /\ Held <= Total(Full, running)
<1>1. ASSUME NEW r \in running PROVE Foot[r] <= Full[r]
  <2>1. /\ r \in Requests /\ prompt[r] \in Nat /\ output[r] \in Nat
        /\ gen[r] \in Nat /\ context[r] \in Nat
    BY Typing DEF IInv
  <2>2. context[r] <= prompt[r] + gen[r]
    <3>1. CASE needsPrefill[r]
      BY <2>1, <3>1 DEF IInv, TokenConservation, Pending, Target
    <3>2. CASE ~needsPrefill[r]
      BY <2>1, <3>2 DEF IInv, TokenConservation, Decoders
    <3> QED
      BY <3>1, <3>2
  <2>3. gen[r] < output[r]
    BY <2>1 DEF IInv, TokenConservation, NoLostRequest
  <2>4. context[r] <= prompt[r] + output[r] /\ prompt[r] + output[r] \in Nat
    BY <2>1, <2>2, <2>3
  <2>5. KvBytes(context[r]) <= KvBytes(prompt[r] + output[r])
    BY <2>1, <2>4, KvBytesMonotone
  <2> QED
    BY <2>1, <2>5 DEF Foot, Full, FullFp
<1>2. /\ Foot \in [1 .. N -> Nat] /\ Full \in [1 .. N -> Nat] /\ N \in Nat
      /\ running \in SUBSET (1 .. N) /\ Held = Total(Foot, running)
  BY FootTypes DEF IInv
<1>3. running \in SUBSET running
  OBVIOUS
<1>4. Total(Foot, running) <= Total(Full, running)
  BY <1>1, <1>2, <1>3, TotalLeq
<1> QED
  BY <1>1, <1>2, <1>4

\* Under reserve the commitments cover what every running request holds, to
\* its end, and stay within the budget.
THEOREM ReserveIsEnough ==
  ASSUME Chunk = 0 \/ SwaShare = 0
  PROVE  Spec => []ReserveCovers
<1>1. IInv /\ Reserved /\ Ledger => ReserveCovers
  <2> SUFFICES ASSUME IInv, Reserved, Ledger, ~OnDemand PROVE ReserveCovers
    BY DEF ReserveCovers
  <2>1. kvUsed = Held /\ Held <= Total(Full, running)
    BY FootUnderFull DEF Ledger, Exact
  <2> QED
    BY <2>1 DEF ReserveCovers, Reserved, Full
<1> QED
  BY Invariance, ReservedInvariant, LedgerInvariant, <1>1, PTL

-----------------------------------------------------------------------------
(***************************************************************************)
(* The budget under on_demand.  Above the watermark there is one request   *)
(* that holds anything, and that one passed livelock guard #1.             *)
(***************************************************************************)
Alone ==
  OnDemand /\ Held > Usable =>
    \A p, q \in running : context[p] > 0 /\ context[q] > 0 => p = q

LEMMA AloneInit == Init => Alone
BY DEF Init, Alone

\* Growth is at most a full token for each decoder.
LEMMA GrowthBounded ==
  ASSUME IInv
  PROVE  /\ Cardinality(Decoders) \in Nat
         /\ Growth <= Cardinality(Decoders) * KvPerToken
<1> DEFINE gr == [r \in Requests |-> KvGrow(context[r])]
<1>1. /\ gr \in [1 .. N -> Nat] /\ N \in Nat /\ Decoders \in SUBSET (1 .. N)
      /\ KvPerToken \in Nat
  BY SumTypes, FootTypes, KvAssumption DEF IInv
<1>2. \A r \in Decoders : gr[r] <= KvPerToken
  <2> TAKE r \in Decoders
  <2>1. r \in Requests /\ context[r] \in Nat
    BY Typing DEF IInv
  <2>2. KvGrow(context[r]) \in 0 .. KvPerToken
    BY <2>1, GrowIsDifference
  <2> QED
    BY <2>1, <2>2, KvAssumption
<1>3. Growth = Total(gr, Decoders)
  BY DEF Growth
<1> HIDE DEF gr
<1> QED
  BY <1>1, <1>2, <1>3, TotalBounded

LEMMA AloneEnter ==
  ASSUME IInv, IInv', Alone, waiting # << >>, Enter(Head(waiting))
  PROVE  Alone'
<1> DEFINE r == Head(waiting)
<1>1. r \in Requests
  BY QueueIs, TailQueue DEF IInv
<1>2. running' = running \cup {r} /\ context' = [context EXCEPT ![r] = 0]
  BY DEF Enter
<1> HIDE DEF r
<1>3. context \in [Requests -> Nat] /\ running' \in SUBSET Requests
  BY DEF IInv, TypeOK
<1>4. context'[r] = 0 /\ \A x \in Requests \ {r} : context'[x] = context[x]
  BY <1>1, <1>2, <1>3
<1>5. \A x \in running' : context'[x] > 0 => x \in running /\ context[x] > 0
  BY <1>2, <1>3, <1>4
<1> QED
  BY <1>5, EnterHeld DEF Alone

LEMMA AloneDecode ==
  ASSUME IInv, IInv', NoChunks, Ledger, DecodeStep
  PROVE  Alone'
<1> SUFFICES ASSUME OnDemand, Held' > Usable,
                    NEW p \in running', NEW q \in running',
                    context'[p] > 0, context'[q] > 0
             PROVE  p = q
  BY DEF Alone
<1>1. /\ Held' = (Held + Growth) - Released /\ running' = running \ Finishing
      /\ \A x \in Pending : context'[x] = context[x]
  BY DecodeHeld
<1>2. /\ Held \in Nat /\ Held' \in Nat /\ kvUsed \in Int /\ Held <= kvUsed
      /\ Growth \in Nat /\ Released \in Nat /\ Usable \in Nat
  BY AmountTypes
<1>3. /\ Cardinality(Decoders) \in Nat
      /\ Growth <= Cardinality(Decoders) * KvPerToken
      /\ Cardinality(Decoders) * KvPerToken \in Nat
  <2>1. Cardinality(Decoders) \in Nat /\ Growth <= Cardinality(Decoders) * KvPerToken
    BY GrowthBounded
  <2> QED
    BY <2>1, ChunkFootprint
<1>4. Cardinality(Decoders) <= 1
  <2>1. ~(Cardinality(Decoders) > 1 /\ kvUsed + Cardinality(Decoders) * KvPerToken > Usable)
    BY DEF DecodeStep, MustEvict, DecodeOverflow
  <2> DEFINE room == Cardinality(Decoders) * KvPerToken
  <2>2. room \in Nat /\ Growth <= room
    BY <1>3
  <2> HIDE DEF room
  <2>3. kvUsed + room > Usable
    BY <1>1, <1>2, <2>2
  <2> QED
    BY <1>3, <2>1, <2>3 DEF room
<1>5. \A x \in Pending : context'[x] = 0
  <2>1. Chunk = 0
    BY DEF DecodeStep, DecodeTurn
  <2> QED
    BY <1>1, <2>1, Typing DEF NoChunks, IInv, TokenConservation
<1>6. p \in Decoders /\ q \in Decoders
  <2>1. running = Decoders \cup Pending
    BY BatchParts DEF IInv
  <2> QED
    BY <1>1, <1>5, <2>1
<1>7. IsFiniteSet(Decoders)
  BY FootTypes, IntervalSize, FS_Subset DEF IInv
<1> QED
  BY <1>4, <1>6, <1>7, AtMostOne

LEMMA AlonePrefill ==
  ASSUME IInv, IInv', NoChunks, Ledger, PrefillStep
  PROVE  Alone'
<1> SUFFICES ASSUME OnDemand, Held' > Usable,
                    NEW p \in running', NEW q \in running',
                    context'[p] > 0, context'[q] > 0
             PROVE  p = q
  BY DEF Alone
<1>1. \A x \in Requests : prefillDone[x] = 0
  BY DEF PrefillStep, PrefillTurn, NoChunks
<1>2. /\ Held' = Held + KvBytes(Target(Prefiller)) /\ running' = running
      /\ Prefiller \in Requests
      /\ \A x \in Requests \ {Prefiller} : context'[x] = context[x]
  BY <1>1, PrefillHeld, Typing DEF IInv
<1>3. /\ Held \in Nat /\ Held <= kvUsed /\ kvUsed \in Int /\ Usable \in Nat
      /\ KvBytes(Target(Prefiller)) \in Nat
  <2>1. KvBytes(Target(Prefiller)) \in Nat
    BY <1>2, Typing DEF IInv
  <2> QED
    BY <2>1, AmountTypes
<1>4. kvUsed + KvBytes(Target(Prefiller)) > Usable
  BY <1>2, <1>3
<1>5. Decoders = {}
  BY <1>4 DEF PrefillStep, MustEvict, PrefillOverflow
<1>6. \A x \in running \ {Prefiller} : context'[x] = 0
  <2>1. running \in SUBSET Requests /\ running = Pending
    BY <1>5, BatchParts, Typing DEF IInv
  <2>2. \A x \in Pending : context[x] = 0
    BY <1>1, <2>1 DEF IInv, TokenConservation
  <2> QED
    BY <1>2, <2>1, <2>2
<1> QED
  BY <1>2, <1>6

LEMMA AloneMixed ==
  ASSUME IInv, IInv', OneFilling, Ledger, MixedStep
  PROVE  Alone'
<1> SUFFICES ASSUME OnDemand, Held' > Usable,
                    NEW p \in running', NEW q \in running',
                    context'[p] > 0, context'[q] > 0
             PROVE  p = q
  BY DEF Alone
<1>1. /\ ChunkSize \in Nat
      /\ Held' + Released <= Held + Growth + ChunkSize * KvPerToken
      /\ running' = running \ Finishing
      /\ \A x \in Pending : context'[x] = context[x] \/ x = Prefiller
  BY MixedHeld
<1>2. /\ Held \in Nat /\ Held' \in Nat /\ kvUsed \in Int /\ Held <= kvUsed
      /\ Growth \in Nat /\ Released \in Nat /\ Usable \in Nat
  BY AmountTypes
<1>3. Decoders = {}
  <2> SUFFICES ASSUME Decoders # {} PROVE FALSE
    OBVIOUS
  <2> DEFINE d == Cardinality(Decoders)
  <2>1. d \in Nat /\ Growth <= d * KvPerToken
    BY GrowthBounded
  <2>2. ~(kvUsed + (d + ChunkSize) * KvPerToken > Usable)
    BY DEF MixedStep, MustEvict, MixedOverflow
  <2> HIDE DEF d
  <2>3. (d + ChunkSize) * KvPerToken = d * KvPerToken + ChunkSize * KvPerToken
    BY <1>1, <2>1, TimesSum, KvAssumption
  <2>4. d * KvPerToken \in Nat /\ ChunkSize * KvPerToken \in Nat
    BY <1>1, <2>1, ChunkFootprint
  <2> QED
    BY <1>1, <1>2, <2>1, <2>2, <2>3, <2>4
<1>4. ASSUME NEW x \in running', context'[x] > 0 PROVE x = Prefiller
  <2>1. x \in Pending /\ x \in Requests
    BY <1>1, <1>3, BatchParts, Typing DEF IInv
  <2>2. CASE context'[x] = context[x]
    <3>1. x \in InProgress
      BY <1>4, <2>1, <2>2 DEF IInv, TokenConservation, InProgress
    <3>2. Prefiller \in InProgress
      BY <2>1, <3>1, PrefillerPending DEF IInv
    <3> QED
      BY <3>1, <3>2 DEF OneFilling
  <2> QED
    BY <1>1, <2>1, <2>2
<1> QED
  BY <1>4

LEMMA AloneNext ==
  ASSUME IInv, IInv', Filling, Ledger, Alone, [Next]_vars
  PROVE  Alone'
<1>1. CASE Intake \/ EndAdmission \/ Finished \/ UNCHANGED vars
  <2>1. running' = running /\ context' = context
    BY <1>1 DEF Intake, EndAdmission, Finished, vars, reqs
  <2> QED
    BY <2>1 DEF Alone, Held
<1>2. CASE Admit \/ ForceAdmit
  BY <1>2, AloneEnter DEF Admit, ForceAdmit
<1>3. CASE Preempt
  <2>1. KvBytes(context[Victim]) \in Nat
    BY <1>3, VictimDecodes, Typing DEF Preempt, IInv
  <2>2. /\ Held = Held' + KvBytes(context[Victim]) /\ running' = running \ {Victim}
        /\ \A x \in running' : context'[x] = context[x]
    BY <1>3, PreemptHeld
  <2>3. Held' \in Nat /\ Usable \in Nat
    BY FootTypesNext, ServeAssumption
  <2>4. Held' > Usable => Held > Usable
    BY <2>1, <2>2, <2>3
  <2> QED
    BY <2>2, <2>4 DEF Alone
<1>4. CASE PrefillStep
  BY <1>4, AlonePrefill DEF Filling
<1>5. CASE DecodeStep
  BY <1>5, AloneDecode DEF Filling
<1>6. CASE MixedStep
  BY <1>6, AloneMixed DEF Filling
<1> QED
  BY <1>1, <1>2, <1>3, <1>4, <1>5, <1>6 DEF Next

LEMMA AloneInvariant == Spec => []Alone
<1>1. IInv /\ IInv' /\ Filling /\ Ledger /\ Alone /\ [Next]_vars => Alone'
  BY AloneNext
<1> QED
  BY AloneInit, Invariance, FillingInvariant, LedgerInvariant, <1>1, PTL DEF Spec

\* Who holds anything, when the watermark is exceeded.
Holders == {r \in running : context[r] > 0}

LEMMA WithinBudget ==
  ASSUME IInv, Filling, Reserved, Alone
  PROVE  /\ Held <= KvBudget
         /\ Held > Usable => Cardinality(Holders) = 1
<1>1. /\ Foot \in [1 .. N -> Nat] /\ N \in Nat /\ running \in SUBSET (1 .. N)
      /\ Requests = 1 .. N /\ Held = Total(Foot, running) /\ Held \in Nat
      /\ Full \in [1 .. N -> Nat]
  BY FootTypes DEF IInv
<1>2. Usable \in Nat /\ KvBudget \in Nat /\ Usable <= KvBudget /\ 0 < Usable
  BY ServeAssumption
<1>3. CASE ~OnDemand
  <2>1. Held <= Total(Full, running) /\ Total(Full, running) <= KvBudget
    BY <1>3, FootUnderFull DEF Reserved
  <2>2. Total(Full, running) \in Nat
    BY <1>1, TotalType
  <2>3. Held <= KvBudget
    BY <1>1, <1>2, <2>1, <2>2
  <2>4. Usable = KvBudget
    BY <1>3, ServeAssumption
  <2> QED
    BY <1>1, <1>2, <2>3, <2>4
<1>4. CASE OnDemand /\ Held <= Usable
  BY <1>1, <1>2, <1>4
<1>5. CASE OnDemand /\ Held > Usable
  <2>1. \A p, q \in Holders : p = q
    BY <1>5 DEF Alone, Holders
  <2>2. \A r \in running : context[r] \in Nat /\ Foot[r] = KvBytes(context[r])
    BY <1>1, Typing DEF Foot, IInv
  <2>3. \A r \in running \ Holders : Foot[r] = 0
    BY <2>2, KvBytesZero DEF Holders
  <2>4. Holders # {}
    <3> SUFFICES ASSUME Holders = {} PROVE FALSE
      OBVIOUS
    <3>1. Held = 0
      BY <1>1, <2>3, TotalZero
    <3> QED
      BY <1>2, <1>5, <3>1
  <2>5. PICK r \in Holders : TRUE
    BY <2>4
  <2>6. r \in running /\ \A x \in running \ {r} : Foot[x] = 0
    BY <2>1, <2>3, <2>5 DEF Holders
  <2>7. Held = Foot[r]
    <3>1. Total(Foot, running) = Total(Foot, running \ {r}) + Foot[r]
      BY <1>1, <2>6, TotalRemove
    <3>2. Total(Foot, running \ {r}) = 0
      BY <2>6, TotalZero
    <3>3. Foot[r] \in Nat
      BY <1>1, <2>6
    <3> QED
      BY <1>1, <3>1, <3>2, <3>3
  <2>8. Foot[r] <= Full[r] /\ Full[r] <= KvBudget
    <3>1. r \in Requests /\ Full[r] = FullFp(r)
      BY <1>1, <2>6 DEF Full
    <3> QED
      BY <2>6, <3>1, FootUnderFull DEF Filling, AllFit, FitsBudget
  <2>9. Foot[r] \in Nat /\ Full[r] \in Nat
    BY <1>1, <2>6
  <2> QED
    BY <1>2, <2>1, <2>4, <2>7, <2>8, <2>9, OneAtMost
<1>6. OnDemand \/ ~OnDemand
  OBVIOUS
<1> QED
  BY <1>1, <1>2, <1>3, <1>4, <1>5, <1>6

\* The replica never holds more KV than its DRAM has room for, in any mode:
\* forced admissions and lone decoders past the watermark included.
THEOREM BudgetKept == Spec => []HardBudget
<1>1. IInv /\ Filling /\ Reserved /\ Alone => HardBudget
  BY WithinBudget DEF HardBudget
<1> QED
  BY Invariance, FillingInvariant, ReservedInvariant, AloneInvariant, <1>1, PTL

\* Past the watermark there is exactly one request that holds any KV.
THEOREM WatermarkKept == Spec => []OverWatermarkAlone
<1>1. IInv /\ Filling /\ Reserved /\ Alone => OverWatermarkAlone
  BY WithinBudget DEF OverWatermarkAlone, Holders
<1> QED
  BY Invariance, FillingInvariant, ReservedInvariant, AloneInvariant, <1>1, PTL

-----------------------------------------------------------------------------
(***************************************************************************)
(* prefill_first off, with exclusive prefill.                              *)
(***************************************************************************)
OneDecoder == Chunk = 0 /\ ~PrefillFirst => \A p, q \in Decoders : p = q

LEMMA OneDecoderNext ==
  ASSUME IInv, IInv', OneDecoder, [Next]_vars
  PROVE  OneDecoder'
<1> SUFFICES ASSUME Chunk = 0, ~PrefillFirst PROVE \A p, q \in Decoders' : p = q
  BY DEF OneDecoder
<1>0. /\ \A p, q \in Decoders : p = q
      /\ needsPrefill \in [Requests -> BOOLEAN] /\ running' \in SUBSET Requests
  BY DEF OneDecoder, IInv, TypeOK
<1>1. CASE Intake \/ EndAdmission \/ Finished \/ UNCHANGED vars
  BY <1>0, <1>1 DEF Intake, EndAdmission, Finished, vars, reqs, Decoders
<1>2. CASE Admit \/ ForceAdmit
  <2> DEFINE r == Head(waiting)
  <2>1. /\ running' = running \cup {r}
        /\ needsPrefill' = [needsPrefill EXCEPT ![r] = TRUE]
    BY <1>2 DEF Admit, ForceAdmit, Enter
  <2> HIDE DEF r
  <2>2. Decoders' \in SUBSET Decoders
    BY <1>0, <2>1 DEF Decoders
  <2> QED
    BY <1>0, <2>2
<1>3. CASE Preempt
  <2> DEFINE v == Victim
  <2>1. /\ running' = running \ {v}
        /\ needsPrefill' = [needsPrefill EXCEPT ![v] = TRUE]
    BY <1>3 DEF Preempt
  <2> HIDE DEF v
  <2>2. Decoders' \in SUBSET Decoders
    BY <1>0, <2>1 DEF Decoders
  <2> QED
    BY <1>0, <2>2
<1>4. CASE PrefillStep
  <2> DEFINE p == Prefiller
  <2>1. /\ running' = running /\ Decoders = {}
        /\ needsPrefill' = [needsPrefill EXCEPT ![p] = FALSE]
    BY <1>4 DEF PrefillStep, PrefillTurn, queue
  <2> HIDE DEF p
  <2>2. \A x \in Decoders' : x = p
    BY <1>0, <2>1 DEF Decoders
  <2> QED
    BY <2>2
<1>5. CASE DecodeStep
  <2>1. running' \in SUBSET running /\ needsPrefill' = needsPrefill
    BY <1>5 DEF DecodeStep, EmitTokens
  <2> QED
    BY <1>0, <2>1 DEF Decoders
<1>6. CASE MixedStep
  BY <1>6, ServeAssumption DEF MixedStep, MixedTurn
<1> QED
  BY <1>1, <1>2, <1>3, <1>4, <1>5, <1>6 DEF Next

\* With prefill_first off, exclusive prefill serves one decoder at a time:
\* max_batch never has any effect.
THEOREM DecodersOneByOne == Spec => []DecodeFirstSerialises
<1>1. Init => OneDecoder
  BY DEF Init, OneDecoder, Decoders
<1>2. IInv /\ IInv' /\ OneDecoder /\ [Next]_vars => OneDecoder'
  BY OneDecoderNext
<1>3. OneDecoder => DecodeFirstSerialises
  BY OneAtMost DEF OneDecoder, DecodeFirstSerialises
<1> QED
  BY Invariance, <1>1, <1>2, <1>3, PTL DEF Spec

-----------------------------------------------------------------------------
(***************************************************************************)
(* What admission charges the batch with.  In exclusive mode prefill_first *)
(* keeps it under the watermark as long as somebody has yet to prefill,    *)
(* except for a request that was forced in and is alone.                   *)
(***************************************************************************)
Charge == [r \in Requests |->
             KvBytes(IF needsPrefill[r] THEN Target(r) ELSE context[r])]

Charged ==
  Chunk = 0 /\ OnDemand /\ PrefillFirst /\ Pending # {} =>
    Committed <= Usable \/ \A p, q \in running : p = q

LEMMA ChargeTypes ==
  ASSUME TypeOK
  PROVE  /\ Charge \in [1 .. N -> Nat] /\ Committed = Total(Charge, running)
         /\ Committed \in Nat
         /\ \A r \in Pending : Charge[r] = KvBytes(Target(r))
         /\ \A r \in Decoders : Charge[r] = KvBytes(context[r]) /\ Foot[r] = Charge[r]
<1>1. \A r \in Requests : KvBytes(Target(r)) \in Nat /\ KvBytes(context[r]) \in Nat
  BY Typing
<1>2. Charge \in [1 .. N -> Nat]
  BY <1>1, FootTypes DEF Charge
<1>3. Committed = Total(Charge, running)
  BY DEF Committed, Charge
<1>4. /\ \A r \in Pending : Charge[r] = KvBytes(Target(r))
      /\ \A r \in Decoders : Charge[r] = KvBytes(context[r]) /\ Foot[r] = Charge[r]
  BY Typing DEF Charge, Foot, Pending, Decoders
<1> QED
  BY <1>2, <1>3, <1>4, FootTypes, TotalType

\* A newcomer is charged with its whole target.
LEMMA ChargeEnter ==
  ASSUME IInv, IInv', waiting # << >>, Enter(Head(waiting))
  PROVE  /\ Committed' = Committed + KvBytes(Target(Head(waiting)))
         /\ Pending' = Pending \cup {Head(waiting)} /\ Decoders' = Decoders
         /\ running' = running \cup {Head(waiting)}
         /\ \A x \in Requests : Target(x)' = Target(x)
         /\ KvBytes(Target(Head(waiting))) \in Nat
<1> DEFINE r == Head(waiting)
<1>1. r \in Requests /\ r \notin running /\ KvBytes(Target(r)) \in Nat
  BY QueueIs, TailQueue, Typing DEF IInv
<1>2. /\ running' = running \cup {r} /\ context' = [context EXCEPT ![r] = 0]
      /\ needsPrefill' = [needsPrefill EXCEPT ![r] = TRUE]
      /\ prompt' = prompt /\ gen' = gen
  BY DEF Enter, lens
<1> HIDE DEF r
<1>3. /\ context \in [Requests -> Nat] /\ needsPrefill \in [Requests -> BOOLEAN]
      /\ running \in SUBSET Requests
  BY DEF IInv, TypeOK
<1>4. /\ needsPrefill'[r] = TRUE
      /\ \A x \in running : /\ context'[x] = context[x]
                            /\ needsPrefill'[x] = needsPrefill[x]
  BY <1>1, <1>2, <1>3
<1>5. Pending' = Pending \cup {r} /\ Decoders' = Decoders
  BY <1>1, <1>2, <1>4 DEF Pending, Decoders
<1>6. \A x \in Requests : Target(x)' = Target(x)
  BY <1>2 DEF Target
<1> DEFINE new == Charge'
           old == Charge
           all == running \cup {r}
<1>7. /\ new[r] = KvBytes(Target(r))
      /\ \A x \in running : new[x] = old[x]
  <2>1. \A x \in Requests : new[x] = KvBytes(IF needsPrefill'[x] THEN Target(x)' ELSE context'[x])
    BY DEF Charge
  <2>2. \A x \in Requests : old[x] = KvBytes(IF needsPrefill[x] THEN Target(x) ELSE context[x])
    BY DEF Charge
  <2> HIDE DEF new, old
  <2> QED
    BY <1>1, <1>3, <1>4, <1>6, <2>1, <2>2
<1>8. new \in [1 .. N -> Nat]
  <2>1. \A x \in Requests : Target(x) \in Nat /\ context'[x] \in Nat
    BY Typing DEF IInv, TypeOK
  <2>2. \A x \in Requests :
          (IF needsPrefill'[x] THEN Target(x)' ELSE context'[x]) \in Nat
    BY <1>6, <2>1
  <2>3. \A x \in Requests :
          KvBytes(IF needsPrefill'[x] THEN Target(x)' ELSE context'[x]) \in Nat
    BY <2>2, KvBytesType
  <2> QED
    BY <2>3, FootTypes DEF Charge, IInv
<1>9. /\ N \in Nat /\ all \in SUBSET (1 .. N) /\ r \in all /\ all \ {r} = running
  BY <1>1, <1>3, FootTypes DEF IInv
<1>10. Committed = Total(old, running) /\ Committed' = Total(new, all)
  BY <1>2 DEF Committed, Charge
<1> HIDE DEF new, old, all
<1>11. Total(new, all) = Total(new, all \ {r}) + new[r]
  BY <1>8, <1>9, TotalRemove
<1>12. Total(new, running) = Total(old, running)
  BY <1>7, TotalEqual
<1>13. Committed' = Committed + KvBytes(Target(r))
  BY <1>7, <1>9, <1>10, <1>11, <1>12
<1> QED
  BY <1>1, <1>2, <1>5, <1>6, <1>13 DEF r

LEMMA ChargedNext ==
  ASSUME IInv, IInv', NoChunks, Charged, [Next]_vars
  PROVE  Charged'
<1> SUFFICES ASSUME Chunk = 0, OnDemand, PrefillFirst, Pending' # {}
             PROVE  Committed' <= Usable \/ \A p, q \in running' : p = q
  BY DEF Charged
<1>0. Pending # {} => Committed <= Usable \/ \A p, q \in running : p = q
  BY DEF Charged
<1>1. CASE Intake \/ EndAdmission \/ Finished \/ UNCHANGED vars
  <2>1. UNCHANGED <<lens, running, reqs>>
    BY <1>1 DEF Intake, EndAdmission, Finished, vars
  <2>2. Pending' = Pending /\ Committed' = Committed /\ running' = running
    BY <2>1 DEF Pending, Committed, Target, lens, reqs
  <2> QED
    BY <1>0, <2>2
<1>2. CASE Admit
  <2>1. Committed + KvBytes(Target(Head(waiting))) <= Usable
    BY <1>2 DEF Admit, CanAdmit
  <2> QED
    BY <1>2, <2>1, ChargeEnter DEF Admit
<1>3. CASE ForceAdmit
  <2>1. running' = {Head(waiting)}
    BY <1>3 DEF ForceAdmit, Enter
  <2> QED
    BY <2>1
<1>4. CASE Preempt
  <2> DEFINE v == Victim
  <2>1. v \in Decoders /\ v \in running
    BY <1>4, VictimDecodes, Typing DEF Preempt, IInv
  <2>2. /\ running' = running \ {v} /\ context' = [context EXCEPT ![v] = 0]
        /\ needsPrefill' = [needsPrefill EXCEPT ![v] = TRUE]
        /\ prompt' = prompt /\ gen' = gen
    BY <1>4 DEF Preempt, lens
  <2> HIDE DEF v
  <2>3. /\ context \in [Requests -> Nat] /\ needsPrefill \in [Requests -> BOOLEAN]
        /\ running \in SUBSET Requests
    BY DEF IInv, TypeOK
  <2>4. \A x \in running' : /\ context'[x] = context[x]
                            /\ needsPrefill'[x] = needsPrefill[x]
    BY <2>2, <2>3
  <2>5. Pending' \in SUBSET Pending
    BY <2>2, <2>4 DEF Pending
  <2>6. Committed' <= Committed /\ Committed' \in Nat
    <3> DEFINE new == Charge'
               old == Charge
               rest == running'
    <3>1. \A x \in rest : new[x] = old[x]
      BY <2>2, <2>3, <2>4 DEF Charge, Target
    <3>2. Committed' = Total(new, rest) /\ Committed = Total(old, running)
      BY DEF Committed, Charge
    <3>3. /\ old \in [1 .. N -> Nat] /\ N \in Nat /\ rest \in SUBSET running
          /\ running \in SUBSET (1 .. N)
      BY <2>2, ChargeTypes, FootTypes DEF IInv
    <3> HIDE DEF new, old, rest
    <3>4. Total(new, rest) = Total(old, rest)
      BY <3>1, TotalEqual
    <3>5. \A x \in rest : old[x] <= old[x]
      BY <3>3
    <3>6. Total(old, rest) <= Total(old, running)
      BY <3>3, <3>5, TotalLeq
    <3>7. Total(old, rest) \in Nat
      BY <3>3, TotalType
    <3> QED
      BY <3>2, <3>4, <3>6, <3>7
  <2>7. Committed \in Nat /\ Usable \in Nat
    BY ChargeTypes, ServeAssumption DEF IInv
  <2> QED
    BY <1>0, <2>2, <2>5, <2>6, <2>7
<1>5. CASE PrefillStep
  <2> DEFINE r == Prefiller
  <2>1. r \in Pending /\ r \in Requests
    BY <1>5, PrefillerPending, Typing DEF PrefillStep, PrefillTurn, IInv
  <2>2. /\ running' = running /\ context' = [context EXCEPT ![r] = Target(r)]
        /\ needsPrefill' = [needsPrefill EXCEPT ![r] = FALSE]
        /\ prompt' = prompt /\ gen' = gen
    BY <1>5 DEF PrefillStep, queue, lens
  <2> HIDE DEF r
  <2>3. /\ context \in [Requests -> Nat] /\ needsPrefill \in [Requests -> BOOLEAN]
    BY DEF IInv, TypeOK
  <2>4. needsPrefill[r] /\ Pending # {}
    BY <2>1 DEF Pending
  <2>5. \A x \in Requests : Charge'[x] = Charge[x]
    <3>1. \A x \in Requests : Target(x)' = Target(x)
      BY <2>2 DEF Target
    <3>2. /\ needsPrefill'[r] = FALSE /\ context'[r] = Target(r)
          /\ \A x \in Requests \ {r} : /\ context'[x] = context[x]
                                       /\ needsPrefill'[x] = needsPrefill[x]
      BY <2>1, <2>2, <2>3
    <3> QED
      BY <2>4, <3>1, <3>2 DEF Charge
  <2>6. Committed' = Committed
    <3>1. Committed' = Total(Charge', running') /\ Committed = Total(Charge, running)
      BY DEF Committed, Charge
    <3>2. Total(Charge', running) = Total(Charge, running)
      BY <2>5, Typing, TotalEqual DEF IInv
    <3> QED
      BY <2>2, <3>1, <3>2
  <2> QED
    BY <1>0, <2>2, <2>4, <2>6
<1>6. CASE DecodeStep
  <2>1. Pending = {}
    BY <1>6 DEF DecodeStep, DecodeTurn, PrefillTurn
  <2>2. running' \in SUBSET running /\ needsPrefill' = needsPrefill
    BY <1>6 DEF DecodeStep, EmitTokens
  <2> QED
    BY <2>1, <2>2 DEF Pending
<1>7. CASE MixedStep
  BY <1>7, ServeAssumption DEF MixedStep, MixedTurn
<1> QED
  BY <1>1, <1>2, <1>3, <1>4, <1>5, <1>6, <1>7 DEF Next

LEMMA ChargedInvariant == Spec => []Charged
<1>1. Init => Charged
  BY DEF Init, Charged, Pending
<1>2. IInv /\ IInv' /\ Filling /\ Charged /\ [Next]_vars => Charged'
  BY ChargedNext DEF Filling
<1> QED
  BY <1>1, <1>2, Invariance, FillingInvariant, PTL DEF Spec

\* Under reserve a target is within what its owner reserved.
LEMMA TargetReserved ==
  ASSUME IInv, NEW r \in Pending, context[r] = 0
  PROVE  Held + KvBytes(Target(r)) <= Total(Full, running)
<1>1. /\ Foot \in [1 .. N -> Nat] /\ Full \in [1 .. N -> Nat] /\ N \in Nat
      /\ Requests = 1 .. N /\ running \in SUBSET (1 .. N)
      /\ Held = Total(Foot, running) /\ Held \in Nat
  BY FootTypes DEF IInv
<1>2. /\ r \in running /\ r \in Requests /\ KvBytes(Target(r)) \in Nat
      /\ Foot[r] = 0
  BY Typing, KvBytesZero DEF Foot, IInv
<1>3. KvBytes(Target(r)) <= Full[r]
  <2>1. gen[r] < output[r]
    BY <1>2 DEF IInv, TokenConservation, NoLostRequest
  <2>2. /\ Target(r) \in Nat /\ prompt[r] + output[r] \in Nat
        /\ Target(r) <= prompt[r] + output[r]
    <3>1. prompt[r] \in Nat /\ output[r] \in Nat /\ gen[r] \in Nat
      BY <1>2, Typing DEF IInv
    <3> QED
      BY <2>1, <3>1 DEF Target
  <2>3. KvBytes(Target(r)) <= KvBytes(prompt[r] + output[r])
    BY <2>2, KvBytesMonotone
  <2> QED
    BY <1>2, <2>3 DEF Full, FullFp
<1> DEFINE grown == [Foot EXCEPT ![r] = KvBytes(Target(r))]
<1>4. /\ grown \in [1 .. N -> Nat] /\ grown[r] = KvBytes(Target(r))
      /\ \A x \in running \ {r} : grown[x] = Foot[x]
  BY <1>1, <1>2
<1> HIDE DEF grown
<1>5. \A x \in running : grown[x] <= Full[x]
  BY <1>3, <1>4, FootUnderFull
<1>6. Total(grown, running) = Total(Foot, running) - Foot[r] + grown[r]
  <2> DEFINE old == Foot
  <2>1. /\ old \in [1 .. N -> Nat] /\ N \in Nat /\ running \in SUBSET (1 .. N)
        /\ grown \in [1 .. N -> Nat] /\ r \in running
        /\ \A x \in running \ {r} : grown[x] = old[x]
    BY <1>1, <1>2, <1>4
  <2> HIDE DEF old
  <2>2. Total(grown, running) = Total(old, running) - old[r] + grown[r]
    BY <2>1, TotalOneChanges
  <2> QED
    BY <2>2 DEF old
<1>7. Total(grown, running) <= Total(Full, running)
  <2>1. Full \in [1 .. N -> Nat] /\ N \in Nat /\ running \in SUBSET (1 .. N)
    BY <1>1
  <2>2. running \in SUBSET running
    OBVIOUS
  <2> QED
    BY <1>4, <1>5, <2>1, <2>2, TotalLeq
<1> QED
  BY <1>1, <1>2, <1>4, <1>6, <1>7

\* Exclusive prefill never preempts: whoever prefills next has room for its
\* whole target beside what the decoders hold, under both policies.
THEOREM PrefillFits == Spec => []PrefillAlwaysFits
<1>1. IInv /\ Filling /\ Ledger /\ Reserved /\ Charged => PrefillAlwaysFits
  <2> SUFFICES ASSUME IInv, Filling, Ledger, Reserved, Charged, PrefillTurn, PrefillOverflow
               PROVE  FALSE
    BY DEF PrefillAlwaysFits
  <2> DEFINE r == Prefiller
  <2>1. Chunk = 0 /\ Pending # {} /\ Decoders # {} /\ PrefillFirst
    BY DEF PrefillTurn, PrefillOverflow
  <2>2. r \in Pending /\ r \in Requests
    BY <2>1, PrefillerPending, Typing DEF IInv
  <2>3. kvUsed = Held /\ kvUsed + KvBytes(Target(r)) > Usable
    BY <2>1 DEF Ledger, Exact, PrefillOverflow
  <2> HIDE DEF r
  <2>4. \A x \in Pending : context[x] = 0
    BY <2>1, Typing DEF IInv, TokenConservation, Filling, NoChunks
  <2>5. Held \in Nat /\ KvBytes(Target(r)) \in Nat /\ Usable \in Nat
    BY <2>2, Typing, FootTypes, ServeAssumption DEF IInv
  <2>6. CASE OnDemand
    <3>1. running = Decoders \cup Pending /\ Decoders \cap Pending = {}
      BY BatchParts DEF IInv
    <3>2. Committed <= Usable
      BY <2>1, <2>6, <3>1 DEF Charged
    <3>3. /\ Charge \in [1 .. N -> Nat] /\ N \in Nat
          /\ Decoders \in SUBSET (1 .. N) /\ Pending \in SUBSET (1 .. N)
          /\ Committed = Total(Charge, running) /\ Charge[r] = KvBytes(Target(r))
          /\ \A x \in Decoders : Foot[x] = Charge[x]
      BY <2>2, ChargeTypes, FootTypes DEF IInv
    <3>4. Total(Charge, Decoders \cup Pending) = Total(Charge, Decoders) + Total(Charge, Pending)
      BY <3>1, <3>3, TotalSplit
    <3>5. Total(Charge, Pending) = Total(Charge, Pending \ {r}) + Charge[r]
      BY <2>2, <3>3, TotalRemove
    <3>6. Total(Charge, Pending \ {r}) \in Nat
      <4> DEFINE rest == Pending \ {r}
      <4>1. rest \in SUBSET (1 .. N)
        BY <3>3
      <4> HIDE DEF rest
      <4>2. Total(Charge, rest) \in Nat
        BY <3>3, <4>1, TotalType
      <4> QED
        BY <4>2 DEF rest
    <3>7. Held = Total(Charge, Decoders)
      <4>1. Total(Foot, Decoders) = Total(Charge, Decoders)
        BY <3>3, TotalEqual
      <4>2. Total(Foot, Pending) = 0
        <5>1. \A x \in Pending : Foot[x] = 0
          BY <2>4, Typing, KvBytesZero DEF Foot, IInv
        <5> QED
          BY <5>1, TotalZero
      <4>3. Held = Total(Foot, Decoders) + Total(Foot, Pending) /\ Total(Foot, Decoders) \in Nat
        BY BatchParts DEF IInv
      <4> QED
        BY <4>1, <4>2, <4>3
    <3>8. Committed = Total(Charge, Decoders) + Total(Charge, Pending)
      BY <3>1, <3>3, <3>4
    <3>9. Charge[r] = KvBytes(Target(r))
      BY <3>3
    <3> QED
      BY <2>3, <2>5, <3>2, <3>5, <3>6, <3>7, <3>8, <3>9
  <2>7. CASE ~OnDemand
    <3>1. Held + KvBytes(Target(r)) <= Total(Full, running)
      BY <2>2, <2>4, TargetReserved
    <3>2. Total(Full, running) <= Usable /\ Total(Full, running) \in Nat
      <4>1. Total(Full, running) \in Nat
        BY FootTypes, TotalType DEF IInv
      <4> QED
        BY <2>7, <4>1, ServeAssumption DEF Reserved
    <3> QED
      BY <2>3, <2>5, <3>1, <3>2
  <2> QED
    BY <2>6, <2>7
<1> QED
  BY <1>1, Invariance, FillingInvariant, LedgerInvariant, ReservedInvariant,
     ChargedInvariant, PTL

-----------------------------------------------------------------------------
(***************************************************************************)
(* The warning.  Between the step that goes over the watermark without     *)
(* setting forced_over_budget (an exclusive prefill) and the one that sets *)
(* it, the replica holds one decoder over the watermark and nothing else:  *)
(* it can neither admit, nor preempt, nor finish before it is warned.      *)
(***************************************************************************)
LoneOver ==
  /\ Chunk = 0 /\ kvUsed > Usable
  /\ Pending = {} /\ Cardinality(Decoders) = 1

\* Who is over the watermark by its own target prefills alone.
BigAlone ==
  OnDemand /\ Chunk = 0 =>
    \A p \in Pending : KvBytes(Target(p)) <= Usable \/ running = {p}

Warned ==
  /\ kvUsed <= peakKv
  /\ OnDemand /\ peakKv > Usable => forced \/ LoneOver
  /\ ~OnDemand /\ Exact => peakKv <= KvBudget

LEMMA BigAloneNext ==
  ASSUME IInv, IInv', BigAlone, [Next]_vars
  PROVE  BigAlone'
<1> SUFFICES ASSUME OnDemand, Chunk = 0, NEW p \in Pending'
             PROVE  KvBytes(Target(p))' <= Usable \/ running' = {p}
  BY DEF BigAlone
<1>0. /\ \A x \in Pending : KvBytes(Target(x)) <= Usable \/ running = {x}
      /\ needsPrefill \in [Requests -> BOOLEAN] /\ running \in SUBSET Requests
      /\ Decoders \cap Pending = {}
  BY BatchParts DEF BigAlone, IInv, TypeOK
<1>1. CASE Intake \/ EndAdmission \/ Finished \/ UNCHANGED vars
  <2>1. UNCHANGED <<lens, running, reqs>>
    BY <1>1 DEF Intake, EndAdmission, Finished, vars
  <2>2. Pending' = Pending /\ KvBytes(Target(p))' = KvBytes(Target(p)) /\ running' = running
    BY <2>1 DEF Pending, Target, KvBytes, lens, reqs
  <2> QED
    BY <1>0, <2>2
<1>2. CASE Admit
  <2> DEFINE r == Head(waiting)
             more == KvBytes(Target(r))
  <2>1. /\ waiting # << >> /\ Enter(r) /\ Committed + more <= Usable
    BY <1>2 DEF Admit, CanAdmit
  <2>2. /\ Pending' = Pending \cup {r} /\ running' = running \cup {r}
        /\ \A x \in Requests : Target(x)' = Target(x)
        /\ more \in Nat
    BY <2>1, ChargeEnter
  <2>3. r \in Requests /\ p \in Requests
    BY <1>0, <2>1, <2>2, QueueIs, TailQueue DEF IInv, Pending
  <2>4. KvBytes(Target(p))' = KvBytes(Target(p))
    BY <2>2, <2>3 DEF KvBytes
  <2>5. Committed \in Nat /\ Usable \in Nat
    BY ChargeTypes, ServeAssumption DEF IInv
  <2>6. CASE p = r
    BY <2>1, <2>2, <2>4, <2>5, <2>6
  <2>7. CASE p # r
    <3>1. p \in Pending
      BY <2>2, <2>7
    <3>2. Charge[p] = KvBytes(Target(p)) /\ Charge[p] <= Committed /\ Charge[p] \in Nat
      <4>1. /\ Charge \in [1 .. N -> Nat] /\ N \in Nat /\ running \in SUBSET (1 .. N)
            /\ p \in running /\ Committed = Total(Charge, running)
            /\ Charge[p] = KvBytes(Target(p))
        BY <3>1, ChargeTypes, FootTypes, Typing DEF IInv
      <4>2. Total(Charge, running) = Total(Charge, running \ {p}) + Charge[p]
        BY <4>1, TotalRemove
      <4> DEFINE rest == running \ {p}
      <4>3. rest \in SUBSET (1 .. N)
        BY <4>1
      <4> HIDE DEF rest
      <4>4. Total(Charge, rest) \in Nat
        BY <4>1, <4>3, TotalType
      <4> QED
        BY <4>1, <4>2, <4>4 DEF rest
    <3> HIDE DEF more
    <3> QED
      BY <2>1, <2>2, <2>4, <2>5, <3>2
  <2> QED
    BY <2>6, <2>7
<1>3. CASE ForceAdmit
  <2>1. running' = {Head(waiting)}
    BY <1>3 DEF ForceAdmit, Enter
  <2> QED
    BY <2>1 DEF Pending
<1>4. CASE Preempt
  <2> DEFINE v == Victim
  <2>1. v \in Decoders /\ v \in running
    BY <1>4, VictimDecodes, Typing DEF Preempt, IInv
  <2>2. /\ running' = running \ {v}
        /\ needsPrefill' = [needsPrefill EXCEPT ![v] = TRUE]
        /\ prompt' = prompt /\ gen' = gen
    BY <1>4 DEF Preempt, lens
  <2> HIDE DEF v
  <2>3. p \in Pending /\ KvBytes(Target(p))' = KvBytes(Target(p))
    BY <1>0, <2>2 DEF Pending, Target, KvBytes
  <2> QED
    BY <1>0, <2>1, <2>3
<1>5. CASE PrefillStep
  <2> DEFINE r == Prefiller
  <2>1. /\ running' = running /\ needsPrefill' = [needsPrefill EXCEPT ![r] = FALSE]
        /\ prompt' = prompt /\ gen' = gen
    BY <1>5 DEF PrefillStep, queue, lens
  <2> HIDE DEF r
  <2>2. p \in Pending /\ KvBytes(Target(p))' = KvBytes(Target(p))
    BY <1>0, <2>1 DEF Pending, Target, KvBytes
  <2> QED
    BY <1>0, <2>1, <2>2
<1>6. CASE DecodeStep
  <2>1. /\ Decoders # {} /\ running' = running \ Finishing /\ needsPrefill' = needsPrefill
        /\ prompt' = prompt
        /\ \A x \in Requests : gen'[x] = IF x \in Decoders THEN gen[x] + 1 ELSE gen[x]
    BY <1>6 DEF DecodeStep, DecodeTurn, EmitTokens, lens
  <2>2. p \in Pending /\ p \in Requests /\ p \notin Decoders
    BY <1>0, <2>1 DEF Pending
  <2>3. KvBytes(Target(p))' = KvBytes(Target(p))
    BY <2>1, <2>2 DEF Target, KvBytes
  <2>4. running # {p}
    BY <2>1, <2>2 DEF Decoders, Pending
  <2> QED
    BY <1>0, <2>2, <2>3, <2>4
<1>7. CASE MixedStep
  BY <1>7, ServeAssumption DEF MixedStep, MixedTurn
<1> QED
  BY <1>1, <1>2, <1>3, <1>4, <1>5, <1>6, <1>7 DEF Next

LEMMA BigAloneInvariant == Spec => []BigAlone
<1>1. Init => BigAlone
  BY DEF Init, BigAlone, Pending
<1>2. IInv /\ IInv' /\ BigAlone /\ [Next]_vars => BigAlone'
  BY BigAloneNext
<1> QED
  BY <1>1, <1>2, Invariance, PTL DEF Spec

\* While the lone decoder is over the watermark nobody is admitted.
LEMMA LoneAdmitsNobody ==
  ASSUME IInv, Ledger, OnDemand, LoneOver, waiting # << >>
  PROVE  ~CanAdmit(Head(waiting)) /\ running # {}
<1> DEFINE r == Head(waiting)
<1>1. r \in Requests /\ KvBytes(Target(r)) \in Nat
  BY QueueIs, TailQueue, Typing DEF IInv
<1> HIDE DEF r
<1>2. running = Decoders
  BY BatchParts DEF LoneOver, IInv
<1>3. Committed = Held
  <2>1. \A x \in running : Charge[x] = Foot[x]
    BY <1>2, ChargeTypes DEF IInv
  <2>2. Total(Charge, running) = Total(Foot, running)
    BY <2>1, TotalEqual
  <2> QED
    BY <2>2, ChargeTypes, FootTypes DEF IInv
<1>4. Committed > Usable /\ Committed \in Nat /\ Usable \in Nat
  BY <1>3, ChargeTypes, ServeAssumption DEF LoneOver, Ledger, Exact, IInv
<1>5. ~(Committed + KvBytes(Target(r)) <= Usable)
  BY <1>1, <1>4
<1>6. running # {}
  <2> SUFFICES ASSUME Decoders = {} PROVE FALSE
    BY <1>2
  <2>1. Cardinality({}) = 0 /\ Cardinality(Decoders) = 1
    BY FS_EmptySet DEF LoneOver
  <2> QED
    BY <2>1
<1> QED
  BY <1>5, <1>6 DEF CanAdmit, r

\* What the reservations keep the ledger under.
Covered ==
  /\ Held <= Total(Full, running)
  /\ ~OnDemand /\ Exact => kvUsed <= KvBudget

LEMMA CoveredInvariant == Spec => []Covered
<1>1. IInv /\ Ledger /\ Reserved => Covered
  <2> SUFFICES ASSUME IInv, Ledger, Reserved PROVE Covered
    OBVIOUS
  <2>1. Held <= Total(Full, running) /\ Total(Full, running) \in Nat /\ Held \in Nat
    BY FootUnderFull, FootTypes, TotalType DEF IInv
  <2> QED
    BY <2>1, ServeAssumption DEF Covered, Ledger, Reserved
<1> QED
  BY <1>1, Invariance, LedgerInvariant, ReservedInvariant, PTL

\* What the finishing requests release is within what they reserved, so the
\* peak, taken before they leave, is within the reservations too.
LEMMA PeakUnderFull ==
  ASSUME IInv, IInv', Covered', running' = running \ Finishing, UNCHANGED lens
  PROVE  Held' + Released <= Total(Full, running)
<1> DEFINE rl == [r \in Requests |-> KvBytes(context[r] + 1)]
           rest == running \ Finishing
<1>1. /\ rl \in [1 .. N -> Nat] /\ Full \in [1 .. N -> Nat] /\ N \in Nat
      /\ Finishing \in SUBSET (1 .. N) /\ rest \in SUBSET (1 .. N)
      /\ rest \cup Finishing = running /\ rest \cap Finishing = {}
  BY SumTypes, FootTypes DEF IInv, Finishing, Decoders
<1>2. ASSUME NEW x \in Finishing PROVE rl[x] <= Full[x]
  <2>1. /\ x \in Requests /\ x \in Decoders /\ prompt[x] \in Nat /\ output[x] \in Nat
        /\ gen[x] \in Nat /\ context[x] \in Nat /\ x \notin completed
    BY Typing DEF IInv, NoLostRequest
  <2>2. context[x] = prompt[x] + gen[x] /\ gen[x] < output[x]
    BY <2>1 DEF IInv, TokenConservation
  <2>3. /\ context[x] + 1 \in Nat /\ prompt[x] + output[x] \in Nat
        /\ context[x] + 1 <= prompt[x] + output[x]
    BY <2>1, <2>2
  <2>4. KvBytes(context[x] + 1) <= KvBytes(prompt[x] + output[x])
    BY <2>3, KvBytesMonotone
  <2> QED
    BY <2>1, <2>4 DEF Full, FullFp
<1>3. Released = Total(rl, Finishing)
  BY DEF Released
<1>4. Held' <= Total(Full, rest) /\ Held' \in Nat
  <2>1. Full' = Full /\ running' = rest
    BY DEF Full, FullFp, lens
  <2>2. Held' <= Total(Full', running')
    BY DEF Covered
  <2> QED
    BY <2>1, <2>2, FootTypesNext
<1> HIDE DEF rl, rest
<1>5. Total(rl, Finishing) <= Total(Full, Finishing)
  <2>1. Finishing \in SUBSET Finishing
    OBVIOUS
  <2> QED
    BY <1>1, <1>2, <2>1, TotalLeq
<1>6. Total(Full, rest \cup Finishing) = Total(Full, rest) + Total(Full, Finishing)
  BY <1>1, TotalSplit
<1>7. /\ Total(Full, rest) \in Nat /\ Total(Full, Finishing) \in Nat
      /\ Total(rl, Finishing) \in Nat
  BY <1>1, TotalType
<1>8. Total(Full, running) = Total(Full, rest) + Total(Full, Finishing)
  BY <1>1, <1>6
<1> QED
  BY <1>3, <1>4, <1>5, <1>7, <1>8

LEMMA WarnedPrefill ==
  ASSUME IInv, IInv', NoChunks, Ledger, Covered', BigAlone, Warned, PrefillStep
  PROVE  Warned'
<1> DEFINE r == Prefiller
           more == KvBytes(Target(r))
<1>1. r \in Pending /\ r \in Requests /\ r \in running /\ more \in Nat
  BY PrefillerPending, Typing DEF PrefillStep, PrefillTurn, IInv
<1>2. /\ running' = running /\ kvUsed' = kvUsed + more
      /\ needsPrefill' = [needsPrefill EXCEPT ![r] = FALSE]
      /\ peakKv' = Larger(peakKv, kvUsed') /\ forced' = forced
      /\ Chunk = 0 /\ Pending # {}
  BY DEF PrefillStep, PrefillTurn, queue
<1> HIDE DEF r
<1>3. kvUsed \in Int /\ kvUsed' \in Int /\ peakKv \in Int /\ Usable \in Nat
  BY ServeAssumption DEF IInv, TypeOK
<1>4. kvUsed' <= peakKv'
  BY <1>2, <1>3 DEF Larger
<1>5. ASSUME OnDemand, peakKv' > Usable PROVE forced' \/ LoneOver'
  <2>1. CASE peakKv > Usable
    BY <1>2, <1>5, <2>1 DEF Warned, LoneOver
  <2>2. CASE kvUsed' > Usable
    <3>1. Decoders = {}
      BY <1>2, <1>5, <2>2 DEF PrefillStep, MustEvict, PrefillOverflow, r
    <3>2. running = Pending
      BY <3>1, BatchParts DEF IInv
    <3>3. kvUsed = 0
      <4>1. \A x \in running : Foot[x] = 0
        <5>1. \A x \in running : x \in Requests /\ context[x] = 0
          BY <1>2, <3>2, Typing DEF NoChunks, IInv, TokenConservation
        <5> QED
          BY <5>1, KvBytesZero DEF Foot
      <4>2. Held = 0
        BY <4>1, TotalZero, FootTypes DEF IInv
      <4> QED
        BY <1>2, <4>2 DEF Ledger, Exact
    <3>4. more > Usable
      BY <1>1, <1>2, <1>3, <2>2, <3>3
    <3>5. running = {r}
      BY <1>1, <1>2, <1>3, <1>5, <3>4 DEF BigAlone
    <3>6. needsPrefill'[r] = FALSE
      BY <1>1, <1>2 DEF IInv, TypeOK
    <3>7. Pending' = {} /\ Decoders' = {r}
      BY <1>2, <3>5, <3>6 DEF Pending, Decoders
    <3>8. Cardinality(Decoders') = 1
      BY <3>7, SingletonSize
    <3> QED
      BY <1>2, <2>2, <3>7, <3>8 DEF LoneOver
  <2> QED
    BY <1>2, <1>3, <1>5, <2>1, <2>2 DEF Larger
<1>6. ASSUME ~OnDemand, Exact PROVE peakKv' <= KvBudget
  <2>1. kvUsed' <= KvBudget
    BY <1>6 DEF Covered
  <2> QED
    BY <1>2, <1>3, <1>6, <2>1 DEF Larger, Warned
<1> QED
  BY <1>4, <1>5, <1>6 DEF Warned

LEMMA WarnedDecode ==
  ASSUME IInv, IInv', Covered', Warned, DecodeStep
  PROVE  Warned'
<1>1. /\ kvUsed' = (kvUsed + Growth) - Released
      /\ peakKv' = Larger(peakKv, kvUsed')
      /\ forced' = (forced \/ LoneDecodeOver)
      /\ Decoders # {} /\ Chunk = 0
  BY DecodeHeld DEF DecodeStep, DecodeTurn
<1>2. /\ kvUsed \in Int /\ kvUsed' \in Int /\ peakKv \in Int /\ Usable \in Nat
      /\ Growth \in Nat /\ Released \in Nat /\ KvPerToken \in Nat
  BY SumTypes, ServeAssumption, KvAssumption DEF IInv, TypeOK
<1>3. kvUsed' <= peakKv'
  BY <1>1, <1>2 DEF Larger
<1> DEFINE d == Cardinality(Decoders)
<1>4. d \in Nat /\ d > 0 /\ Growth <= d * KvPerToken /\ d * KvPerToken \in Nat
  <2>1. d \in Nat /\ Growth <= d * KvPerToken
    BY GrowthBounded
  <2>2. IsFiniteSet(Decoders)
    BY FootTypes, IntervalSize, FS_Subset DEF IInv
  <2>3. d # 0
    BY <1>1, <2>2, FS_EmptySet
  <2>4. d * KvPerToken \in Nat
    BY <2>1, ChunkFootprint
  <2> QED
    BY <2>1, <2>3, <2>4
<1>5. ASSUME OnDemand, kvUsed' > Usable PROVE LoneDecodeOver
  <2>1. ~(d > 1 /\ kvUsed + d * KvPerToken > Usable)
    BY <1>5 DEF DecodeStep, MustEvict, DecodeOverflow
  <2> HIDE DEF d
  <2>2. kvUsed + d * KvPerToken > Usable
    <3> DEFINE room == d * KvPerToken
    <3>1. room \in Nat /\ Growth <= room
      BY <1>4
    <3> HIDE DEF room
    <3>2. kvUsed + room > Usable
      BY <1>1, <1>2, <1>5, <3>1
    <3> QED
      BY <3>2 DEF room
  <2>3. d = 1
    BY <1>4, <2>1, <2>2
  <2>4. kvUsed + KvPerToken > Usable
    BY <1>2, <2>2, <2>3
  <2> QED
    BY <1>5, <2>3, <2>4 DEF LoneDecodeOver, d
<1>6. ASSUME OnDemand, LoneOver PROVE LoneDecodeOver
  BY <1>2, <1>6 DEF LoneOver, LoneDecodeOver
<1>7. OnDemand /\ peakKv' > Usable => forced'
  BY <1>1, <1>2, <1>5, <1>6 DEF Larger, Warned
<1>8. ASSUME ~OnDemand, Exact PROVE peakKv' <= KvBudget
  <2>1. kvUsed' <= KvBudget
    BY <1>8 DEF Covered
  <2> QED
    BY <1>1, <1>2, <1>8, <2>1 DEF Larger, Warned
<1> QED
  BY <1>3, <1>7, <1>8 DEF Warned

LEMMA WarnedMixed ==
  ASSUME IInv, IInv', Ledger, Reserved, Covered', Warned, MixedStep
  PROVE  Warned'
<1> DEFINE fill  == ChunkSize * KvPerToken
           grown == kvUsed + Growth + fill
<1>1. /\ peakKv' = Larger(peakKv, grown)
      /\ forced' = (forced \/ LonePrefillOver)
      /\ Chunk # 0
  BY ServeAssumption DEF MixedStep, MixedTurn
<1>2. /\ ChunkSize \in Nat /\ fill \in Nat /\ kvUsed' + Released = grown
      /\ SwaShare = 0 => Held' + Released = Held + Growth + fill
      /\ running' = running \ Finishing
  BY MixedHeld
<1>3. /\ kvUsed \in Int /\ kvUsed' \in Int /\ peakKv \in Int /\ Usable \in Nat
      /\ Growth \in Nat /\ Released \in Nat
  BY SumTypes, ServeAssumption DEF IInv, TypeOK
<1> HIDE DEF fill
<1>4. kvUsed' <= peakKv'
  <2>1. fill \in Nat /\ kvUsed' + Released = grown
    BY <1>2
  <2>2. grown \in Int
    BY <1>3, <2>1
  <2> HIDE DEF grown
  <2>3. kvUsed' <= grown
    <3> DEFINE used == kvUsed'
               rel  == Released
    <3>1. used \in Int /\ rel \in Nat /\ grown \in Int /\ used + rel = grown
      BY <1>3, <2>1, <2>2
    <3> HIDE DEF used, rel
    <3>2. used <= grown
      BY <3>1
    <3> QED
      BY <3>2 DEF used
  <2> QED
    BY <1>1, <1>3, <2>2, <2>3 DEF Larger
<1>5. ASSUME OnDemand, peakKv' > Usable PROVE forced'
  <2>1. CASE peakKv > Usable
    BY <1>1, <1>5, <2>1 DEF Warned, LoneOver
  <2>2. CASE grown > Usable /\ ~(peakKv > Usable)
    <3>1. Decoders = {}
      <4> SUFFICES ASSUME Decoders # {} PROVE FALSE
        OBVIOUS
      <4> DEFINE d == Cardinality(Decoders)
      <4>1. d \in Nat /\ Growth <= d * KvPerToken
        BY GrowthBounded
      <4>2. ~(kvUsed + (d + ChunkSize) * KvPerToken > Usable)
        BY <1>5 DEF MixedStep, MustEvict, MixedOverflow
      <4> HIDE DEF d
      <4>3. (d + ChunkSize) * KvPerToken = d * KvPerToken + fill
        BY <1>2, <4>1, TimesSum, KvAssumption DEF fill
      <4>4. d * KvPerToken \in Nat
        BY <4>1, ChunkFootprint
      <4> QED
        BY <1>2, <1>3, <2>2, <4>1, <4>2, <4>3, <4>4
    <3>2. Growth = 0
      BY <3>1, TotalEmpty DEF Growth
    <3>3. ChunkSize # 0
      <4> SUFFICES ASSUME ChunkSize = 0 PROVE FALSE
        OBVIOUS
      <4>1. fill = 0
        <5>1. 0 * KvPerToken = 0
          BY KvAssumption
        <5> QED
          BY <5>1 DEF fill
      <4> QED
        BY <1>3, <2>2, <3>2, <4>1 DEF Warned
    <3>4. kvUsed + ChunkSize * KvPerToken > Usable
      BY <1>2, <1>3, <2>2, <3>2 DEF fill
    <3>5. ChunkSize > 0
      BY <1>2, <3>3
    <3>6. LonePrefillOver
      BY <1>5, <3>1, <3>4, <3>5 DEF LonePrefillOver
    <3> QED
      BY <1>1, <3>6
  <2> QED
    BY <1>1, <1>2, <1>3, <1>5, <2>1, <2>2 DEF Larger
<1>6. ASSUME ~OnDemand, Exact PROVE peakKv' <= KvBudget
  <2>1. SwaShare = 0 /\ kvUsed = Held
    BY <1>1, <1>6 DEF Exact, Ledger
  <2>2. Held' + Released <= Total(Full, running)
    BY <1>2, PeakUnderFull DEF MixedStep
  <2>3. Total(Full, running) <= KvBudget /\ Total(Full, running) \in Nat
    <3>1. Total(Full, running) \in Nat
      BY FootTypes, TotalType DEF IInv
    <3> QED
      BY <1>6, <3>1 DEF Reserved
  <2>4. grown = Held' + Released /\ Held' \in Nat /\ KvBudget \in Nat
    BY <1>2, <2>1, FootTypesNext, ServeAssumption
  <2>5. grown <= KvBudget
    BY <1>3, <2>2, <2>3, <2>4
  <2> HIDE DEF grown
  <2> QED
    BY <1>1, <1>6, <2>5 DEF Larger, Warned
<1> QED
  BY <1>4, <1>5, <1>6 DEF Warned

LEMMA WarnedNext ==
  ASSUME IInv, IInv', Filling, Ledger, Reserved, Covered', BigAlone, Warned,
         [Next]_vars
  PROVE  Warned'
<1>1. CASE Intake \/ EndAdmission \/ Finished \/ UNCHANGED vars
  <2>1. UNCHANGED <<running, reqs, kv>>
    BY <1>1 DEF Intake, EndAdmission, Finished, vars
  <2>2. Pending' = Pending /\ Decoders' = Decoders /\ UNCHANGED <<kvUsed, peakKv, forced>>
    BY <2>1 DEF Pending, Decoders, reqs, kv
  <2> QED
    BY <2>2 DEF Warned, LoneOver
<1>2. CASE Admit \/ ForceAdmit
  <2>1. /\ waiting # << >> /\ Enter(Head(waiting))
        /\ CanAdmit(Head(waiting)) \/ running = {}
    BY <1>2 DEF Admit, ForceAdmit
  <2>2. UNCHANGED <<kvUsed, peakKv, forced>>
    BY <2>1 DEF Enter
  <2>3. ~(OnDemand /\ LoneOver)
    BY <2>1, LoneAdmitsNobody
  <2> QED
    BY <2>2, <2>3 DEF Warned
<1>3. CASE Preempt
  <2>1. /\ kvUsed' = kvUsed - KvBytes(context[Victim])
        /\ peakKv' = peakKv /\ forced' = forced
    BY <1>3 DEF Preempt
  <2>2. KvBytes(context[Victim]) \in Nat
    BY <1>3, VictimDecodes, Typing DEF Preempt, IInv
  <2>3. ~LoneOver
    BY <1>3, ServeAssumption
    DEF LoneOver, Preempt, MustEvict, PrefillTurn, DecodeOverflow, MixedTurn
  <2>4. kvUsed \in Int /\ peakKv \in Int
    BY DEF IInv, TypeOK
  <2>5. kvUsed' <= peakKv'
    BY <2>1, <2>2, <2>4 DEF Warned
  <2> QED
    BY <2>1, <2>3, <2>5 DEF Warned
<1>4. CASE PrefillStep
  BY <1>4, WarnedPrefill DEF Filling
<1>5. CASE DecodeStep
  BY <1>5, WarnedDecode
<1>6. CASE MixedStep
  BY <1>6, WarnedMixed
<1> QED
  BY <1>1, <1>2, <1>3, <1>4, <1>5, <1>6 DEF Next

\* A run that has been over the watermark ends with the warning about it, in
\* every mode but reserve with chunks past a sliding window, where the chunks
\* are charged more than the reservations count.
THEOREM AlwaysWarned ==
  ASSUME OnDemand \/ Chunk = 0 \/ SwaShare = 0
  PROVE  Spec => []OverWatermarkWarned
<1>1. Init => Warned
  BY ServeAssumption DEF Init, Warned
<1>2. IInv /\ IInv' /\ Filling /\ Ledger /\ Reserved /\ Covered' /\ BigAlone /\ Warned
        /\ [Next]_vars => Warned'
  BY WarnedNext
<1>3. IInv /\ Warned => OverWatermarkWarned
  <2> SUFFICES ASSUME IInv, Warned, completed = Requests, peakKv > Usable PROVE forced
    BY DEF OverWatermarkWarned
  <2>1. running = {}
    BY Typing DEF IInv, NoLostRequest
  <2>2. ~LoneOver
    <3>1. Decoders = {}
      BY <2>1 DEF Decoders
    <3>2. Cardinality({}) = 0
      BY FS_EmptySet
    <3> QED
      BY <3>1, <3>2 DEF LoneOver
  <2>3. OnDemand
    <3> SUFFICES ASSUME ~OnDemand PROVE FALSE
      OBVIOUS
    <3>1. peakKv <= KvBudget /\ Usable = KvBudget
      BY ServeAssumption DEF Warned, Exact
    <3> QED
      BY <3>1, ServeAssumption DEF IInv, TypeOK
  <2> QED
    BY <2>2, <2>3 DEF Warned
<1> QED
  BY <1>1, <1>2, <1>3, Invariance, FillingInvariant, LedgerInvariant, ReservedInvariant,
     CoveredInvariant, BigAloneInvariant, PTL DEF Spec
=============================================================================
