---------------------------- MODULE RequestService ----------------------------
(***************************************************************************)
(* What a continuous-batching server promises its requests, without KV,    *)
(* prefill or iterations: they are queued in arrival order, at most        *)
(* MaxBatch of them hold a slot, a request that loses its slot keeps the   *)
(* tokens it has emitted, and it is done with exactly output_len of them.  *)
(***************************************************************************)
EXTENDS Integers, FiniteSets

CONSTANTS
  N,         \* the number of requests
  MaxBatch   \* continuous-batching slots

Requests == 1 .. N

VARIABLES
  wanted,    \* output_len of each request
  place,     \* where it is
  emitted    \* the tokens it has emitted

svars == <<wanted, place, emitted>>

At(p) == {r \in Requests : place[r] = p}

Init ==
  /\ wanted \in [Requests -> Nat \ {0}]
  /\ place = [r \in Requests |-> "coming"]
  /\ emitted = [r \in Requests |-> 0]

\* The oldest requests still to come, up to r, join the queue.
Arrive(r) ==
  /\ place[r] = "coming"
  /\ place' = [s \in Requests |->
                 IF place[s] = "coming" /\ s <= r THEN "queued" ELSE place[s]]
  /\ UNCHANGED <<wanted, emitted>>

Admit(r) ==
  /\ place[r] = "queued"
  /\ Cardinality(At("batch")) < MaxBatch
  /\ place' = [place EXCEPT ![r] = "batch"]
  /\ UNCHANGED <<wanted, emitted>>

Preempt(r) ==
  /\ place[r] = "batch"
  /\ place' = [place EXCEPT ![r] = "queued"]
  /\ UNCHANGED <<wanted, emitted>>

\* The requests of S, all in the batch, emit one token each; who has all its
\* tokens then is done.
Emit(S) ==
  /\ S \subseteq At("batch")
  /\ emitted' = [r \in Requests |-> IF r \in S THEN emitted[r] + 1 ELSE emitted[r]]
  /\ place' = [r \in Requests |->
                 IF r \in S /\ emitted[r] + 1 = wanted[r] THEN "done" ELSE place[r]]
  /\ UNCHANGED wanted

Next ==
  \/ \E r \in Requests : Arrive(r) \/ Admit(r) \/ Preempt(r)
  \/ \E S \in SUBSET Requests : Emit(S)

Spec == Init /\ [][Next]_svars
=============================================================================
