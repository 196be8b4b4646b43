----------------------------- MODULE Collectives -----------------------------
(***************************************************************************)
(* collectives.py: a collective as the link transfers of its members.      *)
(* Each builder appends tasks to a list, the first of them waiting for the *)
(* entry task, and ends with the exit task that the caller chains onto.    *)
(* A builder is [tasks, prev], prev = None before any task; a net is what  *)
(* the group runs on, [bw, lat, topo].                                     *)
(*                                                                         *)
(* A link is busy for bytes/bw; latency is a task of its own, on a barrier *)
(* or a propagation resource that nothing else uses.  A resource is named  *)
(* <<kind, stage, x, y>>; labels are left out.                             *)
(*                                                                         *)
(* A definition whose comment starts with "Slip" is a plausible mistake in *)
(* the one after it.                                                       *)
(***************************************************************************)
EXTENDS Integers, SequencesExt

SumSeq(seq) == FoldLeft(+, 0, seq)

None == 0
Builder(tasks, prev) == [tasks |-> tasks, prev |-> prev]
After(b) == IF b.prev = None THEN {} ELSE {b.prev}

Add(b, res, dur, deps) ==
  Builder(Append(b.tasks, [res |-> res, dur |-> dur, deps |-> deps]), Len(b.tasks) + 1)

\* One task after another: links are <<resource, duration>>.
Chain(b, links) == FoldLeft(LAMBDA c, l : Add(c, l[1], l[2], After(c)), b, links)

\* A task `offset` keys later; one that waits for nothing now waits for `entry`.
Shifted(task, offset, entry) ==
  [task EXCEPT !.deps = IF @ = {} THEN entry ELSE {d + offset : d \in @}]

\* The links of member i of stage s, the clockwise cable being the egress of a ring.
Cw(s, i) == <<"cw", s, i, 0>>
Ccw(s, i) == <<"ccw", s, i, 0>>
Out(s, i) == <<"out", s, i, 0>>
In(s, i) == <<"in", s, i, 0>>
Egress(s, i, topo) == IF topo = "ring" THEN Cw(s, i) ELSE Out(s, i)

\* Latency is carried by resources that the utilisation report leaves out.
Bar(s, inst) == <<"bar", s, inst, 0>>
Prop(s, inst, x) == <<"prop", s, inst, x>>
IsSync(res) == res[1] \in {"bar", "prop"}

\* Bytes from member i to member j of an all-to-all: an even split of the payload,
\* or by the popularity of the receiver (dispatch) or of the sender (combine);
\* weights are << >> when uniform.
MsgSize(g, payload, weights, weightOn, i, j) ==
  IF weights = << >> THEN payload \div (g - 1)
  ELSE (g * payload * weights[(IF weightOn = "src" THEN i ELSE j) + 1])
         \div ((g - 1) * SumSeq(weights))

\* In each step every member sends payload/g to the next one; a barrier, which
\* waits for all the sends of the step, joins it to the next step.
StepDeps(n, g) == n + 1 .. n + g

RingStep(b, s, g, payload, net, inst) ==
  LET n == Len(b.tasks)
      sends == [i \in 1 .. g |-> [res |-> Egress(s, i - 1, net.topo),
                                  dur |-> payload \div (g * net.bw), deps |-> After(b)]]
  IN Add([b EXCEPT !.tasks = @ \o sends], Bar(s, inst), net.lat, StepDeps(n, g))

RingPass(b, s, g, payload, net, steps) ==
  LET pass[k \in 0 .. steps] ==
        IF k = 0 THEN b ELSE RingStep(pass[k - 1], s, g, payload, net, Len(b.tasks))
  IN pass[steps]

\* Without an expansion for a mesh: one occupancy, then the latency.
MeshPass(b, s, bytes, net, lat) ==
  Chain(b, << <<Out(s, 0), bytes \div net.bw>>, <<Bar(s, Len(b.tasks) + 1), lat>> >>)

\* An allreduce takes 2(g-1) ring steps, a one-pass allgather or reduce-scatter g-1.
Ring(b, s, g, payload, net, steps) ==
  IF g <= 1 \/ payload <= 0 THEN b
  ELSE IF net.topo = "mesh"
       THEN MeshPass(b, s, (steps * payload) \div g, net, steps * net.lat)
       ELSE RingPass(b, s, g, payload, net, steps)
Allreduce(b, s, g, payload, net) == Ring(b, s, g, payload, net, 2 * (g - 1))
HalfRing(b, s, g, payload, net) == Ring(b, s, g, payload, net, g - 1)

\* On a switch, member i sends to i+1, i+2, ... in turn through its one egress
\* port; each message then takes the receiver's one ingress port.
\* Slip: every member sends to member 0, 1, ... in that order.
ReceiverUnstaggered(i, step, g) == IF step <= i THEN step - 1 ELSE step
Receiver(i, step, g) == (i + step) % g

A2ASwitched(b, s, g, size, net) ==
  LET n == Len(b.tasks)
      Step(x) == 1 + (((x - 1) \div 2) % (g - 1))
      \* Odd positions are egress, even ones the ingress that follows.
      Message(x) ==
        LET i == (x - 1) \div (2 * (g - 1))
            j == Receiver(i, Step(x), g)
        IN [res |-> IF x % 2 = 1 THEN Out(s, i) ELSE In(s, j),
            dur |-> size[i, j] \div net.bw,
            deps |-> IF x % 2 = 0 THEN {n + x - 1}
                     ELSE IF Step(x) = 1 THEN After(b) ELSE {n + x - 2}]
      messages == [x \in 1 .. 2 * g * (g - 1) |-> Message(x)]
  IN Add([b EXCEPT !.tasks = @ \o messages], Bar(s, n), net.lat,
         {n + x : x \in {y \in DOMAIN messages : y % 2 = 0}})

\* On a ring, each message takes the shorter way round, hop by hop; a message
\* half way round goes clockwise.
Clockwise(cw, ccw) == cw <= ccw

\* The pairs of distinct members, by sender and then by receiver.
Pairs(g) == [x \in 1 .. g * (g - 1) |->
               LET i == (x - 1) \div (g - 1)
                   j == (x - 1) % (g - 1)
               IN <<i, IF j < i THEN j ELSE j + 1>>]

A2ARing(b, s, g, size, net) ==
  LET n == Len(b.tasks)
      Route(i, j) ==
        LET cw == (j - i) % g
            ccw == (i - j) % g
            clock == Clockwise(cw, ccw)
            Hop(h) == IF clock THEN Cw(s, (i + h) % g) ELSE Ccw(s, (i - h) % g)
        IN [x \in 1 .. 2 * (IF clock THEN cw ELSE ccw) |->
              IF x % 2 = 1 THEN <<Hop((x - 1) \div 2), size[i, j] \div net.bw>>
                           ELSE <<Prop(s, n, g * i + j), net.lat>>]
      messages == [p \in DOMAIN Pairs(g) |->
                     Chain(Builder(<< >>, None), Route(Pairs(g)[p][1], Pairs(g)[p][2])).tasks]
      Sent(p) == n + SumSeq([q \in 1 .. p |-> Len(messages[q])])
      hops == [p \in DOMAIN messages |->
                 [x \in DOMAIN messages[p] |-> Shifted(messages[p][x], Sent(p - 1), After(b))]]
  IN Add([b EXCEPT !.tasks = @ \o FlattenSeq(hops)], Bar(s, n), 0,
         {Sent(p) : p \in DOMAIN messages})

\* On a mesh the weights are ignored.
AllToAll(b, s, g, payload, net, weights, weightOn) ==
  LET members == 0 .. g - 1
      size == [i, j \in members |-> MsgSize(g, payload, weights, weightOn, i, j)] IN
  CASE g <= 1 \/ payload <= 0 -> b
    [] g > 1 /\ payload > 0 /\ net.topo = "ring" -> A2ARing(b, s, g, size, net)
    [] g > 1 /\ payload > 0 /\ net.topo = "mesh" -> MeshPass(b, s, payload, net, net.lat)
    [] g > 1 /\ payload > 0 /\ net.topo = "all-to-all" -> A2ASwitched(b, s, g, size, net)
==============================================================================
