------------------------------- MODULE Machines -------------------------------
(***************************************************************************)
(* Small machines for Bridge: spec sheets with every shape of on-chip path *)
(* and of system, and chip graphs with counted, derated, disabled and      *)
(* selected instances.                                                     *)
(***************************************************************************)
EXTENDS Bridge

Stage(kind, bandwidth, capacity, latency) ==
  [kind |-> kind, bandwidth |-> bandwidth, capacity |-> capacity, latency |-> latency]
Noc == Stage("link", 3, 0, 1)
Sram == Stage("memory", 6, 2, 0)
SpecChips == {[flops |-> 5, dram |-> Stage("memory", 4, 16, 2), path |-> p] :
                p \in {<< >>, <<Noc>>, <<Sram>>, <<Noc, Sram>>, <<Sram, Noc>>}}

Fabric == [bw |-> 4, lat |-> 1]
Ethernet == [bw |-> 1, lat |-> 7]
SomeSpecs ==
  {[chip |-> c, chips |-> k, net |-> Fabric, topo |-> t, nodes |-> n, network |-> Ethernet] :
     c \in SpecChips, k \in {1, 2}, n \in {1, 2}, t \in {"ring", "all-to-all"}}

------------------------------------------------------------------------------
Bank(count) ==
  [Plain(Simple("bank"), "memory") EXCEPT
     !.count = count, !.capacity = 8, !.bandwidth = 2, !.latency = 2]
Core(count) == [Plain(Simple("core"), "compute") EXCEPT !.count = count, !.flops = 4]
L1(count) ==
  [Plain(Simple("l1"), "memory") EXCEPT !.count = count, !.capacity = 1, !.bandwidth = 4]
NocNode(name, bandwidth) ==
  [Plain(Simple(name), "switch") EXCEPT !.bandwidth = bandwidth, !.latency = 1]
Wire(src, dst, bandwidth) == Edge(Simple(src), Simple(dst), bandwidth, 1)

\* Banks and cores around one fabric, with or without a memory at each core.
Lumped(noc) ==
  [nodes |-> <<Bank(2), NocNode("noc", noc), Core(2)>>,
   edges |-> <<Wire("bank", "noc", 2), Wire("noc", "core", 3)>>]
Tiled(noc) ==
  [nodes |-> <<Bank(2), NocNode("noc", noc), L1(2), Core(2)>>,
   edges |-> <<Wire("bank", "noc", 2), Wire("noc", "l1", 3), Wire("l1", "core", 4)>>]

\* Each bank wired to each core.
Crossbar ==
  [nodes |-> <<Bank(2), Core(3)>>,
   edges |-> <<[Wire("bank", "core", 1) EXCEPT !.pattern = "all"]>>]

\* Two fabrics with half of the banks each, and a bridge between them.
Split(narrow) ==
  [nodes |-> <<Bank(4), NocNode("west", 5), NocNode("east", narrow), Core(1)>>,
   edges |-> <<[Wire("bank", "west", 2) EXCEPT !.src = << <<"bank", <<0, 2>> >> >>],
               [Wire("bank", "east", 2) EXCEPT !.src = << <<"bank", <<2, 4>> >> >>],
               Wire("west", "east", 2), Wire("west", "core", 1), Wire("core", "east", 9)>>]

\* Several routes of different widths from one memory to one core.
Diamond ==
  [nodes |-> <<Bank(1), NocNode("a", 3), NocNode("b", 2), NocNode("c", Unlimited),
               Core(1)>>,
   edges |-> <<Wire("bank", "a", 1), Wire("bank", "b", 3), Wire("b", "a", 1), Wire("b", "c", 2),
               Wire("c", "core", 1), [Wire("a", "core", 1) EXCEPT !.count = 2]>>]
\* The shortest route has to give way for the two that carry most.
Detour ==
  LET hop(name) == NocNode(name, Unlimited) IN
  [nodes |-> <<Bank(1), NocNode("x", 1), NocNode("y", 1), hop("p"), hop("q"), hop("r"),
               hop("s"), Core(1)>>,
   edges |-> <<Wire("bank", "x", 1), Wire("x", "y", 1), Wire("y", "core", 1), Wire("x", "p", 1),
               Wire("p", "q", 1), Wire("q", "core", 1), Wire("bank", "r", 1), Wire("r", "s", 1),
               Wire("s", "y", 1)>>]
Cut == DerateInstances(Diamond, Simple("bank"), 0)
NoLimit == [nodes |-> <<[Bank(1) EXCEPT !.bandwidth = Unlimited], Core(1)>>,
            edges |-> <<Wire("bank", "core", Unlimited)>>]

\* A die inside the chip.
Die(inner) ==
  [nodes |-> <<[Plain(Simple("die"), "composite") EXCEPT
                  !.inner = inner, !.ports = <<Simple("noc")>>],
               [Plain(Simple("uncore"), "memory") EXCEPT !.capacity = 3, !.bandwidth = 1]>>,
   edges |-> <<Wire("uncore", "die", 1)>>]

\* Instance i of a group slowed down, or off.
Harvested(g, name, i, derate) == DerateInstances(g, << <<name, <<i>> >> >>, derate)

FineChips == {Lumped(3), Harvested(Harvested(Lumped(9), "bank", 0, 0), "core", 1, 1),
              Harvested(Harvested(Lumped(Unlimited), "bank", 1, 1), "core", 0, 0),
              Tiled(9), Harvested(Tiled(2), "bank", 1, 1)}
WholeDie == Die(Lumped(9))
ChipMachines ==
  FineChips \cup {WholeDie, Crossbar, Split(5), Split(2), Diamond, Detour, Cut, NoLimit}

\* Two such chips, two links to each, on a ring.
InNode(g, port) ==
  [nodes |-> <<Composite("chip", "chip", 2, g, port),
               [NocNode("fabric", Unlimited) EXCEPT !.topo = "ring"]>>,
   edges |-> <<[Wire("chip", "fabric", 3) EXCEPT !.count = 2], Wire("fabric", "chip", 7)>>]
SomeMachines == ChipMachines \cup {InNode(g, Simple("noc")) : g \in FineChips}
                  \cup {InNode(Split(5), Simple("east"))}
SomeFiner == {[graph |-> Tiled(9), port |-> Simple("noc")],
              [graph |-> Split(5), port |-> Simple("west")]}

\* More instances on one side than on the other, with links of one width.
Uneven ==
  {[nodes |-> <<[Bank(2) EXCEPT !.bandwidth = 3], [L1(3) EXCEPT !.bandwidth = 2], Core(3)>>,
    edges |-> <<Wire("bank", "l1", Unlimited), Wire("l1", "core", Unlimited)>>]}
==============================================================================
