------------------------------ MODULE MCRcMgr ------------------------------
(* RcMgr on scaled-down memory maps, mostly one socket of four root        *)
(* bridges.  Every set of inputs is the question of one run.               *)
EXTENDS RcMgr, TLC

Ap(size, mask) == [Size |-> size, Alignment |-> mask]

(* TOM, the configuration space, the bottom reserved for the primary, and  *)
(* the end of the addresses above 4G.                                      *)
Map(tom, tom2, cfg, space, bottom, phys) ==
    [TOM |-> tom, TOM2 |-> tom2, PciExpressBaseAddress |-> cfg, PciCfgSpace |-> space,
     BottomMmioReservedForPrimaryRb |-> bottom, MmioAbove4GLimit |-> 200,
     PhysLimit |-> phys]

(* What a root bridge asks for below and above 4G. *)
None == [p |-> Ap(0, 0), np |-> Ap(0, 0), pHigh |-> Ap(0, 0), npHigh |-> Ap(0, 0)]
Small == [p |-> Ap(2, 1), np |-> Ap(1, 0), pHigh |-> Ap(0, 0), npHigh |-> Ap(2, 1)]
Large == [p |-> Ap(3, 1), np |-> Ap(4, 3), pHigh |-> Ap(6, 3), npHigh |-> Ap(3, 1)]
Plain == [p |-> Ap(6, 0), np |-> Ap(0, 0), pHigh |-> Ap(0, 0), npHigh |-> Ap(0, 0)]

(* The size of a system, and n buses for each of its root bridges, from    *)
(* bus 0 at the primary on.                                                *)
System(sockets, rbs, primary, n) ==
    LET Number(s) == (s[1] * rbs + s[2] - primary[1] * rbs - primary[2]) % (sockets * rbs)
    IN  [SocketNumber |-> sockets, RbsPerSocket |-> rbs, Primary |-> primary,
         bus |-> [s \in Slots |->
                    IF s[1] < sockets /\ s[2] < rbs
                    THEN [base |-> n * Number(s), limit |-> n * Number(s) + n - 1]
                    ELSE NoBus]]

(* The NV variable: what each root bridge asks for, what the primary asks  *)
(* for a second region, the IO sizes and numbers of buses.                 *)
Nv(demand, nonPci, second, ports, buses) ==
    [SetRcBasedOnNv |-> TRUE, McptEnable |-> FALSE,
     PrefetchableMmioSizeBelow4G |-> [s \in DOMAIN demand |-> demand[s].p],
     NonPrefetchableMmioSizeBelow4G |-> [s \in DOMAIN demand |-> demand[s].np],
     PrefetchableMmioSizeAbove4G |-> [s \in DOMAIN demand |-> demand[s].pHigh],
     NonPrefetchableMmioSizeAbove4G |-> [s \in DOMAIN demand |-> demand[s].npHigh],
     MmioSizePerRbForNonPciDevice |-> nonPci, Above4GMmioSizePerRbForNonPciDevice |-> 2,
     PrimaryRbSecondPrefetchableMmioSizeBelow4G |-> second,
     PrimaryRbSecondNonPrefetchableMmioSizeBelow4G |-> Ap(0, 0),
     ResourceDistributionNv |-> [k \in 0 .. 7 |-> k # 1],
     IO |-> [s \in DOMAIN demand |-> ports[s[2] + 1]],
     PciBusNumber |-> [s \in DOMAIN demand |-> buses[s[2] + 1]]]
NoNv(demand, nonPci) ==
    [SetRcBasedOnNv |-> FALSE]
      @@ Nv(demand, nonPci, Ap(0, 0), <<0, 0, 0, 0>>, <<0, 0, 0, 0>>)

FourRbs == {<<0, r>> : r \in 0 .. 3}
EightRbs == {<<s, r>> : s \in 0 .. 1, r \in 0 .. 3}
All(d) == [s \in FourRbs |-> d]
OnlyPrimary(d) == [s \in FourRbs |-> IF s = <<0, 0>> THEN d ELSE None]
FourPorts == <<2, 4, 6, 5>>
FourBuses == <<4, 4, 4, 4>>

Maps == {Map(4, 0, 4, 4, 40, 140), Map(4, 56, 16, 4, 40, 140),
         Map(4, 56, 24, 8, 34, 100), Map(10, 90, 34, 6, 40, 180)}

(* One socket; every mixture of demands, most of which can be met. *)
NvInputs ==
    {map @@ System(1, 4, primary, 4) @@ Nv(demand, ask[1], ask[2], FourPorts, FourBuses) :
       map \in Maps, demand \in [FourRbs -> {Small, Large, Plain}],
       primary \in {<<0, 0>>, <<0, 3>>},
       ask \in {<<0, Ap(1, 0)>>, <<1, Ap(0, 0)>>}}
(* IO and bus requests, and the configuration space above 4G. *)
OtherInputs ==
    {Map(4, 56, 16, 4, 40, 140) @@ System(1, 4, primary, n)
       @@ [Nv(All(Small), 1, Ap(0, 0), ports, buses) EXCEPT !.McptEnable = mcpt] :
       primary \in FourRbs, n \in {1, 4}, ports \in {<<0, 0, 0, 0>>, <<2, 4, 12, 9>>, <<9, 12, 4, 2>>},
       buses \in {<<4, 4, 4, 4>>, <<1, 2, 3, 4>>, <<7, 1, 1, 7>>}, mcpt \in BOOLEAN}
(* No NV variable: one root bridge, one socket, two sockets. *)
EvenInputs ==
    {map @@ System(1, 4, primary, 4) @@ NoNv(All(None), nonPci) :
       map \in Maps \cup {Map(4, 56, 60, 8, 40, 140)}, primary \in FourRbs, nonPci \in {0, 1, 3}}
    \cup {map @@ System(1, 1, <<0, 0>>, 4) @@ NoNv(All(None), nonPci) :
            map \in {Map(4, 56, 16, 4, 40, 140), Map(4, 56, 24, 8, 34, 100)}, nonPci \in {0, 1}}
    \cup {map @@ System(2, 4, primary, 2) @@ NoNv([s \in EightRbs |-> None], 1) :
            map \in Maps, primary \in {<<0, 0>>, <<1, 2>>}}
TwoSocketInputs ==
    {map @@ System(2, 4, primary, 2)
       @@ Nv([s \in EightRbs |-> IF s[1] = 0 THEN d ELSE Small], 1, Ap(0, 0), <<2, 2, 2, 2>>, <<2, 2, 2, 2>>) :
       map \in Maps, d \in {None, Small, Large}, primary \in {<<0, 0>>, <<1, 3>>}}

(* Demands that fill both spaces, so that few combinations fit. *)
FullInputs ==
    {Map(4, 56, 11, 4, 23, 140) @@ System(1, 4, primary, 4)
       @@ Nv([s \in FourRbs |-> [None EXCEPT !.p = Ap(sizes[s[2] + 1], 0)]],
             0, Ap(0, 0), FourPorts, FourBuses) :
       primary \in {<<0, 0>>, <<0, 3>>},
       sizes \in {<<2, 3, 4, 6>>, <<2, 6, 4, 3>>, <<6, 3, 4, 2>>, <<3, 6, 2, 4>>, <<7, 2, 2, 3>>}}

MCInputs == FullInputs \cup NvInputs \cup OtherInputs \cup EvenInputs \cup TwoSocketInputs

(* The second region of the primary, with an alignment. *)
SecondInputs ==
    {Map(4, 56, 16, 4, 40, 140) @@ System(1, 4, <<0, 0>>, 4)
       @@ Nv(demand, 3, Ap(1, 1), FourPorts, FourBuses) : demand \in [FourRbs -> {Small, Plain}]}
(* A first region that fits only without its non-PCI part. *)
MoveInputs ==
    {Map(4, 56, 8, 4, 35, 140) @@ System(1, 4, <<0, 0>>, 4)
       @@ Nv(demand, 1, Ap(0, 0), FourPorts, FourBuses) :
       demand \in [FourRbs -> {Small, Large, Plain}]}
(* The primary fits above the configuration space without non-PCI part. *)
TightInputs ==
    {Map(4, 56, cfg, 4, 17, 140) @@ System(1, 4, <<0, 0>>, 4)
       @@ Nv(OnlyPrimary([None EXCEPT !.p = Ap(5, 0)]), 1, Ap(0, 0), FourPorts, FourBuses) :
       cfg \in {6, 7, 8}}
(* Little space above 4G. *)
NarrowInputs ==
    {Map(4, 56, 16, 4, 40, phys) @@ System(1, 4, <<0, 0>>, 4)
       @@ Nv(All(Large), 1, Ap(0, 0), FourPorts, FourBuses) : phys \in 64 .. 80}
NarrowEvenInputs ==
    {Map(4, 57, 16, 4, 40, phys) @@ System(1, 4, <<0, 0>>, 4) @@ NoNv(All(None), 1) :
       phys \in 64 .. 90}
(* The configuration space above 4G, with the NV variable and without. *)
HighCfgInputs ==
    {Map(4, 56, cfg, 8, 40, 140) @@ System(1, 4, <<0, 0>>, 4)
       @@ Nv(All(Small), 1, Ap(0, 0), FourPorts, FourBuses) : cfg \in {60, 90, 112}}
HighCfgEvenInputs ==
    {Map(4, 56, cfg, 8, 40, 190) @@ System(1, 4, <<0, 0>>, 4) @@ NoNv(All(None), 1) :
       cfg \in {60, 90, 110, 130, 150}}
=============================================================================
