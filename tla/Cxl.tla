-------------------------------- MODULE Cxl --------------------------------
(***************************************************************************)
(* The start of CXL ports (xUSL/Cxl/Common/CxlInit.c and Genoa/CxlCmn2.c): *)
(* CxlPortInit finds the engines whose link negotiated CXL, gives each one *)
(* an RCRB, a bus number and a BAR, sizes the BARs of the device behind it *)
(* and reports the devices to MPIO.  The MMIO comes from FabricReserveMmio,*)
(* which other drivers call before and after: the module extends RcMgrPool.*)
(*                                                                         *)
(* Addresses and sizes count units of 4 KB, so a 32-bit value wraps at     *)
(* Span32.  Whether anything answers on the bus that an engine was given   *)
(* is up to the hardware and left open at each access.                     *)
(***************************************************************************)
EXTENDS RcMgrPool, Registers, Sequences, FiniteSets

CONSTANTS
    Machines,           \* see MachineOK
    MaxReservations     \* bound: reservations of the other drivers

Above == "NON_PCI_DEVICE_ABOVE_4G"
Span32 == 2^20
HighSpan == 2^10        \* bound: BARs are smaller than 4 TB
ALIGN_1M == 255
RcrbSize == 2           \* 8 * 1024
SIL_RESERVED_14 == 1    \* 4 * 1024
MEM_BAR0_SIZE == 16
GRANULARITY_32BIT == 256
GRANULARITY_64BIT == 4096
MaxInstances == 16      \* MAX_NUMBER_OF_COMPLEXES
BarIndexes == 1 .. 6    \* registers 10h to 24h

(* A device: whether it has the PCIe capability, its extended capabilities *)
(* in the order of the list, what its upstream RCRB reads as, the CXL      *)
(* capability bits and the BARs (a 64-bit BAR takes two registers).        *)
DeviceOK(d) ==
    /\ d.pcie \in BOOLEAN
    /\ \A i \in DOMAIN d.caps : d.caps[i] \in [cap : Nat, vid : Nat, id : Nat]
    /\ d.usAllOnes \in BOOLEAN
    /\ d.cache \in BOOLEAN /\ d.mem \in BOOLEAN
    /\ d.bars \in [BarIndexes -> [kind : {"IO", "MEM_32_BAR", "MEM_64_BAR", "HIGH"},
                                  size : Nat]]
    /\ \A i \in BarIndexes :
         d.bars[i].kind = "MEM_64_BAR" => i < 6 /\ d.bars[i + 1].kind = "HIGH"
NoDevice == [pcie |-> FALSE, caps |-> << >>, usAllOnes |-> TRUE, cache |-> FALSE,
             mem |-> FALSE, bars |-> [i \in BarIndexes |-> [kind |-> "IO", size |-> 0]]]

(* A machine: the MMIO windows, the root bridges in the order of their     *)
(* InstanceId with the buses they decode, the engines in topology order,   *)
(* and the input block.                                                    *)
MachineOK(m) ==
    /\ m.layout \in Layouts
    /\ DOMAIN m.rbs = 1 .. Len(m.rbs) /\ Len(m.rbs) \in 1 .. MaxInstances
    /\ {m.rbs[i] : i \in DOMAIN m.rbs} = m.layout.rbs
    /\ \A i, j \in DOMAIN m.rbs : m.rbs[i] = m.rbs[j] => i = j
    /\ \A rb \in m.layout.rbs :
         /\ m.base[rb] \in 0 .. 255 /\ m.limit[rb] \in 0 .. 255
         /\ m.base[rb] <= m.limit[rb]
         /\ m.layout.busRb[m.base[rb]] = rb
    /\ \A rb, other \in m.layout.rbs :
         rb # other => m.base[rb] .. m.limit[rb] \cap m.base[other] .. m.limit[other] = {}
    /\ DOMAIN m.engines = 1 .. Len(m.engines) /\ Len(m.engines) \in Nat
    /\ \A i \in DOMAIN m.engines :
         m.engines[i].rb \in m.layout.rbs /\ DeviceOK(m.engines[i].device)

ASSUME MachineAssumption == \A m \in Machines : MachineOK(m)

(* CXL's reservations are told from those of the other drivers by what was *)
(* asked for.                                                              *)
ASSUME OthersAssumption ==
    ALIGN_1M \notin Masks \/ {RcrbSize, MEM_BAR0_SIZE} \cap Lengths = {}

VARIABLES
    machine,
    phase,          \* where CxlPortInit is
    at,             \* the engine that the callback runs on
    engine,         \* the engine descriptors and the registers of their ports
    busLimits,      \* Resources.BusLimits, by InstanceId
    bars,           \* base addresses in the BARs of the devices: low, high
    block,          \* AmdPcieAerReportMechanism of input and output block
    cfg1,           \* NB_CXL_CFG1 of the root bridges
    told            \* messages to MPIO

cxlVars == <<machine, phase, at, engine, busLimits, bars, block, cfg1, told>>
poolVars == <<region, given, request, answer>>
allVars == <<cxlVars, layout, poolVars>>

Engines == DOMAIN machine.engines
InstanceId(rb) == (CHOOSE i \in DOMAIN machine.rbs : machine.rbs[i] = rb) - 1
(* Mutant of BusIndex: limits kept per number within the socket. *)
BusIndexRBIndex(rb) == rb[2]
BusIndex(rb) == InstanceId(rb)

NewEngine ==
    [type |-> "PCIE", hotplug |-> TRUE, arb |-> {}, rxOpt |-> FALSE, txOpt |-> FALSE,
     errMasks |-> FALSE, dpcStrap |-> 1, DsRcrb |-> 0, UsRcrb |-> 0,
     rcrbBase |-> "reset", bus |-> 0, Address |-> 0, CxlDeviceType |-> 0,
     Mmio32Size |-> 0, Mmio32Gran |-> 0, Mmio64Size |-> 0, bar0 |-> 0]

(* The BARs are clear, or hold what an earlier stage left. *)
InitialBars == {[i \in BarIndexes |-> 0], [i \in BarIndexes |-> 7]}

CxlInit ==
    /\ Init
    /\ machine \in {m \in Machines : m.layout = layout}
    /\ phase = "Before"
    /\ at = 1
    /\ engine = [e \in Engines |-> NewEngine]
    /\ busLimits = [i \in 0 .. MaxInstances - 1 |-> 0]
    /\ \E b \in InitialBars : bars = [e \in Engines |-> b]
    /\ block = [in |-> 1, out |-> 1]
    /\ cfg1 = [rb \in layout.rbs |-> "reset"]
    /\ told = << >>

-----------------------------------------------------------------------------
(* Other drivers reserve MMIO before CXL starts and after it is through. *)
OtherDriver ==
    /\ phase \in {"Before", "Done"}
    /\ Cardinality(given) < MaxReservations
    /\ ReserveForBus
    /\ UNCHANGED cxlVars

(* CxlPortInit starts the walk over the PCIe engines; without the NBIO and *)
(* MPIO services, which every configuration has, nothing would be done.    *)
CxlPortInit ==
    /\ phase = "Before"
    /\ phase' = "FindPorts"
    /\ UNCHANGED <<layout, poolVars, machine, at, engine, busLimits, bars, block, cfg1, told>>

(* A read-modify-write of a field: the value is shifted but not cut to it. *)
Field(reg, mask, value, offset) ==
    (reg \ mask) \cup {offset + n : n \in {b \in 0 .. 7 : HasBit(value, b)}}

(* The arbitration register of a port after the three weights. *)
ArbWeights(reg, in) ==
    LET io == IF in.CxlIoArbWeights = 0 THEN reg
              ELSE Field(reg, 16 .. 19, in.CxlIoArbWeights, 16) \cup {24}
        camem == IF in.CxlCaMemArbWeights = 0 THEN io
                 ELSE Field(io, 20 .. 23, in.CxlCaMemArbWeights, 20) \cup {24}
    IN  IF in.CnliTokenAdvertisement = 0 THEN camem
        ELSE Field(camem, 10 .. 14, in.CnliTokenAdvertisement, 10) \cup {8}

(* What CxlFindPorts sets in a port that may carry CXL.  The optimisations *)
(* are meant for revision B0 and later, but the test reads the core's id   *)
(* as if it were the SoC's and is true for every revision.                 *)
PortOptions(r, in) ==
    [r EXCEPT !.arb = ArbWeights(@, in),
              !.rxOpt = in.CxlCamemRxOptimization,
              !.txOpt = in.CxlTxOptimizeDirectOutEn]
(* And in one whose link negotiated it. *)
MakeCxl(r) ==
    [r EXCEPT !.type = "CXL", !.hotplug = FALSE, !.errMasks = TRUE, !.dpcStrap = 0]

CxlFindPorts ==
    /\ phase = "FindPorts"
    /\ at \in Engines
    /\ LET g == machine.engines[at]
           in == machine.options
           runs == g.allocated /\ g.trained
           option == IF runs /\ g.CxlControl THEN PortOptions(engine[at], in) ELSE engine[at]
           found == runs /\ g.negotiated
       IN  /\ engine' = [engine EXCEPT ![at] = IF found THEN MakeCxl(option) ELSE option]
           /\ cfg1' = IF runs /\ g.CxlControl /\ ~in.ReportErrorsToRcec
                      THEN [cfg1 EXCEPT ![g.rb] = "address of a local"] ELSE cfg1
           /\ block' = IF found /\ in.AmdCxlProtocolErrorReporting = 2
                       THEN [in |-> 2, out |-> 2] ELSE block
    /\ at' = at + 1
    /\ UNCHANGED <<layout, poolVars, machine, phase, busLimits, bars, told>>

(* CxlPortInit again: the last bus of every root bridge. *)
BusLimits ==
    /\ phase = "FindPorts"
    /\ at \notin Engines
    /\ busLimits' = [i \in DOMAIN busLimits |->
                        LET rbs == {rb \in layout.rbs : BusIndex(rb) = i}
                        IN  IF rbs = {} THEN 0 ELSE machine.limit[CHOOSE rb \in rbs : TRUE]]
    /\ phase' = "Assign"
    /\ at' = 1
    /\ UNCHANGED <<layout, poolVars, machine, engine, bars, block, cfg1, told>>

-----------------------------------------------------------------------------
DVSEC_CAP == 35
DVSEC_VID == 32902
DVSEC_VID2 == 7832
DVSEC_ID == 0
DVSEC_ID_REG_LOCATOR == 8

Least(S) == CHOOSE i \in S : \A j \in S : i <= j

(* GnbLibFindPcieExtendedCapability finds the first DVSEC of the list;     *)
(* GnbLibFindNextPcieExtendedCapability looks at the one capability behind *)
(* and gives up when that is not a DVSEC.                                  *)
DvsecRun(d) ==
    LET dvsecs == {i \in DOMAIN d.caps : d.caps[i].cap = DVSEC_CAP}
    IN  IF ~d.pcie \/ dvsecs = {} THEN {}
        ELSE {i \in dvsecs : \A j \in Least(dvsecs) .. i : j \in dvsecs}

(* The position of the first matching one; 0 when there is none. *)
CxlGetDvsec(d, vids, id) ==
    LET hits == {i \in DvsecRun(d) : d.caps[i].vid \in vids /\ d.caps[i].id = id}
    IN  IF hits = {} THEN 0 ELSE Least(hits)

-----------------------------------------------------------------------------
(* What a BAR of a size keeps of a written value; a size of 4 GB or more   *)
(* leaves nothing of the low register.                                     *)
KeepLow(size, value) == IF size = 0 \/ size >= Span32 THEN 0 ELSE (value \div size) * size
KeepHigh(size, value) ==
    IF size < Span32 THEN value ELSE (value \div (size \div Span32)) * (size \div Span32)

(* A sizing returns the size and what it leaves in the low and the high    *)
(* register.                                                               *)
GetMem32BarSize(bar, low) ==
    [size |-> (Span32 - KeepLow(bar.size, Span32 - 1)) % Span32, low |-> low]
GetMem64BarSize(bar, low, high) ==
    LET value == KeepLow(bar.size, Span32 - 1)
    IN  [size |-> IF value = 0
                  THEN Span32 * ((HighSpan - KeepHigh(bar.size, HighSpan - 1)) % HighSpan)
                  ELSE Span32 - value,
         low |-> low, high |-> high]

(* The loop of AllocateForCxlIo from register i on: the registers, the sum *)
(* and the largest of the 32-bit and of the 64-bit BARs.                   *)
Aggregate(dev, regs0) ==
    LET Step[i \in 1 .. 7] ==
          IF i = 1 THEN [regs |-> regs0, size32 |-> 0, gran32 |-> GRANULARITY_32BIT,
                         size64 |-> 0, gran64 |-> GRANULARITY_64BIT]
          ELSE LET s == Step[i - 1]
                   n == i - 1
                   bar == dev.bars[n]
                   m32 == GetMem32BarSize(bar, s.regs[n])
                   m64 == GetMem64BarSize(bar, s.regs[n], s.regs[n + 1])
               IN  IF bar.kind \in {"IO", "HIGH"} THEN s
                   ELSE IF bar.kind = "MEM_32_BAR"
                   THEN [s EXCEPT !.regs[n] = m32.low,
                                  !.size32 = (@ + m32.size) % Span32,
                                  !.gran32 = IF m32.size > @ THEN m32.size ELSE @]
                   ELSE [s EXCEPT !.regs = [@ EXCEPT ![n] = m64.low, ![n + 1] = m64.high],
                                  !.size64 = @ + m64.size,
                                  !.gran64 = IF m64.size > @ THEN m64.size ELSE @]
    IN  Step[7]

(* Mutant of RoundUp: rounded down. *)
RoundDown(size, gran, span) == size - (size % gran)
(* (size + (gran - 1)) & ~(gran - 1), in a width. *)
RoundUp(size, gran, span) ==
    LET sum == (size + gran - 1) % span IN sum - (sum % gran)

AllocateForCxlIo(r, s) ==
    LET size32 == RoundUp(s.size32, s.gran32, Span32)
    IN  [r EXCEPT !.Mmio32Size = IF size32 = 0 THEN GRANULARITY_32BIT ELSE size32,
                  !.Mmio32Gran = s.gran32,
                  !.Mmio64Size = RoundUp(s.size64, s.gran64, Span32 * HighSpan)]

-----------------------------------------------------------------------------
CxlMmioAlloc(rb, size, kind) ==
    Reserve(kind, layout.busRb[machine.base[rb]], size, ALIGN_1M)

NextEngine == at' = at + 1 /\ phase' = "Assign"

(* The bus is the last one that is left; an 8-bit value counts down. *)
CxlAssignBus(rb) == [busLimits EXCEPT ![BusIndex(rb)] = (@ - 1) % 256]

(* CxlAssignResources, first part: the RCRB.  The code passes the address  *)
(* of a local variable to the SMN writes of the RCRB base, not its value.  *)
(* Mutant of WithRcrb: the upstream half starts where the downstream does. *)
WithRcrbShared(r, base, bus) ==
    [r EXCEPT !.DsRcrb = base, !.UsRcrb = base, !.rcrbBase = "address of a local", !.bus = bus]
WithRcrb(r, base, bus) ==
    [r EXCEPT !.DsRcrb = base, !.UsRcrb = base + SIL_RESERVED_14,
              !.rcrbBase = "address of a local", !.bus = bus]

(* The device on the new bus: a CXL device of revision 1.1 answers at its  *)
(* upstream RCRB, one of 2.0 has a register locator instead.               *)
Usable(d) == ~d.usAllOnes \/ CxlGetDvsec(d, {DVSEC_VID2}, DVSEC_ID_REG_LOCATOR) # 0
Located(r, d) ==
    [r EXCEPT !.UsRcrb = IF d.usAllOnes THEN 0 ELSE @, !.Address = r.bus]
WithType(r, d) ==
    [r EXCEPT !.CxlDeviceType = IF d.mem THEN 3 ELSE IF d.cache THEN 1 ELSE @]

AssignSkipped ==
    /\ phase = "Assign"
    /\ at \in Engines
    /\ engine[at].type # "CXL"
    /\ NextEngine
    /\ UNCHANGED <<layout, poolVars, machine, engine, busLimits, bars, block, cfg1, told>>

CxlAssignResources ==
    /\ phase = "Assign"
    /\ at \in Engines
    /\ engine[at].type = "CXL"
    /\ LET g == machine.engines[at]
           bus == busLimits[BusIndex(g.rb)]
       IN  /\ CxlMmioAlloc(g.rb, RcrbSize, Below)
           /\ \/ /\ answer'.status # "SilPass"
                 /\ NextEngine
                 /\ UNCHANGED <<engine, busLimits, bars>>
              \/ /\ answer'.status = "SilPass"
                 /\ busLimits' = CxlAssignBus(g.rb)
                 /\ \E d \in {g.device, NoDevice} :
                      LET r == WithRcrb(engine[at], answer'.base, bus)
                          s == Aggregate(d, bars[at])
                      IN  \/ /\ CxlGetDvsec(d, {DVSEC_VID, DVSEC_VID2}, DVSEC_ID) = 0 \/ ~Usable(d)
                             /\ engine' = [engine EXCEPT ![at] = r]
                             /\ NextEngine
                             /\ UNCHANGED bars
                          \/ /\ CxlGetDvsec(d, {DVSEC_VID, DVSEC_VID2}, DVSEC_ID) # 0 /\ Usable(d)
                             /\ d.mem /\ d.cache       \* the assertion: no type 2
                             /\ engine' = [engine EXCEPT ![at] = Located(r, d)]
                             /\ phase' = "Asserted"
                             /\ UNCHANGED <<at, bars>>
                          \/ /\ CxlGetDvsec(d, {DVSEC_VID, DVSEC_VID2}, DVSEC_ID) # 0 /\ Usable(d)
                             /\ ~(d.mem /\ d.cache)
                             /\ engine' = [engine EXCEPT ![at] =
                                             AllocateForCxlIo(WithType(Located(r, d), d), s)]
                             /\ bars' = [bars EXCEPT ![at] = s.regs]
                             /\ phase' = "AssignBar0"
                             /\ UNCHANGED at
    /\ UNCHANGED <<machine, block, cfg1, told>>

(* CxlAssignResources goes on: MEMBAR0 of the downstream port. *)
AssignBar0 ==
    /\ phase = "AssignBar0"
    /\ CxlMmioAlloc(machine.engines[at].rb, MEM_BAR0_SIZE, Above)
    /\ engine' = IF answer'.status = "SilPass"
                 THEN [engine EXCEPT ![at].bar0 = answer'.base] ELSE engine
    /\ NextEngine
    /\ UNCHANGED <<machine, busLimits, bars, block, cfg1, told>>

-----------------------------------------------------------------------------
(* CxlDevListGenerate clears the counts of the list and has every CXL      *)
(* engine entered by CxlReportToMpio, but passes the address of its own    *)
(* parameter for the list: the entries and the counts go to the stack.     *)
(* The list itself stays empty, or is hit by one of the stray writes.      *)
CxlEngines == {e \in Engines : engine[e].type = "CXL"}
CxlReportToMpio == IF CxlEngines = {} THEN {0} ELSE {0, 1}
Message(socket, count) == [socket |-> socket, count |-> count, devices |-> {}]

CxlDevListGenerate ==
    /\ phase = "Assign"
    /\ at \notin Engines
    /\ \E s0, s1 \in CxlReportToMpio :
         told' = (IF s0 # 0 THEN <<Message(0, s0)>> ELSE << >>)
                 \o (IF s1 # 0 /\ (\E rb \in layout.rbs : rb[1] # 0)
                     THEN <<Message(1, s1)>> ELSE << >>)
    /\ phase' = "Done"
    /\ UNCHANGED <<layout, poolVars, machine, at, engine, busLimits, bars, block, cfg1>>

CxlNext ==
    \/ OtherDriver
    \/ CxlPortInit
    \/ CxlFindPorts
    \/ BusLimits
    \/ AssignSkipped
    \/ CxlAssignResources
    \/ AssignBar0
    \/ CxlDevListGenerate
CxlSpec == CxlInit /\ [][CxlNext]_allVars

-----------------------------------------------------------------------------
(* CxlAssignBus hands out buses that CXL ports of no root bridge share,    *)
(* each one decoded by the port's root bridge and above the bus its own    *)
(* devices are on (as long as there are more buses than CXL ports).        *)
Assigned == {e \in CxlEngines : engine[e].DsRcrb # 0}
Owner(e) == machine.engines[e].rb
EnoughBuses ==
    \A rb \in layout.rbs :
        machine.limit[rb] - machine.base[rb] >= Cardinality({e \in Engines : Owner(e) = rb})
CxlBusesApart ==
    EnoughBuses =>
        /\ \A e \in Assigned :
             engine[e].bus \in machine.base[Owner(e)] + 1 .. machine.limit[Owner(e)]
        /\ \A e, f \in Assigned : e # f => engine[e].bus # engine[f].bus

(* The MMIO that CxlAssignResources reserved and the addresses it left in  *)
(* the engine descriptors and ports are the same, one RCRB and at most one *)
(* BAR0 to a port, in a window of the root bridge the port is on: no       *)
(* address is used twice or leaks on a path that gives up half way.  The   *)
(* upstream RCRB is the second half, or none.                              *)
Rcrbs == {engine[e].DsRcrb : e \in Assigned}
Bar0s == {engine[e].bar0 : e \in Assigned} \ {0}
CxlGiven(size) == {g \in given : g.mask = ALIGN_1M /\ g.length = size}
RoutedTo(e) == {Owner(e)} \cup (IF Owner(e) = layout.primary THEN {layout.second} ELSE {})
RcrbsOwned ==
    /\ {g.base : g \in CxlGiven(RcrbSize)} = Rcrbs
    /\ {g.base : g \in CxlGiven(MEM_BAR0_SIZE)} = Bar0s
    /\ \A e, f \in Assigned : engine[e].DsRcrb = engine[f].DsRcrb => e = f
    /\ \A e \in Assigned :
         /\ engine[e].UsRcrb \in {0, engine[e].DsRcrb + 1}
         /\ \A g \in given :
              g.base \in {engine[e].DsRcrb, engine[e].bar0} => g.window[2] \in RoutedTo(e)

(* AllocateForCxlIo asks for enough: the sizes it leaves in the descriptor *)
(* hold all BARs of the device, each at a multiple of its size, unless     *)
(* those of 32 bits need all of the 32-bit space; and the BARs are as they *)
(* were before it sized them.                                              *)
Sizes(d, kind) == [i \in {j \in BarIndexes : d.bars[j].kind = kind} |-> d.bars[i].size]
Total(f) ==
    LET Sum[i \in 0 .. 6] ==
          IF i = 0 THEN 0 ELSE Sum[i - 1] + (IF i \in DOMAIN f THEN f[i] ELSE 0)
    IN  Sum[6]
Largest(f, least) == CHOOSE n \in {f[i] : i \in DOMAIN f} \cup {least} :
                         n >= least /\ \A i \in DOMAIN f : n >= f[i]
Holds(size, f, least) ==
    /\ size >= Total(f)
    /\ size % Largest(f, least) = 0
CxlIoCovered ==
    /\ bars \in [Engines -> InitialBars]
    /\ \A e \in {x \in Assigned : engine[x].Mmio32Gran # 0} :
         LET need32 == Sizes(machine.engines[e].device, "MEM_32_BAR")
             need64 == Sizes(machine.engines[e].device, "MEM_64_BAR")
         IN  /\ Total(need32) + Largest(need32, GRANULARITY_32BIT) <= Span32
                   => Holds(engine[e].Mmio32Size, need32, GRANULARITY_32BIT)
             /\ Holds(engine[e].Mmio64Size, need64, GRANULARITY_64BIT)

=============================================================================
