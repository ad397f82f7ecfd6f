------------------------------- MODULE RcMgr -------------------------------
(***************************************************************************)
(* InitializeResourceManagerDfXTp1 (xUSL/RcMgr/DfX/FabricRcInitDfX.c): the *)
(* resource manager's start-up distributes MMIO, IO ports and PCI buses to *)
(* the root bridges, from an NV variable if it can, evenly otherwise.      *)
(***************************************************************************)
EXTENDS RcMgrMmio, TLC

CONSTANTS
    Inputs,         \* DFX_RCMGR_INPUT_BLK and the machine, see RcMgrMmio
    IoGranule,      \* 4K in units of IO size
    LegacyIoSize,   \* X86_LEGACY_IO_SIZE
    X86IoLimit,     \* X86IO_LIMIT
    DfIoLimit,      \* DF_IO_LIMIT
    Uint32,         \* number of values of an IO address
    BusCount        \* 0x100, the buses of a segment

(* The IO ports and the PCI buses.  IO sizes are counted in units of which *)
(* IoGranule make 4K, the granule of a DF IO pair; c is the input block of *)
(* RcMgrMmio.                                                              *)
Wrap32(x) == x % Uint32
NoIo == [IoRegion |-> [s \in Slots |-> [IoBase |-> 0, IoSize |-> 0]],
         IoPair |-> << >>, asserted |-> FALSE]

(* Root bridges by the first bus they decode; those without a bus last. *)
DfXSilGetPhySktRbNum(c, bus) ==
    LET Base(rb) == IF bus[rb].base > bus[rb].limit THEN BusCount ELSE bus[rb].base
        Number(rb) == rb[1] * c.RbsPerSocket + rb[2]
    IN  SortSeq(RbSeq(c), LAMBDA a, b :
          \/ Base(a) < Base(b)
          \/ Base(a) = Base(b) /\ Number(a) < Number(b))

SilSetIoReg4(io, rb, base, size) ==
    [io EXCEPT !.IoPair = Append(@,
       [rb |-> rb, base |-> base \div IoGranule,
        limit |-> (base + size - 1) \div IoGranule])]

(* The primary root bridge's ports start at 0, with the legacy ones; the   *)
(* others follow in the order of their buses, and the last one has the     *)
(* rest.  want[rb] is what a root bridge is to have.                       *)
IoOfRb(c, order, want, acc, k) ==
    LET rb == order[k]
        primary == rb = c.Primary
        single == RbNumber(c) = 1
        last == k = Len(order)
        base == IF primary THEN 0 ELSE acc.others
        share == CASE primary /\ single -> DfIoLimit
                   [] primary /\ ~single -> want[rb] + LegacyIoSize
                   [] OTHER -> want[rb]
        size == IF last THEN Wrap32(DfIoLimit - base) ELSE share
        own == IF primary THEN base + LegacyIoSize ELSE base
        region == [IoBase |-> own,
                   IoSize |-> IF last THEN Wrap32(X86IoLimit - own)
                              ELSE size - (own - base)]
        asserted == [acc.io EXCEPT !.asserted = @ \/ base >= X86IoLimit]
    IN  [others |-> IF primary THEN acc.others ELSE acc.others + want[rb],
         io |-> IF size = 0 THEN asserted
                ELSE [SilSetIoReg4(asserted, rb, base, size)
                        EXCEPT !.IoRegion[rb] = region]]
InitIo(c, bus, io, want) ==
    LET order == DfXSilGetPhySktRbNum(c, bus)
        others == IF RbNumber(c) = 1 THEN 0 ELSE want[c.Primary] + LegacyIoSize
    IN  FoldLeft(LAMBDA acc, k : IoOfRb(c, order, want, acc, k),
                 [others |-> others, io |-> io],
                 [k \in 1 .. RbNumber(c) |-> k]).io

SilInitIoBasedOnNvVariable4(c, bus, io) ==
    InitIo(c, bus, io, [rb \in DOMAIN c.IO |-> AlignDown(c.IO[rb], IoGranule)])
SilInitIoEqually4(c, bus, io) ==
    InitIo(c, bus, io, [rb \in Slots |->
             AlignDown((X86IoLimit - LegacyIoSize) \div RbNumber(c), IoGranule)])

(***************************************************************************)
(* PCI buses: bus[rb] is what the configuration address map gives a root   *)
(* bridge.                                                                 *)
(***************************************************************************)
IosRbLoopToRbAssignOrder == << 2, 3, 1, 0 >>
NoBus == [base |-> 1, limit |-> 0]

BusOrder(c) ==
    LET RbOf(k) == << k \div c.RbsPerSocket,
                      IosRbLoopToRbAssignOrder[c.RbsPerSocket - (k % c.RbsPerSocket)] >>
    IN  [k \in 1 .. RbNumber(c) |-> RbOf(k - 1)]

(* Mutant of SilSetCfgAddrMapReg4: the next base is this limit. *)
CfgAddrMapOverlap(acc, rb, base, limit) ==
    [bus |-> [acc.bus EXCEPT ![rb] = [base |-> base % BusCount,
                                      limit |-> limit % BusCount]],
     next |-> limit,
     asserted |-> acc.asserted \/ base >= BusCount \/ limit >= BusCount]
(* The primary root bridge's buses start at 0, the others follow; the one  *)
(* assigned last has the rest.                                             *)
SilSetCfgAddrMapReg4(acc, rb, base, limit) ==
    [bus |-> [acc.bus EXCEPT ![rb] = [base |-> base % BusCount,
                                      limit |-> limit % BusCount]],
     next |-> limit + 1,
     asserted |-> acc.asserted \/ base >= BusCount \/ limit >= BusCount]

SilInitPciBusBasedOnNvVariable4(c, bus) ==
    LET NeedReallocate == \E rb \in Rbs(c) :
          bus[rb].limit - bus[rb].base + 1 # c.PciBusNumber[rb]
        order == BusOrder(c)
        Assign(acc, k) ==
          IF order[k] = c.Primary THEN acc
          ELSE SilSetCfgAddrMapReg4(acc, order[k], acc.next,
                 IF k = RbNumber(c) THEN BusCount - 1
                 ELSE acc.next + c.PciBusNumber[order[k]] - 1)
        primary == SilSetCfgAddrMapReg4(
                     [bus |-> [s \in Slots |-> NoBus], asserted |-> FALSE],
                     c.Primary, 0, c.PciBusNumber[c.Primary] - 1)
    IN  IF NeedReallocate
        THEN FoldLeft(Assign, primary, [k \in 1 .. RbNumber(c) |-> k])
        ELSE [bus |-> bus, next |-> 0, asserted |-> FALSE]

-----------------------------------------------------------------------------
VARIABLES
    SilData,        \* the input
    pc,             \* where the start-up is
    mmio,           \* DFX_FABRIC_MMIO_MANAGER and the DF's MMIO pairs
    combination,    \* MmioIsAbovePcieCfg
    below,          \* NumberOfRbBelowPcieCfg
    enough,         \* EnoughAbovePcieSpaceForPrimaryRb
    io,             \* DFX_FABRIC_IO_MANAGER and the DF's IO pairs
    bus,            \* the DF's configuration address map
    CalledStatus,
    Status

vars == <<SilData, pc, mmio, combination, below, enough, io, bus, CalledStatus, Status>>

AllAbove == [k \in 0 .. MaxSockets * MaxRbs - 1 |-> TRUE]
(* Step 2 of SilArrangeMmioBelow4G: the last n root bridges below. *)
FirstCombination(n) ==
    [k \in DOMAIN AllAbove |-> k \notin RbNumber(SilData) - n .. RbNumber(SilData) - 1]

Init ==
    /\ SilData \in Inputs
    /\ pc = "start"
    /\ mmio = NoMmio
    /\ combination = AllAbove
    /\ below = 0
    /\ enough = FALSE
    /\ io = NoIo
    /\ bus = SilData.bus
    /\ CalledStatus = "SilPass"
    /\ Status = "SilPass"

(* The asserts on the input block are not in a release build, which goes   *)
(* on with two sockets although they require SocketNumber to be less than  *)
(* MAX_SOCKETS_SUPPORTED.                                                  *)
Start ==
    /\ pc = "start"
    /\ pc' = IF SilData.SetRcBasedOnNv THEN "above4g" ELSE "equally"
    /\ UNCHANGED <<SilData, mmio, combination, below, enough, io, bus, CalledStatus, Status>>

(* SilInitMmioBasedOnNvVariable4 up to and with SilArrangeMmioAbove4G. *)
MmioAbove4G ==
    LET asserted == Assert2(mmio, ~HighPcieCfg(SilData) =>
            /\ SilData.BottomMmioReservedForPrimaryRb
                 >= SilData.PciExpressBaseAddress + SilData.PciCfgSpace
            /\ SilData.PciExpressBaseAddress >= SilData.TOM)
        res == SilArrangeMmioAbove4G(SilData, asserted)
    IN  /\ pc = "above4g"
        /\ mmio' = res.m
        /\ pc' = IF res.enough THEN "last" ELSE "equally"
        /\ CalledStatus' = IF res.enough THEN "SilPass" ELSE "SilOutOfResources"
        /\ UNCHANGED <<SilData, combination, below, enough, io, bus, Status>>

(* Does the primary root bridge fit above the configuration space? *)
EnoughAbovePcieSpaceForPrimaryRb ==
    SilData.PrefetchableMmioSizeBelow4G[SilData.Primary].Size
      + SilData.NonPrefetchableMmioSizeBelow4G[SilData.Primary].Size
      + SilData.MmioSizePerRbForNonPciDevice
      <= Wrap(SilData.BottomMmioReservedForPrimaryRb - BaseAbovePcieCfg(SilData))

(* The combination that the NV variable holds is tried first, and its root *)
(* bridges programmed until one does not fit.                              *)
TryLastCombination ==
    LET res == SilTryThisCombination(SilData, mmio, SilData.ResourceDistributionNv, TRUE)
    IN  /\ pc = "last"
        /\ mmio' = res.m
        /\ pc' = IF res.fits THEN "io" ELSE "arrange"
        /\ enough' = EnoughAbovePcieSpaceForPrimaryRb
        /\ combination' = FirstCombination(0)
        /\ below' = 0
        /\ UNCHANGED <<SilData, io, bus, CalledStatus, Status>>

(* The combinations SilArrangeMmioBelow4G looks at: the primary above when *)
(* there is enough space for it, below otherwise.                          *)
Considered == IsAbove(combination, SilData.Primary) = enough
Fits == /\ Considered
        /\ SilTryThisCombination(SilData, mmio, combination, FALSE).fits

ArrangeFound ==
    /\ pc = "arrange"
    /\ Fits
    /\ mmio' = SilTryThisCombination(SilData, mmio, combination, TRUE).m
    /\ pc' = "io"
    /\ UNCHANGED <<SilData, combination, below, enough, io, bus, CalledStatus, Status>>

(* Is there a try with one more root bridge below?  Not without space. *)
MoreBelow ==
    below < RbNumber(SilData) /\ SilData.PciExpressBaseAddress # SilData.TOM

(* The next combination with as many below, else the first one with one    *)
(* more, else the primary on the other side, else the even distribution.   *)
ArrangeNext ==
    LET next == SilGetNextCombination(SilData, below, combination)
    IN  /\ pc = "arrange"
        /\ ~Fits
        /\ \/ /\ next # << >>
              /\ combination' = next
              /\ UNCHANGED <<pc, below, enough, CalledStatus>>
           \/ /\ next = << >> /\ MoreBelow
              /\ combination' = FirstCombination(below + 1)
              /\ below' = below + 1
              /\ UNCHANGED <<pc, enough, CalledStatus>>
           \/ /\ next = << >> /\ ~MoreBelow /\ enough
              /\ combination' = FirstCombination(0)
              /\ below' = 0
              /\ enough' = FALSE
              /\ UNCHANGED <<pc, CalledStatus>>
           \/ /\ next = << >> /\ ~MoreBelow /\ ~enough
              /\ pc' = "equally"
              /\ CalledStatus' = "SilOutOfResources"
              /\ UNCHANGED <<combination, below, enough>>
        /\ UNCHANGED <<SilData, mmio, io, bus, Status>>

MmioEqually ==
    LET res == SilInitMmioEqually4(SilData, mmio)
    IN  /\ pc = "equally"
        /\ mmio' = res.m
        /\ CalledStatus' = res.status
        /\ Status' = res.status
        /\ pc' = "io"
        /\ UNCHANGED <<SilData, combination, below, enough, io, bus>>

(* The NV variant always succeeds, so the even one follows only when there *)
(* is no NV variable, and its status replaces that of MMIO.                *)
InitializeIo ==
    /\ pc = "io"
    /\ io' = IF SilData.SetRcBasedOnNv
             THEN SilInitIoBasedOnNvVariable4(SilData, bus, io)
             ELSE SilInitIoEqually4(SilData, bus, io)
    /\ CalledStatus' = "SilPass"
    /\ Status' = IF SilData.SetRcBasedOnNv THEN Status ELSE "SilPass"
    /\ pc' = "bus"
    /\ UNCHANGED <<SilData, mmio, combination, below, enough, bus>>

InitializePciBus ==
    LET res == SilInitPciBusBasedOnNvVariable4(SilData, bus)
        wanted == SilData.SetRcBasedOnNv /\ ~SilData.McptEnable
    IN  /\ pc = "bus"
        /\ bus' = IF wanted THEN res.bus ELSE bus
        /\ io' = IF wanted THEN [io EXCEPT !.asserted = @ \/ res.asserted] ELSE io
        /\ Status' = IF wanted THEN "SilPass" ELSE Status
        /\ pc' = "done"
        /\ UNCHANGED <<SilData, mmio, combination, below, enough, CalledStatus>>

Next ==
    \/ Start
    \/ MmioAbove4G
    \/ TryLastCombination
    \/ ArrangeFound
    \/ ArrangeNext
    \/ MmioEqually
    \/ InitializeIo
    \/ InitializePciBus

Spec == Init /\ [][Next]_vars

-----------------------------------------------------------------------------
(***************************************************************************)
(* What the start-up must leave, once MMIO is set without a failed assert. *)
(***************************************************************************)
Set == pc = "io" /\ CalledStatus = "SilPass" /\ ~mmio.asserted

Pairs == {k \in DOMAIN mmio.MmioPair : mmio.MmioPair[k] # NoPair}
PairRange(k) == mmio.MmioPair[k].base .. mmio.MmioPair[k].limit
Posted(k) == PairRange(k) = PostedStart .. PostedStart
Span(base, size) == base .. base + size - 1

(* The regions with the pair they belong to. *)
RegionsOf(r, pair) ==
    {w \in {[kind |-> "NonPci", base |-> r.BaseNonPci, size |-> r.SizeNonPci,
             mask |-> 0, pair |-> pair],
            [kind |-> "NonPrefetch", base |-> r.BaseNonPrefetch,
             size |-> r.SizeNonPrefetch, mask |-> r.AlignNonPrefetch, pair |-> pair],
            [kind |-> "Prefetch", base |-> r.BasePrefetch, size |-> r.SizePrefetch,
             mask |-> r.AlignPrefetch, pair |-> pair]} : w.size # 0}
Regions ==
    UNION {RegionsOf(mmio.MmioRegionBelow4G[s], PairBelow(SilData, s)) : s \in Slots}
      \cup UNION {RegionsOf(mmio.MmioRegionAbove4G[s], PairAbove(SilData, s)) : s \in Slots}

(* The windows that FabricReserveMmio serves requests from. *)
PoolLayout ==
    LET Below(r) == [Base |-> r.BaseNonPci, Size |-> r.SizeNonPci, Used |-> r.UsedSizeNonPci]
        low == "NON_PCI_DEVICE_BELOW_4G"
        high == "NON_PCI_DEVICE_ABOVE_4G"
    IN  [region |-> [w \in {low, high} \X Slots |->
                       Below(IF w[1] = low THEN mmio.MmioRegionBelow4G[w[2]]
                             ELSE mmio.MmioRegionAbove4G[w[2]])],
         allocate |-> [w \in {low, high} \X Slots |->
                         IF w[1] = low THEN mmio.AllocateMmioBelow4GOnThisRb[w[2]]
                         ELSE mmio.AllocateMmioAbove4GOnThisRb[w[2]]],
         second |-> IF mmio.PrimaryRbHas2ndMmioBelow4G
                    THEN mmio.PrimaryRb2ndMmioPairBelow4G ELSE << >>,
         rbs |-> Rbs(SilData), primary |-> SilData.Primary,
         busRb |-> [b \in 0 .. BusCount - 1 |->
                      LET owner == {rb \in Rbs(SilData) : b \in bus[rb].base .. bus[rb].limit}
                      IN  IF owner = {} THEN << >> ELSE CHOOSE rb \in owner : TRUE]]
Pool == INSTANCE RcMgrPool
          WITH Layouts <- {}, Buses <- 0 .. BusCount - 1,
               Lengths <- {}, Masks <- {}, layout <- PoolLayout, region <- PoolLayout.region,
               given <- {}, request <- << >>, answer <- << >>

(* No address is routed to two places: the MMIO pairs of the DF that       *)
(* SilSetMmioReg4 enables never overlap, those a failed attempt left       *)
(* behind included.                                                        *)
PairsDisjoint ==
    Set => \A j, k \in Pairs : j # k => PairRange(j) \cap PairRange(k) = {}

(* The regions the manager hands out to a root bridge lie apart, inside    *)
(* the pair that routes their addresses to it, and start at multiples of   *)
(* the alignment the NV variable asks for.                                 *)
RegionsPlaced ==
    Set => \A v, w \in Regions :
             /\ Span(w.base, w.size) \subseteq PairRange(w.pair)
             /\ v # w => Span(v.base, v.size) \cap Span(w.base, w.size) = {}
             /\ w.base % (w.mask + 1) = 0

(* No pair routes DRAM or the PCIe configuration space to a root bridge,   *)
(* and from BOTTOM_OF_COMPAT to 4G only the posted region is described.    *)
ReservedNotRouted ==
    Set => \A k \in Pairs :
        /\ Posted(k) \/ PairRange(k) \cap (BottomOfCompat .. FourG - 1) = {}
        /\ PairRange(k) \cap
             (0 .. SilData.TOM - 1
               \cup FourG .. SilData.TOM2 - 1
               \cup Span(SilData.PciExpressBaseAddress, SilData.PciCfgSpace)) = {}

(* When the NV variable is satisfied, every root bridge has what it asks   *)
(* for: the non-PCI region of the primary may be in its second MMIO.       *)
Met(rb) ==
    LET low == mmio.MmioRegionBelow4G[rb]
        high == mmio.MmioRegionAbove4G[rb]
        second == mmio.MmioRegionBelow4G[mmio.PrimaryRb2ndMmioPairBelow4G]
    IN  /\ low.SizePrefetch >= SilData.PrefetchableMmioSizeBelow4G[rb].Size
        /\ low.SizeNonPrefetch >= SilData.NonPrefetchableMmioSizeBelow4G[rb].Size
        /\ high.SizePrefetch >= SilData.PrefetchableMmioSizeAbove4G[rb].Size
        /\ high.SizeNonPrefetch >= SilData.NonPrefetchableMmioSizeAbove4G[rb].Size
        /\ \/ low.SizeNonPci >= SilData.MmioSizePerRbForNonPciDevice
           \/ /\ rb = SilData.Primary
              /\ mmio.PrimaryRbHas2ndMmioBelow4G
              /\ second.SizeNonPci >= SilData.MmioSizePerRbForNonPciDevice
AllMet == \A rb \in Rbs(SilData) : Met(rb)
RequestsMet ==
    AllMet' \/ pc \notin {"last", "arrange"} \/ pc' # "io"

(* SilArrangeMmioBelow4G gives up only when no distribution of the root    *)
(* bridges over the two spaces fits.                                       *)
SearchComplete ==
    pc = "arrange" /\ pc' = "equally" =>
      \A c \in Combinations : ~SilTryThisCombination(SilData, mmio, c, FALSE).fits

(* What is left for non-PCI devices is what FabricReserveMmio relies on:   *)
(* windows that lie apart, and a second window of the primary in a slot of *)
(* no root bridge.                                                         *)
PoolLayoutOK ==
    Set /\ SilData.MmioSizePerRbForNonPciDevice # 0 =>
      \A l \in {PoolLayout} : Pool!LayoutOK(l)

(* At the end of the MMIO start-up the manager's book-keeping, the DF      *)
(* registers and the system's memory map agree: regions lie apart inside   *)
(* the pair that routes them, nothing reserved is routed to a root bridge, *)
(* and what is left is a pool FabricReserveMmio can serve from.            *)
MmioRouted == RegionsPlaced /\ ReservedNotRouted /\ PoolLayoutOK

(* The search of SilArrangeMmioBelow4G never comes back to a combination,  *)
(* so it ends: the primary goes from above to below once, then the number  *)
(* of root bridges below grows, then SilGetNextCombination goes down in    *)
(* the order of the binary numbers whose ones are the root bridges below.  *)
BelowBits ==
    FoldSet(LAMBDA k, sum : sum + 2 ^ k, 0, {k \in DOMAIN combination : ~combination[k]})
Advanced ==
    \/ enough /\ ~enough'
    \/ enough = enough' /\ below' > below
    \/ enough = enough' /\ below' = below /\ BelowBits' < BelowBits
SearchAdvances == pc = "arrange" /\ pc' = "arrange" => Advanced

(* The search of SilArrangeMmioBelow4G neither misses nor invents a        *)
(* distribution: it gives up only when none fits, what it settles for      *)
(* gives every root bridge what it asked for, and it never comes back to a *)
(* combination.                                                            *)
SearchExact == [][SearchComplete /\ RequestsMet /\ SearchAdvances]_vars

(* The port ranges lie apart, within 64K, and inside the IO pair that      *)
(* routes them to their root bridge.                                       *)
IoApart ==
    pc \in {"bus", "done"} /\ ~io.asserted =>
      \A r, s \in Rbs(SilData) :
        LET range == Span(io.IoRegion[r].IoBase, io.IoRegion[r].IoSize)
        IN  /\ range \subseteq 0 .. X86IoLimit - 1
            /\ r # s => range \cap Span(io.IoRegion[s].IoBase, io.IoRegion[s].IoSize) = {}
            /\ range # {} => \E k \in DOMAIN io.IoPair :
                 /\ io.IoPair[k].rb = r
                 /\ \A p \in range :
                      p \div IoGranule \in io.IoPair[k].base .. io.IoPair[k].limit

(* No bus is routed to two root bridges. *)
BusesApart ==
    ~io.asserted =>
      \A r, s \in Rbs(SilData) :
        r # s => (bus[r].base .. bus[r].limit) \cap (bus[s].base .. bus[s].limit) = {}

(* No IO port and no bus is routed to two root bridges, and the ports of a *)
(* root bridge are inside its IO pair, before and after the NV variable's  *)
(* wishes are carried out.                                                 *)
IoAndBusesDisjoint == IoApart /\ BusesApart
=============================================================================
