--------------------------------- MODULE Nbio ---------------------------------
(***************************************************************************)
(* InitializeNbioTp1 (NBIO/Nbio.c): the topology, the base configuration   *)
(* of every root bridge (NbioBaseInitGenoa.c), the IOMMUs, the IOAPICs and *)
(* the top of memory.                                                      *)
(*                                                                         *)
(* The SMN registers of a socket are a function from addresses to what has *)
(* been written to them, bit by bit; bits never written are not in it.     *)
(* The registers of a root bridge lie RBIndex megabytes above those of the *)
(* first (NBIO_SPACE), and the blocks of different root bridges overlap.   *)
(***************************************************************************)
EXTENDS NbioTopology, NbioTables, FiniteSetsExt

CONSTANT Inputs  \* what the initialisation can meet, each a record of
                 \*   fuses: the fuses, config: the options that are on and the values
                 \*   of those that have one, room: how many MMIO reservations each
                 \*   root bridge has room for, memory: the MSRs, in units of 4 MB

VARIABLES stage,   \* where InitializeNbioTp1 is
          gnb,     \* the number of the handle its loop has reached
          config,  \* NBIO_CONFIG_DATA and the parts of NBIOCLASS_INPUT_BLK it reads
          memory,  \* the memory MSRs
          absent,  \* SILICON_NOT_PRESENT flags in the silicon headers
          regs,    \* SMN registers: socket -> address -> bit -> 0 or 1
          room,    \* MMIO reservations the resource manager still grants a root bridge
          bars,    \* base address registers that were assigned: <<complex, name>>
          tops     \* the top of memory registers of each root bridge

nbioVars == <<stage, gnb, config, memory, absent, regs, room, bars, tops>>

\* The options mNbioConfigDataDflts turns on with the defaults of Kconfig.
DefaultOptions ==
  {"IOHCClkGatingSupport", "IOHCPgEnable", "CfgNbifMgcgClkGating", "CfgSstunlClkGating",
   "NbioGlobalCgOverride", "IohcNonPCIBarInitSmu", "IommuMMIOAddressReservedEnable",
   "IommuSupport", "IommuL1ClockGatingEnable", "IommuL2ClockGatingEnable",
   "IoApicMMIOAddressReservedEnable", "TPHCompleterEnable", "CfgAriEnDev0F1",
   "CfgAerEnDev0F1", "CfgAcsEnDev0F1"}

On(option) == option \in config.on

Handles == GnbHandles(hdr)

\* The complex of the handle the loop has reached, and its socket.
This == Handles[gnb][2]

Socket(i) == Bridges[i].socket

NBIO_SPACE(i, address) == address + Bridges[i].rb * 2^20

\* The bits of a number, from bit lo on.
FieldBits(lo, v) == {lo + b : b \in {c \in 0..7 : HasBit(v, c)}}

-----------------------------------------------------------------------------
\* Programming registers.

Content(r, address) == IF address \in DOMAIN r THEN r[address] ELSE << >>

\* The bits an entry decides; "and" comes before "or".
Decides(e) == e.and \union e.or

\* The entries of a table that apply to a root bridge with these properties.
Applying(table, property) == SelectSeq(table, LAMBDA e : e.property \subseteq property)

\* What a run of entries leaves in a register: of each bit, what the last one wrote.
LastWritten(entries, address) ==
  LET here == {k \in DOMAIN entries : address \in entries[k].regs}
  IN [b \in UNION {Decides(entries[k]) : k \in here} |->
        Bit(b \in entries[Max({k \in here : b \in Decides(entries[k])})].or)]

\* A socket's registers r after the table was programmed for complex i.
ProgramNbioSmnTable(r, i, table, property) ==
  LET entries == Applying(table, property)
      touched == UNION {entries[k].regs : k \in DOMAIN entries}
  IN [x \in {NBIO_SPACE(i, a) : a \in touched} |->
        Content(r, x) ++ LastWritten(entries, x - NBIO_SPACE(i, 0))] @@ r

\* The same for writes that are in the code and not in a table.
ProgramNow(r, i, entries) == ProgramNbioSmnTable(r, i, entries, {})

WhenOn(option, entries) == IF On(option) THEN entries ELSE << >>

-----------------------------------------------------------------------------
\* NbioClassSetInputBlk: InitNbioConfigData writes OpnSpare through the pointer to
\* the configuration before it is set; that faults, or what it wrote is lost.
NbioClassSetInputBlk ==
  /\ stage = "input"
  /\ stage' \in {"topology", "fault"}
  /\ UNCHANGED <<gnb, config, memory, absent, regs, room, bars, tops>>

\* PcieConfigurationInit, as NbioTopology has it, and on to the first loop.
PcieConfigurationInit ==
  /\ stage = "topology"
  /\ \/ TopologyNext /\ UNCHANGED nbioVars
     \/ /\ pc = "done"
        /\ stage' = "bus"
        /\ gnb' = 1
        /\ UNCHANGED <<topologyVars, config, memory, absent, regs, room, bars, tops>>

\* The next handle of a loop, or the first of the next loop.
Advance(next) ==
  IF gnb < Len(Handles)
  THEN gnb' = gnb + 1 /\ UNCHANGED stage
  ELSE gnb' = 1 /\ stage' = next

-----------------------------------------------------------------------------
\* NbioBaseConfigurationGenoa, first loop: bus numbers and the southbridge location.

SB_LOCATION == \h13B1007C
L1_SB_LOCATION == \h15300024
L2_SB_LOCATION == \h13F0112C

SbLocation(r, i) ==
  IF Bridges[i].sb
  THEN [x \in {NBIO_SPACE(i, L1_SB_LOCATION), NBIO_SPACE(i, L2_SB_LOCATION)}
          |-> Content(r, NBIO_SPACE(i, SB_LOCATION))] @@ r
  ELSE ProgramNow(r, i, <<Wr({SB_LOCATION}, {})>>)

SetBusNumbers ==
  /\ stage = "bus"
  /\ LET i == This
         numbered == ProgramNow(regs[Socket(i)], i,
                       <<Wr({\h13B10044}, FieldBits(0, Bridges[i].bus) \union {8})>>)
     IN regs' = [regs EXCEPT ![Socket(i)] = SbLocation(numbered, i)]
  /\ Advance("presence")
  /\ UNCHANGED <<config, memory, absent, room, bars, tops>>

\* The global override takes the clock gating options back.
GlobalCgOverride ==
  IF On("NbioGlobalCgOverride") THEN config
  ELSE [config EXCEPT
          !.on = @ \ {"CfgSstunlClkGating", "IOHCClkGatingSupport", "IOHCPgEnable",
                      "CfgNbifMgcgClkGating", "CfgSyshubMgcgClkGating"},
          !.NbifMgcgHysteresis = 0, !.SyshubMgcgHysteresis = 0]

\* What a root bridge does not have, by its number (the second loop).
NotPresent(rb) ==
  (IF rb % 2 # 0 THEN {"PRESENT_NBIF0", "PRESENT_NBIF2"} ELSE {"PRESENT_NBIF1"})
    \union (IF rb % 4 # 0 THEN {"PRESENT_SDPMUX"} ELSE {})
    \union (IF Bits(rb, 1, 1) # 0 THEN {"PRESENT_SST"} ELSE {})

MarkPresence ==
  /\ stage = "presence"
  /\ config' = GlobalCgOverride
  /\ absent' = [i \in Complexes |-> absent[i] \union NotPresent(Bridges[i].rb)]
  /\ stage' = "base"
  /\ UNCHANGED <<gnb, memory, regs, room, bars, tops>>

-----------------------------------------------------------------------------
\* Third loop: the tables and the writes of one root bridge.

PROPERTY_DEFAULT_DEVICE_PRESENCE ==
  {"PRESENT_IOHC", "PRESENT_SYSHUB", "PRESENT_NBIF0", "PRESENT_NBIF1", "PRESENT_NBIF2",
   "PRESENT_IOMMU", "PRESENT_L1IOAGR", "PRESENT_L1PCIE0", "PRESENT_L1PCIE1",
   "PRESENT_L1NBIF0", "PRESENT_NB", "PRESENT_PCIE0", "PRESENT_PCIE1", "PRESENT_PCIE2",
   "PRESENT_SDPMUX", "PRESENT_SST"}

\* The IOHC's gating property comes from two options, and can be both.
Properties(i) ==
  LET present == PROPERTY_DEFAULT_DEVICE_PRESENCE \ absent[i]
      choice(option, enabled, disabled) == IF On(option) THEN enabled ELSE disabled
  IN present \union
     (IF "PRESENT_IOHC" \notin present THEN {}
      ELSE {choice("IOHCClkGatingSupport", "IOHC_CLKGATING_ENABLED", "IOHC_CLKGATING_DISABLED"),
            choice("CfgSstunlClkGating", "SST_CLKGATING_ENABLED", "SST_CLKGATING_DISABLED"),
            choice("IOHCPgEnable", "IOHC_CLKGATING_ENABLED", "IOHC_CLKGATING_DISABLED"),
            choice("CfgNbifMgcgClkGating", "NBIF_MGCG_CLKGATING_ENABLED",
                   "NBIF_MGCG_CLKGATING_DISABLED")}
           \union (IF "PRESENT_SYSHUB" \notin present THEN {}
                   ELSE {choice("CfgSyshubMgcgClkGating", "SYSHUB_MGCG_CLKGATING_ENABLED",
                                "SYSHUB_MGCG_CLKGATING_DISABLED")})
           \union (IF On("TPHCompleterEnable") THEN {"TPH_COMPLETER_ENABLED"} ELSE {}))

\* NbioBaseInitGenoa, for the root bridges that have two nBIFs.
NbioBaseInitGenoa(r, i) ==
  LET bus == FieldBits(16, Bridges[i].bus)
      hysteresis(value, of) == IF value = 0 THEN << >> ELSE <<Rmw(of, 2..9, FieldBits(2, value))>>
  IN ProgramNow(r, i,
       <<Rmw({\h1013121C}, 16..31, bus \union {24, 25, 26, 30}),
         Rmw({\h1053101C}, 16..31, bus),
         Rmw({\h10134400, \h10234400}, {28}, {}),
         Rmw({\h1013A008, \h1023A008}, {2}, {})>>
       \o hysteresis(config.NbifMgcgHysteresis, {\h1013A21C, \h1023A21C})
       \o hysteresis(config.SyshubMgcgHysteresis, {\h1410020, \h1510020, \h1403BA8, \h1503BA8})
       \o (IF Bridges[i].rb = 2 THEN <<Rmw({\h10134A00}, {28}, {28})>> ELSE << >>))

\* An option of NbifConfigureCommonOptions: the bit it goes to in some registers.
Strap(option, regsOf, bit) == [option |-> option, regs |-> regsOf, and |-> {bit}, or |-> {bit}]

\* Capabilities of device 0 function 1, in both nBIFs.
Dev0F1Straps ==
  LET second == {\h10134208, \h10234208}
      third == {\h1013420C, \h1023420C}
  IN <<Strap("CfgSriovEnDev0F1", second, 0), Strap("CfgAriEnDev0F1", {\h10134008, \h10234008}, 15),
       Strap("CfgAerEnDev0F1", second, 16), Strap("CfgAcsEnDev0F1", second, 17),
       Strap("CfgAtsEnDev0F1", second, 18), Strap("CfgPasidEnDev0F1", second, 28),
       Strap("CfgPwrEnDev0F1", third, 17), Strap("CfgRtrEnDev0F1", third, 31),
       Strap("CfgPriEnDev0F1", second, 27)>>

\* Access control services of the root complex's device 0.
Strap5 ==
  LET of == {\h10131014, \h10231014}
  IN <<Strap("AtcEnable", {\h101412B6, \h102412B6}, 15),
       Strap("AcsEnRccDev0", {\h10131000, \h10231000}, 17),
       Strap("AerEnRccDev0", {\h10131000, \h10231000}, 18),
       Strap("AcsSourceValStrap5", of, 23), Strap("AcsTranslationalBlockingStrap5", of, 24),
       Strap("AcsP2pReqStrap5", of, 25), Strap("AcsP2pCompStrap5", of, 26),
       Strap("AcsUpstreamFwdStrap5", of, 27), Strap("AcsP2PEgressStrap5", of, 28),
       Strap("AcsDirectTranslatedStrap5", of, 29), Strap("AcsSsidEnStrap5", of, 31)>>

\* Link features of three nBIFs, and page requests.
LinkStraps ==
  LET of == {\h10131804, \h10231804, \h10531804}
      page == {\h101412C4, \h102412C4}
  IN <<Strap("DlfEnStrap1", of, 19), Strap("Phy16gtStrap1", of, 20), Strap("MarginEnStrap1", of, 21),
       Strap("PriEnPageReq", page, 0), Strap("PriResetPageReq", page, 1)>>

\* Access control of the functions.  In the third register the source check is
\* given another option, and the peer request's mask and offset are exchanged:
\* it clears bit 1 and sets bit 4.
AcsStraps ==
  LET of == {\h101412A6, \h102412A6}
      third == {\h101492A6}
      tlp == {\h10131008, \h10231008}
  IN <<Strap("AcsSourceVal", of, 0), Strap("AcsTranslationalBlocking", of \union third, 1),
       Strap("AcsP2pReq", of, 2), Strap("AcsP2pComp", of \union third, 3),
       Strap("AcsUpstreamFwd", of, 4), Strap("AcsP2PEgress", of \union third, 5),
       Strap("AcsSourceValStrap5", third, 0),
       [option |-> "AcsP2pReq", regs |-> third, and |-> {1}, or |-> {4}],
       Strap("AcsUpstreamFwd", third, 4),
       Strap("RccDev0E2EPrefix", tlp, 2), Strap("RccDev0ExtendedFmtSupported", tlp, 7)>>

CommonStraps == Dev0F1Straps \o Strap5 \o LinkStraps \o AcsStraps

NbifConfigureCommonOptions(r, i) ==
  ProgramNow(r, i,
    <<Rmw({\h1013101C}, 16..31, FieldBits(16, Bridges[i].bus) \union {24, 25, 26, 29})>>
    \o [k \in DOMAIN CommonStraps |->
         LET s == CommonStraps[k]
         IN Rmw(s.regs, s.and, IF On(s.option) THEN s.or ELSE {})])

\* The stepping's setting, under "Ax" for A0 and A1 silicon.
SteppingSetting == <<Rmw({\h13B1825C}, 16..23, IF On("SteppingAx") THEN {} ELSE {17, 21})>>

\* (A mutation of BaseConfiguration: the recommended values come last.)
BaseConfigurationPprLast(r, i) ==
  LET p == Properties(i)
      early == ProgramNbioSmnTable(r, i, GnbSdpMuxInitTableCommon \o GnbEarlyInitTableCommon, p)
      nbif == IF Bridges[i].rb % 2 = 0 THEN ProgramNbioSmnTable(early, i, GnbnBifInitTable, p) ELSE early
  IN ProgramNbioSmnTable(NbifConfigureCommonOptions(nbif, i), i,
       (IF Bridges[i].rb % 4 = 0 THEN GnbOncePerSocketInitMP ELSE << >>) \o NbioPprInitValues, p)

\* A socket's registers after the round for complex i.
BaseConfiguration(r, i) ==
  LET p == Properties(i)
      even == Bridges[i].rb % 2 = 0
      once == IF Bridges[i].rb % 4 = 0
              THEN ProgramNbioSmnTable(r, i, GnbOncePerSocketInitMP, p) ELSE r
      ppr == ProgramNbioSmnTable(once, i, NbioPprInitValues, p)
      sdp == ProgramNbioSmnTable(ppr, i, GnbSdpMuxInitTableCommon, p)
      early == ProgramNbioSmnTable(sdp, i, GnbEarlyInitTableCommon, p)
      nbif == IF even
              THEN NbioBaseInitGenoa(ProgramNbioSmnTable(early, i, GnbnBifInitTable, p), i)
              ELSE early
  IN ProgramNow(NbifConfigureCommonOptions(nbif, i), i, SteppingSetting)

\* The base address registers the options ask for, in the order of NonPciBarInit's calls.
WantedBars ==
  SelectSeq(<<"IohcNonPCIBarInitSmu", "IohcNonPCIBarInitDbg", "IohcNonPCIBarInitFastReg",
              "IohcNonPCIBarInitFastRegCtl">>, On)

\* NonPciBarInit for each: one that is assigned stays, one that gets no memory
\* is left as it is, the others are written, enabled and locked.
NonPciBarInit(i) ==
  LET missing == SelectSeq(WantedBars, LAMBDA b : <<i, b>> \notin bars)
      granted == SubSeq(missing, 1, Min({room[i], Len(missing)}))
  IN /\ bars' = bars \union {<<i, granted[k]>> : k \in DOMAIN granted}
     /\ room' = [room EXCEPT ![i] = @ - Len(granted)]

ConfigureRootBridge ==
  /\ stage = "base"
  /\ regs' = [regs EXCEPT ![Socket(This)] = BaseConfiguration(@, This)]
  /\ NonPciBarInit(This)
  /\ Advance("iommu")
  /\ UNCHANGED <<config, memory, absent, tops>>

-----------------------------------------------------------------------------
\* NbioIOMMUInit.

IommuProperties ==
  {IF On("IommuL1ClockGatingEnable") THEN "IOMMU_L1CLKGATING_ENABLED" ELSE "IOMMU_L1CLKGATING_DISABLED",
   IF On("IommuL2ClockGatingEnable") THEN "IOMMU_L2CLKGATING_ENABLED" ELSE "IOMMU_L2CLKGATING_DISABLED"}
    \union (IF On("xApicMode") THEN {"XAPIC_MODE"} ELSE {})
    \union (IF On("IommuSupport") THEN {} ELSE {"IOMMU_DISABLED"})

IOMMU_MMIO_CONTROL0_W == \h13F00080

GAM_SUP_W == 21..23

\* The writes after the table: x2APIC support, guest virtual APIC, the interrupt
\* ordering of Ax, and in the end the GAM support, whatever was set before.
IommuControls ==
  LET avic == IF On("IommuAvicSupport") THEN {21} ELSE {}
  IN (IF On("xApicMode") THEN << >> ELSE <<Rmw({IOMMU_MMIO_CONTROL0_W}, {2, 7}, {2, 7})>>)
     \o (IF On("SevSnpSupport")
         THEN <<Rmw({IOMMU_MMIO_CONTROL0_W, \h15704330}, GAM_SUP_W, {}),
                Rmw({IOMMU_MMIO_CONTROL0_W}, GAM_SUP_W, avic),
                Rmw({IOMMU_MMIO_CONTROL0_W}, 18..20, IF On("IommuAvicSupport") THEN {18} ELSE {})>>
         ELSE <<Rmw({\h13F00084}, {31}, {}),
                Rmw({IOMMU_MMIO_CONTROL0_W, \h15704330}, GAM_SUP_W, avic)>>)
     \o WhenOn("SteppingAx", <<Wr({\h153001FC}, 0..15)>>)
     \o <<Rmw({IOMMU_MMIO_CONTROL0_W}, GAM_SUP_W, {21})>>

\* (A mutation of IommuRound: a root bridge without memory is programmed as well.)
IommuRoundAnyway ==
  /\ stage = "iommu"
  /\ UNCHANGED <<config, memory, absent, tops>>
  /\ LET i == This
         reserve == On("IommuMMIOAddressReservedEnable") /\ room[i] > 0
     IN /\ room' = [room EXCEPT ![i] = IF reserve THEN @ - 1 ELSE @]
        /\ bars' = IF reserve THEN bars \union {<<i, "IOMMU">>} ELSE bars
        /\ regs' = [regs EXCEPT ![Socket(i)] =
              ProgramNow(ProgramNbioSmnTable(@, i, GnbIommuEnvInitTable, IommuProperties),
                         i, IommuControls)]
        /\ Advance("ioapic")

\* One root bridge.  When there is no memory for the base address the function
\* returns, and the caller goes on.
IommuRound ==
  /\ stage = "iommu"
  /\ UNCHANGED <<config, memory, absent, tops>>
  /\ LET i == This
         reserve == On("IommuMMIOAddressReservedEnable")
     IN \/ /\ reserve
           /\ room[i] = 0
           /\ stage' = "ioapic"
           /\ gnb' = 1
           /\ UNCHANGED <<regs, room, bars>>
        \/ /\ reserve => room[i] > 0
           /\ room' = [room EXCEPT ![i] = IF reserve THEN @ - 1 ELSE @]
           /\ bars' = IF reserve THEN bars \union {<<i, "IOMMU">>} ELSE bars
           /\ regs' = [regs EXCEPT ![Socket(i)] =
                ProgramNow(ProgramNbioSmnTable(@, i, GnbIommuEnvInitTable, IommuProperties),
                           i, IommuControls)]
           /\ Advance("ioapic")

-----------------------------------------------------------------------------
\* NbioIoApicInit: the base addresses, and the ids in a second loop.

IoApicBarRound ==
  /\ stage = "ioapic"
  /\ UNCHANGED <<config, memory, absent, regs, tops>>
  /\ \/ /\ ~On("IoApicMMIOAddressReservedEnable")
        /\ stage' = "ioapic_id"
        /\ UNCHANGED <<gnb, room, bars>>
     \/ /\ On("IoApicMMIOAddressReservedEnable")
        /\ room[This] = 0
        /\ stage' = "memory"
        /\ gnb' = 1
        /\ UNCHANGED <<room, bars>>
     \/ /\ On("IoApicMMIOAddressReservedEnable")
        /\ room[This] > 0
        /\ room' = [room EXCEPT ![This] = @ - 1]
        /\ bars' = bars \union {<<This, "IOAPIC">>}
        /\ Advance("ioapic_id")

IOAPIC_ID_REGISTER == \h2801000

IoApicId(i) == (config.IoApicIdBase + Bridges[i].socket * 4 + Bridges[i].rb) % 2^8

IoApicIdRound ==
  /\ stage = "ioapic_id"
  /\ UNCHANGED <<config, memory, absent, room, bars, tops>>
  /\ \/ /\ ~On("IoApicIdPreDefineEn")
        /\ stage' = "memory"
        /\ UNCHANGED <<gnb, regs>>
     \/ /\ On("IoApicIdPreDefineEn")
        /\ regs' = [regs EXCEPT ![Socket(This)] =
              ProgramNow(@, This, <<Wr({IOAPIC_ID_REGISTER}, FieldBits(24, IoApicId(This)))>>)]
        /\ Advance("memory")

-----------------------------------------------------------------------------
\* NbioSetTopOfMemory.  Sizes are in units of 4 MB, so bit b of an address is
\* bit b - 22 here.  The lower register is a local variable that nothing sets
\* when there is no memory above 4 GB.

FourGB == 2^10
OneTB == 2^18

\* Memory above 1 TB goes to TOM3, as an inclusive limit.
AboveOneTB(m) == m.tom2En /\ m.tom2 % 2^26 > OneTB

\* (A mutation of GnbTom3: the limit is the first address that is not memory.)
GnbTom3Exclusive(m) == IF AboveOneTB(m) THEN m.tom2 ELSE 0

GnbTom3(m) == IF AboveOneTB(m) THEN m.tom2 - 1 ELSE 0

\* The registers hold [31:23] and [39:32] of TOM2, an enable, and TOM3's limit.
TopRegisters(m, garbage) ==
  LET above == AboveOneTB(m)
      gnbTom2 == IF ~m.tom2En THEN 0
                 ELSE IF above THEN 253 * FourGB ELSE ((m.tom2 % 2^19) \div 2) * 2
      gnbTom3 == GnbTom3(m)
  IN [tom |-> (m.tom % 2^10) \div 2,
      lower |-> IF gnbTom2 # 0 THEN (gnbTom2 % 2^10) \div 2 ELSE garbage.lower,
      enable |-> gnbTom2 # 0 \/ garbage.enable,
      upper |-> IF gnbTom2 # 0 THEN (gnbTom2 \div 2^10) % 2^8 ELSE 0,
      limit3 |-> gnbTom3, enable3 |-> gnbTom3 # 0]

Garbage == [lower : {0, 1}, enable : BOOLEAN]

NbioSetTopOfMemory ==
  /\ stage = "memory"
  /\ \E garbage \in Garbage :
       tops' = [i \in Complexes |-> TopRegisters(memory, garbage)]
  /\ stage' = "end"
  /\ UNCHANGED <<gnb, config, memory, absent, regs, room, bars>>

-----------------------------------------------------------------------------
Init ==
  /\ \E in \in Inputs :
       fuses = in.fuses /\ config = in.config /\ room = in.room /\ memory = in.memory
  /\ TopologyInit
  /\ stage = "input"
  /\ gnb = 1
  /\ absent = [i \in Complexes |-> {}]
  /\ regs = [s \in {Socket(i) : i \in Complexes} |-> << >>]
  /\ bars = {}
  /\ tops = << >>

Next ==
  \/ PcieConfigurationInit
  \/ /\ UNCHANGED topologyVars
     /\ \/ NbioClassSetInputBlk
        \/ SetBusNumbers
        \/ MarkPresence
        \/ ConfigureRootBridge
        \/ IommuRound
        \/ IoApicBarRound
        \/ IoApicIdRound
        \/ NbioSetTopOfMemory

Spec == Init /\ [][Next]_<<topologyVars, nbioVars>>

-----------------------------------------------------------------------------
\* Properties.

\* The entries that were programmed for complex i after the recommended values.
Settings(i) ==
  LET p == Properties(i)
  IN Applying((IF Bridges[i].rb % 4 = 0 THEN GnbOncePerSocketInitMP ELSE << >>)
                \o GnbSdpMuxInitTableCommon \o GnbEarlyInitTableCommon
                \o (IF Bridges[i].rb % 2 = 0 THEN GnbnBifInitTable ELSE << >>), p)
     \o (IF "IOMMU" \in {b[2] : b \in {c \in bars : c[1] = i}}
         THEN Applying(GnbIommuEnvInitTable, IommuProperties) ELSE << >>)

\* The bits of an entry's registers that do not have the entry's values.
Undone(i, e) ==
  {<<a, b>> \in e.regs \X Decides(e) :
     regs[Socket(i)][NBIO_SPACE(i, a)][b] # Bit(b \in e.or)}

\* Entries that turn the clock gating of a block off.
TurnsGatingOff(e) ==
  e.property \intersect {"SST_CLKGATING_DISABLED", "NBIF_MGCG_CLKGATING_DISABLED",
                         "SYSHUB_MGCG_CLKGATING_DISABLED"} # {}

\* The IOHC's two options contradict each other, and off comes later.
Contradicted(i, e) ==
  "IOHC_CLKGATING_ENABLED" \in e.property /\ "IOHC_CLKGATING_DISABLED" \in Properties(i)

\* The third access control register, where two straps are known to be lost.
Misplaced(s, a) == a = \h101492A6 /\ s.option \in {"AcsTranslationalBlocking", "AcsP2pReq"}

\* The registers of the root bridges overlap, and every root bridge is programmed
\* from the same tables with other properties, then from the common options.
\* At the end every bit a table or an option set for a root bridge still has that
\* value: no later table, root bridge or function undid it.  Clock gating that is
\* turned off is the exception: the recommended values turn it on again.
SettingsHold ==
  stage = "end" =>
    \A i \in Complexes :
      /\ \A e \in ToSet(Settings(i)) :
           TurnsGatingOff(e) \/ Contradicted(i, e) \/ Undone(i, e) = {}
      /\ \A s \in ToSet(CommonStraps), b \in 0..31 :
           \A a \in s.regs :
             b \in s.or /\ ~Misplaced(s, a)
               => regs[Socket(i)][NBIO_SPACE(i, a)][b] = Bit(On(s.option))

Programmed(i, address) == NBIO_SPACE(i, address) \in DOMAIN regs[Socket(i)]

\* InitializeNbioTp1 ignores what its functions return.  When the MMIO space of a
\* root bridge runs out in the middle, still no IOMMU is left with a base address
\* and without its settings or the reverse, the root bridges that were served are
\* the first ones, and the IOAPICs have ids everywhere, all different, or nowhere.
AbortsAreClean ==
  stage = "end" =>
    LET having(bar) == {i \in Complexes : <<i, bar>> \in bars}
        numbered == {i \in Complexes : Programmed(i, IOAPIC_ID_REGISTER)}
    IN /\ On("IommuMMIOAddressReservedEnable") =>
            having("IOMMU") = {i \in Complexes : Programmed(i, IOMMU_MMIO_CONTROL0_W)}
       /\ \A bar \in {"IOMMU", "IOAPIC"}, i \in Complexes, j \in Complexes :
            i < j /\ j \in having(bar) => i \in having(bar)
       /\ numbered \in {{}, Complexes}
       /\ numbered # {} /\ On("IoApicMMIOAddressReservedEnable") => having("IOAPIC") = Complexes
       /\ \A i \in numbered, j \in numbered : i # j => IoApicId(i) # IoApicId(j)

\* The memory a root bridge passes on, and the memory there is: from 0 to TOM and
\* from 4 GB to TOM2, without the 12 GB below 1 TB where TOM2 is above it.
DecodedDram(t) ==
  {<<0, t.tom * 2>>}
    \union (IF t.enable THEN {<<FourGB, t.upper * 2^10 + t.lower * 2>>} ELSE {})
    \union (IF t.enable3 THEN {<<OneTB, t.limit3 + 1>>} ELSE {})

Dram(m) ==
  {<<0, m.tom>>}
    \union (IF ~m.tom2En THEN {}
            ELSE IF m.tom2 > OneTB THEN {<<FourGB, 253 * FourGB>>, <<OneTB, m.tom2>>}
            ELSE {<<FourGB, m.tom2>>})

\* The register of TOM2 has no bit 40, and 1 TB itself does not go to TOM3.
LosesBit40(m) == m.tom2En /\ m.tom2 = OneTB

\* Without memory above 4 GB the enable bit is what the stack held.
EnabledByChance(m, t) == ~m.tom2En /\ t.enable

\* Every root bridge decodes as memory exactly what the memory MSRs say is memory,
\* with two exceptions.  With TOM2 at 1 TB the bridge is told that memory above 4 GB
\* ends at 0.  Without memory above 4 GB it may be told of some, with a limit nobody
\* chose.  Even then memory below 4 GB is right, and all root bridges agree.
TopOfMemoryAsMsrs ==
  stage = "end" =>
    \A i \in Complexes :
      /\ tops[i] = tops[1]
      /\ <<0, memory.tom>> \in DecodedDram(tops[i])
      /\ \/ DecodedDram(tops[i]) = Dram(memory)
         \/ LosesBit40(memory)
         \/ EnabledByChance(memory, tops[i])
=============================================================================
