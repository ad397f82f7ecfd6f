------------------------------ MODULE NbioTables ------------------------------
(***************************************************************************)
(* The register tables of NBIO (NBIO/IOD/Nbio*Tbl.h, NbioDefaults.h) and   *)
(* how NbioSmnTables.c puts them together.                                 *)
(*                                                                         *)
(* An entry clears the bits "and" and then sets the bits "or" of each of   *)
(* its registers, for the root bridges that have all of its properties.    *)
(* Consecutive entries of the source for one register are one entry here,  *)
(* and registers that get the same bits share it.                          *)
(***************************************************************************)
EXTENDS Registers, Sequences

\* The bits of a 32-bit value given by its halves, and registers at a stride.
Word(high, low) == {b \in 0..15 : HasBit(low, b)} \union {16 + b : b \in {c \in 0..15 : HasBit(high, c)}}

Ranks(first, stride, n) == {first + stride * k : k \in 0..n}

\* The four kinds of entries.
PropertyRmw(property, regs, and, or) ==
  [property |-> property, regs |-> regs, and |-> and, or |-> or]

Rmw(regs, and, or) == PropertyRmw({}, regs, and, or)

PropertyWr(property, regs, value) == PropertyRmw(property, regs, 0..31, value)

Wr(regs, value) == PropertyRmw({}, regs, 0..31, value)

\* Peer to peer.

NBIO_IOHC_P2P_TBL ==
  <<Rmw({\h13B10118}, {0}, {1}),
    Rmw({\h13B10230}, {0, 1}, {0})>>

\* Retries on configuration request retry status.

NBIO_IOHC_CRS_TBL == <<Rmw({\h13B10028}, 0..27, {1, 2, 17, 21, 22, 25})>>

\* Clock gating of the IOHC and of the IOAGR.

IohcClockGating ==
  <<PropertyRmw({"IOHC_CLKGATING_ENABLED"}, {\h13B10088, \h13B1008C, \h13B10090}, 22..31, {}),
    PropertyRmw({"IOHC_CLKGATING_DISABLED"}, {\h13B10088, \h13B1008C, \h13B10090}, 22..31, 22..31)>>

IoagrClockGating ==
  <<PropertyRmw({"IOHC_CLKGATING_ENABLED"}, {\h15B00000, \h15B00004}, 22..31, {}),
    PropertyRmw({"IOHC_CLKGATING_DISABLED"}, {\h15B00000, \h15B00004}, 22..31, 22..31)>>

NBIO_IOHC_CLOCK_GATING_TBL == IohcClockGating \o IoagrClockGating

\* Clock gating of the source synchronous tunnels.

NBIO_SST_CLOCK_GATING_TBL ==
  <<PropertyRmw({"SST_CLKGATING_ENABLED"}, {\h17500004, \h17600004}, (8..16) \union {0},
                (12..16) \union {0}),
    PropertyRmw({"SST_CLKGATING_DISABLED"}, {\h17500004, \h17600004}, {0, 16}, {}),
    PropertyRmw({"SST_CLKGATING_ENABLED"}, {\h17500404, \h17600404}, {4}, {4}),
    PropertyRmw({"SST_CLKGATING_DISABLED"}, {\h17500404, \h17600404}, {4}, {})>>

\* Clock gating of the SDP muxes.

SIL_RESERVED_784 ==
  <<PropertyRmw({"IOHC_CLKGATING_ENABLED", "PRESENT_SDPMUX"},
                {\h4400000, \h4400004, \h4E00000, \h4E00004}, 22..31, {})>>

\* Arbitration weights of the IOHC and of the IOAGR.

IohcRequestArbitration ==
  <<Wr(Ranks(\h13B14400, \h404, 6) \union Ranks(\h13B14404, \h404, 6), {3, 11, 19, 27}),
    Wr({\h13B14408, \h13B1440C, \h13B1480C, \h13B14810, \h13B14C10, \h13B14C14},
       {0, 5, 8, 13, 16, 21, 24, 29}),
    Wr({\h13B15014, \h13B15018, \h13B15418, \h13B1541C}, {0, 5, 10, 15, 16, 21, 26, 31}),
    Wr({\h13B1581C, \h13B15820}, {0, 5, 8, 10, 15, 16, 21, 24, 26, 31})>>

IohcResponseArbitration ==
  <<Wr(Ranks(\h13B14430, \h404, 6) \union Ranks(\h13B14434, \h404, 6), {3, 11, 19, 27}),
    Wr(Ranks(\h13B14410, \h404, 6) \union Ranks(\h13B14414, \h404, 6) \union Ranks(\h13B14440,
        \h404, 6) \union Ranks(\h13B14444, \h404, 6), {1, 9, 17, 25})>>

IoagrArbitration ==
  <<Wr(Ranks(\h15B00400, \h400, 3) \union Ranks(\h15B00404, \h400, 3) \union Ranks(\h15B00430,
        \h400, 3) \union Ranks(\h15B00434, \h400, 3), {3, 11, 19, 27}),
    Wr({\h15B00408, \h15B0040C, \h15B00808, \h15B0080C, \h15B00C08, \h15B00C0C},
       {0, 5, 8, 13, 16, 21, 24, 29}),
    Wr({\h15B01008, \h15B0100C}, {0, 5, 10, 15, 16, 21, 26, 31})>>

IoagrResponseArbitration ==
  <<Wr(Ranks(\h15B00410, \h400, 3) \union Ranks(\h15B00414, \h400, 3) \union Ranks(\h15B00440,
        \h400, 3) \union Ranks(\h15B00444, \h400, 3), {1, 9, 17, 25}),
    Rmw({\h13B14044}, Word(\h1F7F, \h1F7F), (0..3) \union {5, 12, 20, 21, 28}),
    Wr({\h13B14040}, {})>>

NBIO_IOHC_ARBITRATION_TBL ==
  IohcRequestArbitration \o IohcResponseArbitration \o IoagrArbitration \o IoagrResponseArbitration

\* Arbitration weights of the SDP muxes.

SdpMuxArbitration0 ==
  <<PropertyWr({"PRESENT_SDPMUX"},
               Ranks(\h4400400, \h400, 4) \union Ranks(\h4400404, \h400, 4) \union
                Ranks(\h4E00400, \h400, 4) \union Ranks(\h4E00404, \h400, 4), {3, 11, 19, 27}),
    PropertyWr({"PRESENT_SDPMUX"}, Ranks(\h4400408, \h400, 4) \union Ranks(\h4E00408, \h400, 4),
               {0, 5, 8, 13, 16, 21, 24, 29})>>

SdpMuxArbitration1 ==
  <<PropertyWr({"PRESENT_SDPMUX"}, Ranks(\h440080C, \h400, 3) \union Ranks(\h4E0040C, \h400, 4),
               {0, 5, 8, 13, 16, 21, 24, 29}),
    PropertyWr({"PRESENT_SDPMUX"},
               Ranks(\h4400430, \h400, 4) \union Ranks(\h4400434, \h400, 4) \union
                Ranks(\h4E00430, \h400, 4) \union Ranks(\h4E00434, \h400, 4), {3, 11, 19, 27})>>

SdpMuxArbitration2 ==
  <<PropertyWr({"PRESENT_SDPMUX"},
               Ranks(\h4400438, \h400, 4) \union Ranks(\h440043C, \h400, 4) \union
                Ranks(\h4E00438, \h400, 4) \union Ranks(\h4E0043C, \h400, 4), {}),
    PropertyWr({"PRESENT_SDPMUX"}, Ranks(\h4400410, \h400, 4) \union Ranks(\h4E00410, \h400, 4),
               {1, 9, 17, 25})>>

SdpMuxArbitration3 ==
  <<PropertyWr({"PRESENT_SDPMUX"},
               Ranks(\h4400414, \h400, 4) \union Ranks(\h4400440, \h400, 4) \union
                Ranks(\h4400444, \h400, 4) \union Ranks(\h4E00414, \h400, 4) \union
                Ranks(\h4E00444, \h400, 4), {1, 9, 17, 25})>>

SIL_RESERVED_783 ==
  SdpMuxArbitration0 \o SdpMuxArbitration1 \o SdpMuxArbitration2 \o SdpMuxArbitration3

\* The IOMMU: initial values, L1, L2, clock gating, SMI filtering.

NBIO_IOMMU_INIT_TBL ==
  <<Rmw({\h13F0007C}, 0..2, {}),
    Rmw({\h13F00050}, {22}, {})>>

IommuL1Init0 ==
  <<Rmw({\h147000C8, \h14B000C8, \h153000C8}, {0, 2}, {0, 2}),
    Rmw({\h1470001C, \h14B0001C, \h1530001C}, {6, 12, 17}, {6, 12, 17}),
    Rmw({\h1470009C, \h14B0009C, \h1530009C}, {1, 2}, {1, 2})>>

IommuL1Init1 ==
  <<Rmw({\h14700038, \h14B00038, \h15300038}, 24..28, {24, 27, 28}),
    Rmw({\h147000D4, \h14B000D4, \h153000D4}, {0}, {0}),
    Rmw({\h1530010C}, {31}, {}),
    Rmw({\h15300118, \h15300120}, 24..31, {24}),
    Rmw({\h15300124}, 16..19, {16}),
    Rmw({\h15300128}, (16..19) \union (24..27), {16, 24})>>

NBIO_IOMMU_L1_INIT_TBL == IommuL1Init0 \o IommuL1Init1

NBIO_IOMMU_L2_INIT_TBL ==
  <<Rmw({\h13F01200, \h157000C0}, {0}, {0}),
    Rmw({\h13F01250, \h157000D0}, (0..6) \union (8..14), {0, 3, 6, 8, 11, 14}),
    Rmw({\h13F01130}, 12..18, {12, 15, 18}),
    Rmw({\h13F0111C}, 0..2, 0..2),
    Rmw({\h13F01158}, {1, 2}, {1}),
    Rmw({\h13F0114C, \h15700088}, {0}, {}),
    Rmw({\h13F01150}, (12..14) \union {6, 8, 25}, (12..14) \union {6, 8, 25}),
    Rmw({\h13F00084}, {19}, {})>>

IommuL2ClockGating ==
  <<PropertyRmw({"IOMMU_L2CLKGATING_ENABLED"}, {\h157000CC}, 0..2, {}),
    PropertyRmw({"IOMMU_L2CLKGATING_DISABLED"}, {\h157000CC}, 0..2, 0..2),
    PropertyRmw({"IOMMU_L2CLKGATING_ENABLED"}, {\h13F01240}, 0..3, {}),
    PropertyRmw({"IOMMU_L2CLKGATING_DISABLED"}, {\h13F01240}, 0..3, 0..3)>>

IommuL1ClockGating ==
  <<PropertyRmw({"IOMMU_L1CLKGATING_ENABLED"}, {\h153000CC}, Word(\h807F, \hFF70),
                Word(\h8010, \h7F70)),
    PropertyRmw({"IOMMU_L1CLKGATING_DISABLED"}, {\h153000CC}, Word(\h8000, \h7F70), {}),
    PropertyRmw({"IOMMU_L1CLKGATING_ENABLED"}, {\h147000CC, \h14B000CC, \h153000CC},
                Word(\h807F, \hFF70), Word(\h8010, \h7F70)),
    PropertyRmw({"IOMMU_L1CLKGATING_DISABLED"}, {\h147000CC, \h14B000CC, \h153000CC},
                Word(\h8000, \h7F70), {})>>

NBIO_IOMMU_CLOCK_GATING_TBL == IommuL2ClockGating \o IommuL1ClockGating

NBIO_IOMMU_SMI_FILTERING_TBL == <<PropertyRmw({"IOMMU_DISABLED"}, {\h13B10034}, {0}, {})>>

\* The nBIFs: devices, interrupts, function level reset, arbitration, clock gating.

NBIO_NBIF_DEVICE_CFG_TBL == <<Rmw({\h10235000, \h10236000}, 16..23, (16..18) \union {20})>>

NBIO_NBIF_DEVICE_TBL ==
  <<Rmw({\h10134000, \h10134200, \h10134A00, \h10234000, \h10234200}, {28}, {28}),
    Rmw({\h10134400, \h10134600, \h10134C00, \h10134E00, \h10234400, \h10234600, \h10234800,
         \h10534000, \h10534200, \h10534400}, {28}, {})>>

NBIO_NBIF_DEVICE_INTERRUPT_TBL ==
  <<Wr({\h1013A008}, {0, 1, 4, 5, 8, 9}),
    Wr({\h1023A008}, {0, 1})>>

NBIO_NBIF_FLR_TBL ==
  <<Rmw(Ranks(\h10134010, \h200, 6) \union Ranks(\h10234010, \h200, 4) \union {\h10235010,
         \h10236010, \h10534010, \h10534210, \h10534410}, {22}, {22})>>

NBIO_NBIF_DMA_ARBITRATION_TBL ==
  <<Wr({\h1013A124, \h1013A128, \h1023A124, \h1023A128, \h1053A124, \h1053A128}, {2, 10, 18, 26})>>

NBIO_NBIF_SYSHUB_WRT_PERF_ENH_TBL == <<Rmw({\h1410008}, {16, 17}, {16, 17})>>

NbifClockGating0 ==
  <<PropertyRmw({"NBIF_MGCG_CLKGATING_ENABLED"}, {\h1013A21C, \h1023A21C, \h1053A21C}, {0}, {0}),
    PropertyRmw({"NBIF_MGCG_CLKGATING_ENABLED"}, {\h400006C}, 0..3, 0..3),
    PropertyRmw({"NBIF_MGCG_CLKGATING_ENABLED"}, {\h1053A0E8}, {30}, {}),
    PropertyRmw({"NBIF_MGCG_CLKGATING_DISABLED"}, {\h1013A21C, \h1023A21C, \h1053A21C}, {0}, {}),
    Rmw({\h141E190}, 0..19, {})>>

NbifClockGating1 ==
  <<Rmw({\h151E140}, 0..19, {}),
    PropertyRmw({"SYSHUB_MGCG_CLKGATING_ENABLED"}, {\h1403BA8, \h1411020, \h1503BA8}, {0}, {0}),
    PropertyRmw({"SYSHUB_MGCG_CLKGATING_DISABLED"}, {\h1403BA8, \h1411020, \h1503BA8}, {0}, {})>>

NBIO_NBIF_CLOCK_GATING_TBL == NbifClockGating0 \o NbifClockGating1

NBIO_Non_VC1_WRITE_TBL ==
  <<Rmw({\h1403B40, \h1403B48, \h1503B40}, {9}, {}),
    Rmw({\h1403B44, \h1403B4C, \h1503B44}, {9}, {9})>>

\* TPH completer, deep sleep, completion timeouts, device ids.

NBIO_TPH_TBL ==
  <<PropertyRmw({"TPH_COMPLETER_ENABLED"},
                Ranks(\h1013421C, \h200, 3) \union Ranks(\h1023421C, \h200, 3) \union
                 Ranks(\h1053421C, \h200, 3) \union {\h1013501C, \h1023501C, \h1053501C}, 20..22,
                {20, 22}),
    PropertyRmw({"TPH_COMPLETER_ENABLED"},
                {\h10131018, \h10131218, \h10231018, \h10231218, \h10531018, \h10531218},
                {16, 17}, {16})>>

NBIO_LCLK_DS_IDLE_TBL ==
  <<Rmw({\h1013A220, \h1023A220, \h1053A220}, {0}, {0}),
    Rmw({\h400006C}, 0..3, 0..3),
    Rmw({\h1053A0E8}, {30}, {})>>

NBIO_ENABLE_SOCCLK_SHUBCLK_DS_TBL == <<Rmw({\h1410000, \h1411000, \h1510000}, {31}, {31})>>

NBIO_ENABLE_COMPLETION_TIMEOUT_TBL ==
  <<Rmw({\h1013100C, \h1013120C, \h1013140C, \h1023100C, \h1023120C, \h1023140C, \h1053100C,
         \h1053120C, \h1053140C}, {7}, {7})>>

NBIF_DEVICE_ID_DEV_TBL ==
  <<Rmw({\h10134000, \h10234000, \h10334000, \h10434000, \h10534000, \h10734000}, 0..15,
        (2..4) \union {6, 7, 10, 12})>>

\* The IOAPIC: clock gating and interrupt routing.

NBIO_IOAPIC_CLOCK_GATING_TBL ==
  <<PropertyRmw({"IOHC_CLKGATING_ENABLED"}, {\h14300100}, 22..31, {})>>

IoapicRouting0 ==
  <<Rmw({\h14300040}, Word(\h1F, \h37), {}),
    Rmw({\h14300044}, Word(\h1F, \h37), {0}),
    Rmw({\h14300048}, Word(\h1F, \h37), {1}),
    Rmw({\h1430004C}, Word(\h1F, \h37), {0, 1}),
    Rmw({\h14300050}, Word(\h1F, \h37), {2}),
    Rmw({\h14300054}, Word(\h1F, \h37), {2, 5}),
    Rmw({\h14300058}, Word(\h1F, \h37), {0, 1, 5}),
    Rmw({\h1430005C}, Word(\h1F, \h37), {1, 5}),
    Rmw({\h14300060}, Word(\h1F, \h37), {0, 5}),
    Rmw({\h14300064}, Word(\h1F, \h37), {5, 16}),
    Rmw({\h14300068}, Word(\h1F, \h37), {4, 16}),
    Rmw({\h1430006C}, Word(\h1F, \h37), {0, 4, 16})>>

IoapicRouting1 ==
  <<Rmw({\h14300070}, Word(\h1F, \h37), {1, 4, 16}),
    Rmw({\h14300074}, Word(\h1F, \h37), {0, 1, 4, 16}),
    Rmw({\h14300078}, Word(\h1F, \h37), {2, 4, 16}),
    Rmw({\h1430007C}, Word(\h1F, \h37), {2, 4, 5, 16}),
    Rmw({\h14300080}, Word(\h1F, \h37), {0, 1, 4, 5, 16}),
    Rmw({\h14300084}, Word(\h1F, \h37), {1, 4, 5, 16}),
    Rmw({\h14300088}, Word(\h1F, \h37), {0, 4, 5, 17}),
    Rmw({\h1430008C}, Word(\h1F, \h37), {4, 5, 17}),
    Rmw({\h14300090}, Word(\h1F, \h37), {17}),
    Rmw({\h14300094}, Word(\h1F, \h37), {0, 17}),
    Rmw({\h14300098}, Word(\h1F, \h37), {1, 16, 17}),
    Rmw({\h1430009C}, Word(\h1F, \h37), {0, 1, 16, 17})>>

NBIO_IOAPIC_INTR_ROUTING_TBL == IoapicRouting0 \o IoapicRouting1

\* The recommended values.

PprIoagr == <<Rmw({\h14300100, \h15B00000, \h15B00004}, 22..31, {})>>

PprIohcGlue == <<Rmw({\h13B10088, \h13B1008C, \h13B10090}, 22..31, {})>>

PprIohc ==
  <<Rmw({\h13B10028}, 0..15, {1, 2}),
    Rmw({\h13B10020}, 0..2, {0}),
    Wr({\h13B1825C}, {}),
    Rmw({\h13B20814}, {0, 3, 4}, {0, 3, 4}),
    Rmw({\h153000CC}, Word(\h807F, \hFF70), Word(\h8010, \h7F70)),
    Rmw({\h157000CC}, 0..2, {})>>

PprNbifGating ==
  <<Rmw({\h13F01240}, 0..3, {}),
    PropertyRmw({"PRESENT_NBIF0"}, {\h1013A21C}, (10..13) \union {0}, {0}),
    PropertyRmw({"PRESENT_NBIF1"}, {\h1013A21C}, (10..13) \union {0}, {0}),
    PropertyRmw({"PRESENT_NBIF2"}, {\h1053A21C}, (10..13) \union {0}, {0}),
    Rmw({\h4000200}, {16}, {16}),
    PropertyRmw({"PRESENT_SST"}, {\h17500404}, {4}, {4}),
    PropertyRmw({"PRESENT_SST"}, {\h17500004}, (8..16) \union {0}, (12..16) \union {0})>>

PprSyshubCredits0 ==
  <<PropertyRmw({"PRESENT_NBIF0"}, {\h141E8F0}, 0..9, {}),
    PropertyRmw({"PRESENT_NBIF1"}, {\h141E8F0}, 0..9, {})>>

PprSyshubCredits1 ==
  <<PropertyRmw({"PRESENT_NBIF0"}, {\h141E8F0}, 10..19, {}),
    PropertyRmw({"PRESENT_NBIF1"}, {\h141E8F0}, 10..19, {})>>

PprNbifCredits0 ==
  <<PropertyRmw({"PRESENT_NBIF0"}, {\h1013A8F0}, 0..9, {}),
    PropertyRmw({"PRESENT_NBIF1"}, {\h1013A8F0}, 0..9, {})>>

PprNbifCredits1 ==
  <<PropertyRmw({"PRESENT_NBIF0"}, {\h1013A8F0}, 10..19, {}),
    PropertyRmw({"PRESENT_NBIF1"}, {\h1013A8F0}, 10..19, {}),
    PropertyRmw({"PRESENT_NBIF0"}, {\h1403BA8}, {0}, {0}),
    PropertyRmw({"PRESENT_NBIF1"}, {\h1403BA8}, {0}, {0})>>

PprSyshubPorts0 == <<PropertyRmw({"PRESENT_NBIF0"}, {\h141E190, \h151E140}, 0..9, {})>>

PprSyshubPorts1 ==
  <<PropertyRmw({"PRESENT_NBIF0"}, {\h141E190, \h151E140}, 10..19, {}),
    Rmw({\h1410020}, {0}, {0}),
    Rmw({\h13B10004}, {21}, {21})>>

NBIO_PPR_INIT_VALUES_TBL ==
  PprIoagr \o PprIohcGlue \o PprIohc \o PprNbifGating \o PprSyshubCredits0 \o PprSyshubCredits1 \o PprNbifCredits0 \o PprNbifCredits1 \o PprSyshubPorts0 \o PprSyshubPorts1

-----------------------------------------------------------------------------
\* The tables as they are programmed (NbioSmnTables.c).

NbioPprInitValues == NBIO_PPR_INIT_VALUES_TBL

GnbEarlyInitTableCommon ==
  NBIO_IOHC_P2P_TBL \o NBIO_IOHC_CRS_TBL \o NBIO_IOHC_CLOCK_GATING_TBL
    \o NBIO_IOHC_ARBITRATION_TBL \o NBIO_IOAPIC_CLOCK_GATING_TBL
    \o NBIO_IOAPIC_INTR_ROUTING_TBL \o <<Rmw({\h13B10020}, {0, 1}, {0})>>

GnbnBifInitTable ==
  NBIO_NBIF_DEVICE_CFG_TBL \o NBIO_NBIF_DEVICE_TBL \o NBIO_NBIF_DEVICE_INTERRUPT_TBL
    \o NBIO_NBIF_DMA_ARBITRATION_TBL \o NBIO_NBIF_SYSHUB_WRT_PERF_ENH_TBL \o NBIO_TPH_TBL
    \o NBIO_NBIF_CLOCK_GATING_TBL \o NBIO_NBIF_FLR_TBL \o NBIO_LCLK_DS_IDLE_TBL
    \o NBIO_ENABLE_SOCCLK_SHUBCLK_DS_TBL \o NBIO_ENABLE_COMPLETION_TIMEOUT_TBL

GnbSdpMuxInitTableCommon == SIL_RESERVED_784 \o SIL_RESERVED_783

GnbOncePerSocketInitMP ==
  NBIO_Non_VC1_WRITE_TBL \o NBIF_DEVICE_ID_DEV_TBL \o NBIO_SST_CLOCK_GATING_TBL

GnbIommuEnvInitTable ==
  NBIO_IOMMU_INIT_TBL \o NBIO_IOMMU_L1_INIT_TBL \o NBIO_IOMMU_L2_INIT_TBL
    \o NBIO_IOMMU_CLOCK_GATING_TBL \o NBIO_IOMMU_SMI_FILTERING_TBL
    \o <<PropertyRmw({"XAPIC_MODE"}, {\h153000DC}, {5}, {5})>>

=============================================================================
