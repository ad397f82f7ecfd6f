------------------------------ MODULE FchHwAcpi ------------------------------
(***************************************************************************)
(* The hardware ACPI part of the FCH: what each of its routines writes, as *)
(* a function of the input block (the record c, fields named as in the     *)
(* code).  Fch composes them in the order of time point 1.                 *)
(*                                                                         *)
(* Spaces: "mmio" is the ACPI MMIO window, "alink" the A-link registers,   *)
(* "cmos" what the ports 70h and 71h reach, "irq" what C00h and C01h       *)
(* reach, "io" the other I/O ports, "pci" the SMBus function's config      *)
(* space, "i2c" the hold registers of the I2C controllers.                 *)
(***************************************************************************)
EXTENDS FchRegs

PM == PMIO_BASE \div 256
SMI == SMI_BASE \div 256
MISC == MISC_BASE \div 256
AOAC == AOAC_BASE \div 256

----------------------------------------------------------------------------
(* The register tables *)

FchInitHwAcpiResetPreliminaryMmioTable == <<
  Signature,
  <<PM, \h04, \hFD, \h02>>,
  <<AOAC, \h95, \h3F, 0>>,
  <<PM, \h0A, \hEF, \h10>>,
  <<PM, \hC8, \hEF, 0>>,
  <<PM, \hD2, \hBF, 0>>,
  <<PM, \hC0, 0, \h02>>,
  <<MISC, \h52, \hEF, \h10>>,
  <<MISC, \h52, \hEF, 0>>,
  EndRow>>

FchInitResetAcpiMmioTable == <<
  Signature,
  <<PM, \h00, \hF7, \h77>>,
  <<PM, \h08, \hFE, \h14>>,
  <<PM, \h10, \hFC, 0>>,
  <<PM, \h54, 0, \h50>>,
  <<PM, \h74, \hF6, \h01>>,
  EndRow>>

\* The system control interrupts the table below routes: pin -> general purpose event.
EnvSciMap == <<
  <<\h41, 1>>, <<\h43, 3>>, <<\h44, 4>>, <<\h45, 5>>, <<\h46, 6>>, <<\h57, 23>>,
  <<\h48, 24>> >>

EnvHsSciMap == <<
  <<\h70, 9>>, <<\h6C, 13>>, <<\h5D, 16>>, <<\h5E, 17>>, <<\h78, \h0B>>,
  <<\h79, \h0B>> >>

SciRows(map) == [i \in DOMAIN map |-> <<SMI, map[i][1], 0, map[i][2]>>]

FchInitEnvHwAcpiMmioTable ==
  << Signature,
     <<PM, \h74, 0, \h17>>,
     <<PM, \h76, 0, \h06>>,
     <<PM, \h77, \hDF, 0>>,
     <<PM, \hBA, \hF7, \h08>>,
     <<PM, \hBC, \hFD, \h02>> >>
  \o SciRows(EnvSciMap)
  \o << <<SMI, \h08, \hE7, 0>>, <<SMI, \h0E, \hF7, \h08>> >>
  \o SciRows(EnvHsSciMap)
  \o << EndRow >>

FchInitEnvRasMmioTable == << Signature, <<SMI, \hB5, \hFC, \h01>>, EndRow >>

\* The table of the 9004 family.
Fch9004InitResetAcpiMmioTable == <<
  Signature,
  <<MISC, \h6E, \hDF, \h20>>,
  <<MISC, \h6F, \hF7, \h08>>,
  <<PM, \hDC, 0, 0>>,
  <<PM, \h3E, \hFB, \h04>>,
  <<PM, \hC3, 0, \h20>>,
  EndRow>>

----------------------------------------------------------------------------
(* The preliminary block *)

ClearThermalTripSts(c) == When(~c.NoClearThermalTripSts, Put8(PMIO_BASE + \hC0, \h01))

FchInitHwAcpiPreliminaryPrePciCmn(c) ==
  ProgramFchAcpiMmioTbl(FchInitHwAcpiResetPreliminaryMmioTable) ++ ClearThermalTripSts(c)

----------------------------------------------------------------------------
(* The block proper, in the order of FchInitHwAcpiPrePciCmn *)

\* The I/O port blocks; bits 8 to 15 of the first register are the SMBus base.
FchInitHwAcpiEnableBase(c) ==
  Rmw("mmio", PMIO_BASE, 8 .. 15, (Ones(c.Smbus0Base, 16) \cap (8 .. 15)) \cup {4})
  ++ Put16(PMIO_BASE + \h60, c.AcpiPm1EvtBlkAddr)
  ++ Put16(PMIO_BASE + \h62, c.AcpiPm1CntBlkAddr)
  ++ Put16(PMIO_BASE + \h64, c.AcpiPmTmrBlkAddr)
  ++ Put16(PMIO_BASE + \h66, c.CpuControlBlkAddr)
  ++ Put16(PMIO_BASE + \h68, c.AcpiGpe0BlkAddr)
  ++ Put16(PMIO_BASE + \h6A, c.SmiCmdPortAddr)
  ++ Put16(PMIO_BASE + \h6E, c.SmiCmdPortAddr + 8)
  ++ Put16(PMIO_BASE + \h6C, \hFFFF)

FchInitEnableSmBus(c) ==
  Set(PMIO_BASE, {19, 20}, FALSE) ++ Rmw("io", (c.Smbus0Base \div 256) * 256 + \h14, 0 .. 7, {})

FchInitEnableWdt(c) == Set(PMIO_BASE, {7}, c.WdtEnable)

\* The host's own routing of system control interrupts.
ProgramFchSciMapTbl(map) ==
  LET Upto[i \in 0 .. Len(map)] ==
        IF i = 0 THEN << >>
        ELSE Upto[i - 1] ++ When(map[i][1] \in \h40 .. \h7F /\ map[i][2] < \h20,
                                 Put8(SMI_BASE + map[i][1], map[i][2]))
  IN Upto[Len(map)]

\* The workaround for an invalid number of seconds in the real time clock: it is set
\* to 30 when it exceeds 59 as a BCD number, or when its low digit exceeds 9.
RTC_SECOND_RESET_VALUE == \h30

RtcSecond(v) ==
  IF v > \h59 \/ v % 16 > 9 THEN RTC_SECOND_RESET_VALUE ELSE v

CmosWrites(c, regs) ==
  Rmw("cmos", \h0B, {0}, {})
  ++ Rmw("cmos", \h0A, {4}, {})
  ++ When(c.CfgFchRtcWorkAround /\ RtcSecond(c.rtcSecond) /= c.rtcSecond,
          Rmw("cmos", 0, 0 .. 7, Ones(RTC_SECOND_RESET_VALUE, 8)))
  ++ When(Read(regs, "cmos", \h0D, 6) = \h3F, Rmw("cmos", \h0D, 0 .. 6, {}))

\* FchInitHwAcpiWaFeature.  The PM1 status is cleared through the port set up above;
\* eventPending stands for an enabled event or PM1 bits 0 or 2 being active.
FchInitHwAcpiWaFeature(c, regs) ==
  Put8(PMIO_BASE + \h5E, 0) ++ Rmw8(PMIO_BASE + \h5F, \hFE, 0)
  ++ CmosWrites(c, regs)
  ++ Rmw("io", (c.Smbus0Base \div 256) * 256 + \h2A, 0 .. 7, Ones(\h2F, 8))
  ++ When(c.eventPending, Rmw("io", c.AcpiPm1EvtBlkAddr + 1, 0 .. 7, {6}))
  ++ When(~c.EcKbd, Rmw("irq", \h08, {}, {1, 3}))
  ++ Rmw("irq", \h09, (IF c.EcKbd THEN {} ELSE {1, 2}) \cup {5, 6}, {4})
  ++ When(c.FchOscout1ClkContinous, Rmw8(PMIO_BASE + \h54, \hBF, 0))
  ++ When(c.SerialIrqEnable, Rmw8(PMIO_BASE + \h54, \h7F, \h80))
  ++ Rmw8(ASF_BASE + \h15, \hEF, IF c.AsfDisableSecondary THEN \h10 ELSE 0)
  ++ When(c.CfgIoApicIdPreDefEnable, Rmw("ioapic", 0, 0 .. 31, {24 + b : b \in Ones(c.FchIoApicId, 8)}))

ProgramPcieNativeMode(c) ==
  Rmw8(PMIO_BASE + \hBB, \hBF, 0)
  ++ Rmw8(PMIO_BASE + \h77, \hF4, IF c.NativePcieSupport THEN \h09 ELSE \h08)

\* FchInitHwAcpiPciTable holds no register row.
ProgramFchEnvHwAcpiPciReg(c) ==
  When(c.SmbusSsid /= 0, Rmw("pci", \h2C, 0 .. 31, Ones(c.SmbusSsid, 31)))
  ++ Rmw8(PMIO_BASE + \hED, \hFD, IF c.NoneSioKbcSupport THEN \h02 ELSE 0)
  ++ ProgramPcieNativeMode(c)

AcLossControl(c) == Rmw8(PMIO_BASE + \h5B, \hF0, (c.PwrFailShadow % 4) + 4)

\* The timer is only ever switched on here; the table above has switched it on already.
HpetInit(c) ==
  When(c.HpetEnable,
       Rmw8(PMIO_BASE, \hFF, \h40) ++ Set(PMIO_BASE, {29}, ~c.HpetMsiDis))

FchAlinkRasEnable(c) ==
  Alink(\h10050, {3}, c.FchAlinkRasSupport)
  ++ When(c.FchAlinkRasSupport, ProgramFchAcpiMmioTbl(FchInitEnvRasMmioTable))

\* As a bug would have it: the workarounds before the table.
BeforeI2cUartWaFirst(c, regs) ==
  FchInitHwAcpiEnableBase(c)
  ++ FchInitEnableSmBus(c)
  ++ FchInitHwAcpiWaFeature(c, regs)
  ++ ProgramFchAcpiMmioTbl(FchInitResetAcpiMmioTable)
  ++ FchInitEnableWdt(c)
  ++ ProgramFchSciMapTbl(c.CfgFchSciMapControl)
  ++ ProgramFchAcpiMmioTbl(FchInitEnvHwAcpiMmioTable)
  ++ ProgramFchEnvHwAcpiPciReg(c)
  ++ AcLossControl(c)
  ++ ProgramFchAcpiMmioTbl(c.OemProgrammingTable)
  ++ HpetInit(c)

\* The part before the I2C and UART devices are powered, which waits for hardware.
BeforeI2cUart(c, regs) ==
  FchInitHwAcpiEnableBase(c)
  ++ FchInitEnableSmBus(c)
  ++ ProgramFchAcpiMmioTbl(FchInitResetAcpiMmioTable)
  ++ FchInitEnableWdt(c)
  ++ ProgramFchSciMapTbl(c.CfgFchSciMapControl)
  ++ FchInitHwAcpiWaFeature(c, regs)
  ++ ProgramFchAcpiMmioTbl(FchInitEnvHwAcpiMmioTable)
  ++ ProgramFchEnvHwAcpiPciReg(c)
  ++ AcLossControl(c)
  ++ ProgramFchAcpiMmioTbl(c.OemProgrammingTable)
  ++ HpetInit(c)
=============================================================================
