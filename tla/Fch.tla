---------------------------------- MODULE Fch ----------------------------------
(***************************************************************************)
(* The Fusion Controller Hub: the blocks of time point 1 in the order of   *)
(* the IP block list, then calls of the entry points that no time point    *)
(* makes.  The code waits for three kinds of hardware here: devices that   *)
(* power up or down, the serial GPIO engines of the SATA controllers, and  *)
(* the eSPI controller (see FchEspi); and it waits for time to pass.       *)
(***************************************************************************)
EXTENDS FchEspi

CONSTANTS
    Inputs,             \* [c |-> the input blocks and the calls, caps |-> see FchEspi]
    FCH_AOAC_RETRY,     \* polls for a device (100 in the code)
    TimerStarts,        \* values of the timer's low byte when a delay begins
    PollTicks           \* ticks between two readings of it

ASSUME FchAssumption ==
    /\ FCH_AOAC_RETRY \in Nat
    /\ TimerStarts \subseteq 0 .. TimerByte - 1 /\ PollTicks \subseteq 1 .. TimerByte - 1
    /\ \A input \in Inputs : input.caps \in EspiCapabilities

VARIABLES
    c,          \* the input blocks
    stage,      \* where the code is
    regs,       \* the registers of the first FCH
    second,     \* those of the second socket's FCH
    base, route,\* the FCH that FchAcpiMmioBase points to, and that gets I/O port Cxxh
    smu,        \* the messages sent to the SMU
    work, count,\* devices or controllers still to do, and polls or messages so far
    up          \* the devices that are powered

fchVars == <<c, stage, regs, second, base, route, smu, work, count, up>>
vars == <<fchVars, espiVars>>

multiVars == <<second, base, route>>

Init ==
    /\ \E input \in Inputs : c = input.c /\ caps = input.caps
    /\ stage = "HwAcpiP"
    /\ regs = << >> ++ When(c.sscAlready, Set(MISC_BASE + \h08, {0}, TRUE))
    /\ second = << >> /\ base = "first" /\ route = "first"
    /\ smu = << >> /\ work = << >> /\ count = 0 /\ up = c.alreadyUp
    /\ EspiInit

----------------------------------------------------------------------------
(* Delays *)

\* SilFchStall takes its timer's port from PMIO 64h; without one it counts accesses.
TimerAddr == Read(regs, "mmio", PMIO_BASE + \h64, 16)

NoTimer == TimerAddr \in {0, \hFFFF}

\* A delay of "us" microseconds that ends.
Stalls(us) ==
    NoTimer \/ \E start \in TimerStarts, interval \in PollTicks : StallReturns(us, start, interval)

\* One that does not.
NeverReturns(us) ==
    /\ ~NoTimer
    /\ \E start \in TimerStarts, interval \in PollTicks : ~StallReturns(us, start, interval)

----------------------------------------------------------------------------
(* Time point 1 *)

\* A block that waits for nothing.
Block(here, there, writes) ==
    /\ stage = here /\ stage' = there
    /\ regs' = regs ++ writes
    /\ UNCHANGED <<c, multiVars, smu, up, espiVars>>

InitializeFchHwAcpiPreliminaryTp1 ==
    Block("HwAcpiP", "Ab", FchInitHwAcpiPreliminaryPrePciCmn(c)) /\ UNCHANGED <<work, count>>

FchAbTp1 == Block("Ab", "HwAcpi", InitializeFchAbTp1(c)) /\ UNCHANGED <<work, count>>

FchInitHwAcpiPrePciCmn ==
    /\ Block("HwAcpi", "devices", BeforeI2cUart(c, regs))
    /\ work' = EnabledDevices(c) /\ count' = 0

\* As a bug would have it: no limit to the polls.
PowerOnForEver(here, setup) ==
    /\ stage = here /\ work # << >>
    /\ LET d == Head(work).aoac
       IN \/ d \notin up /\ regs' = regs ++ PowerOnRequest(d) /\ Stalls(10) /\ count' = 1 /\ UNCHANGED work
          \/ /\ d \in up /\ regs' = regs ++ setup
             /\ work' = Tail(work) /\ count' = 0
    /\ UNCHANGED <<c, stage, multiVars, smu, up, espiVars>>

\* FchAoacPowerOnDev for the first device at work; setup is what follows.
PowerOn(here, setup) ==
    /\ stage = here /\ work # << >>
    /\ LET d == Head(work).aoac
       IN \/ /\ d \notin up /\ count < FCH_AOAC_RETRY
             /\ regs' = regs ++ PowerOnRequest(d)
             /\ Stalls(10) /\ count' = count + 1 /\ UNCHANGED work
          \/ /\ d \in up \/ count = FCH_AOAC_RETRY
             /\ regs' = regs ++ When(d \notin up, PowerOnForced(d)) ++ setup
             /\ work' = Tail(work) /\ count' = 0
    /\ UNCHANGED <<c, stage, multiVars, smu, up, espiVars>>

FchI2cUartInit ==
    /\ work # << >>
    /\ PowerOn("devices", DeviceSetup(c, Head(work)))

\* A device that was asked to power up does, and one asked to power down does.
DevicePowers ==
    /\ work # << >> /\ stage \in {"devices", "uart", "espi on", "espi off"} /\ count > 0
    /\ LET d == Head(work).aoac
       IN IF stage = "espi off" THEN d \in up /\ up' = up \ {d}
          ELSE d \notin up /\ up' = up \cup {d}
    /\ UNCHANGED <<c, stage, regs, multiVars, smu, work, count, espiVars>>

AfterI2cUart ==
    /\ stage = "devices" /\ work = << >>
    /\ Block("devices", "spread", FchInitPspIntr0 ++ FchAlinkRasEnable(c) ++ BeforeSpreadSpectrum(c))
    /\ UNCHANGED <<work, count>>

\* ProgramFchEnvSpreadSpectrumV80, with the delay that ends it, and the rest.
SpreadSpectrum ==
    /\ stage = "spread" /\ stage' = "Usb"
    /\ \/ /\ SpreadSpectrumChanges(c, regs) /\ Stalls(15)
          /\ regs' = regs ++ SpreadSpectrumWrites(c) ++ AfterSpreadSpectrum
       \/ /\ ~SpreadSpectrumChanges(c, regs)
          /\ regs' = regs ++ AfterSpreadSpectrum
    /\ UNCHANGED <<c, multiVars, smu, work, count, up, espiVars>>

InitializeFchUsbTp1 ==
    /\ stage = "Usb" /\ stage' = "Spi"
    /\ smu' = smu \o FchSNInitResetXhci(c, regs)
    /\ regs' = regs ++ FchSNInitEnvUsbXhci
    /\ UNCHANGED <<c, multiVars, work, count, up, espiVars>>

InitializeFchSpiTp1 == Block("Spi", "Sata", FchInitResetSpi(c)) /\ UNCHANGED <<work, count>>

InitializeFchSataTp1 ==
    /\ Block("Sata", "controllers", HideUnusedBridges(c))
    /\ LET Enabled(n) == c.sata[n].SataEnable IN work' = SelectSeq(<<0, 1, 2, 3>>, Enabled)
    /\ count' = 0

\* A controller's settings, and the first message of its serial GPIO.
FchInitEnvProgramSata ==
    /\ stage = "controllers" /\ work # << >> /\ count = 0
    /\ LET n == Head(work)
       IN IF c.sata[n].SataSgpio0
          THEN /\ regs' = regs ++ SataBegins(c, n) ++ GpioSend(n, GpioMessages[1])
               /\ count' = 1 /\ UNCHANGED work
          ELSE /\ regs' = regs ++ SataBegins(c, n) ++ SataEnds(c, n)
               /\ work' = Tail(work) /\ UNCHANGED count
    /\ UNCHANGED <<c, stage, multiVars, smu, up, espiVars>>

\* The engine has sent a message.
GpioEngine ==
    /\ stage = "controllers" /\ count > 0 /\ GpioPending(regs, Head(work))
    /\ regs' = regs ++ GpioSent(Head(work))
    /\ UNCHANGED <<c, stage, multiVars, smu, work, count, up, espiVars>>

\* FchSataGpioInitial after a message was sent: the delay, then the next message.
FchSataGpioInitial ==
    /\ stage = "controllers" /\ count > 0 /\ ~GpioPending(regs, Head(work))
    /\ LET n == Head(work)
       IN IF count < Len(GpioMessages)
          THEN /\ regs' = regs ++ GpioSend(n, GpioMessages[count + 1])
               /\ count' = count + 1 /\ UNCHANGED work
          ELSE regs' = regs ++ SataEnds(c, n) /\ count' = 0 /\ work' = Tail(work)
    /\ Stalls(GPIO_STALL)
    /\ UNCHANGED <<c, stage, multiVars, smu, up, espiVars>>

\* The delay after a message may last for ever.
StallHangs ==
    /\ stage = "controllers" /\ count > 0 /\ ~GpioPending(regs, Head(work))
    /\ NeverReturns(GPIO_STALL)
    /\ stage' = "hung"
    /\ UNCHANGED <<c, regs, multiVars, smu, work, count, up, espiVars>>

EndOfTp1 ==
    /\ stage = "controllers" /\ work = << >>
    /\ Block("controllers", "End", HideUnusedBridges(c))
    /\ UNCHANGED <<work, count>>

----------------------------------------------------------------------------
(* The second FCH: MultiFchInit on two processors *)

\* Which FCH gets a write: one through FchAcpiMmioBase, one through the I/O ports, and
\* one over SMN.
Reached(fch) ==
  {"mmio" : x \in {base} \cap {fch}} \cup {"alink" : x \in {route} \cap {fch}}
  \cup {"rsmu" : x \in {"second"} \cap {fch}}

\* The part of some writes that one FCH gets.
PartOf(writes, fch) ==
  [x \in {y \in DOMAIN writes : y[1] \in Reached(fch)} |-> writes[x]]

MultiStep(here, there) ==
    /\ stage = here /\ stage' = there
    /\ UNCHANGED <<c, smu, work, count, up, espiVars>>

FchSecondaryFchMmioRelocate ==
    /\ c.call = "MultiFch"
    /\ MultiStep("End", "relocated")
    /\ base' = (IF c.reserved THEN "second" ELSE base)
    /\ UNCHANGED <<regs, second, route>>

\* As a bug would have it: the ports stay with the first FCH.
EnableIoCxxNowhere ==
    /\ MultiStep("relocated", "routed")
    /\ UNCHANGED <<regs, multiVars>>

EnableIoCxxOnDieN ==
    /\ MultiStep("relocated", "routed")
    /\ route' = "second" /\ UNCHANGED <<regs, second, base>>

\* FchSecondaryFchInitAB, whose first and last write go to the first FCH.
FchSecondaryFchIORegInit ==
    /\ MultiStep("routed", "bridged")
    /\ IF c.abBlock
       THEN LET writes == FchSecondaryFchInitAB(c)
            IN /\ regs' = Overlay(Overlay(regs, PartOf(writes, "first")),
                                  Put16(PMIO_BASE + \hE0, 0))
               /\ second' = second ++ PartOf(writes, "second")
       ELSE UNCHANGED <<regs, second>>
    /\ UNCHANGED <<base, route>>

DisableIoCxxOnDieN ==
    /\ MultiStep("bridged", "restored")
    /\ route' = "first" /\ UNCHANGED <<regs, second, base>>

\* FchSecondaryFchDisableSD, and FchInitResetSataProgram on the second socket.
EndOfMultiFch ==
    /\ MultiStep("restored", "called")
    /\ LET writes == Overlay(Overlay(Rmw8(PMIO_BASE + \hD3, \hBF, 0), Rmw8(PMIO_BASE + \hE8, \hFE, 0)),
                             Rmw8(AOAC_BASE + \h72, \hF7, 0))
       IN /\ regs' = Overlay(regs, PartOf(writes, "first"))
          /\ second' = second ++ PartOf(writes, "second") ++ When(c.sataBlock, HideUnusedBridges(c))
    /\ UNCHANGED <<base, route>>

MultiFchInit ==
    \/ FchSecondaryFchMmioRelocate \/ EnableIoCxxOnDieN \/ FchSecondaryFchIORegInit
    \/ DisableIoCxxOnDieN \/ EndOfMultiFch

----------------------------------------------------------------------------
(* eSPI: FchEspiPrePcieInit *)

EspiDevice == <<[aoac |-> FCH_AOAC_ESPI]>>

InitializeFchEspi ==
    /\ c.call = "Espi"
    /\ Block("End", IF c.EspiEnable THEN "espi on" ELSE "espi off", << >>)
    /\ work' = EspiDevice /\ count' = 0

EspiPowerOn == PowerOn("espi on", FchinitHSEspiIoMux)

\* FchAoacPowerOnDev with On = 0.
EspiPowerOff ==
    /\ stage = "espi off" /\ work # << >>
    /\ \/ /\ FCH_AOAC_ESPI \in up /\ count < FCH_AOAC_RETRY
          /\ regs' = regs ++ PowerOffRequest(FCH_AOAC_ESPI)
          /\ Stalls(10) /\ count' = count + 1 /\ UNCHANGED <<stage, work>>
       \/ /\ FCH_AOAC_ESPI \notin up \/ count = FCH_AOAC_RETRY
          /\ regs' = regs ++ PowerOffEnd(FCH_AOAC_ESPI, FCH_AOAC_ESPI \notin up)
          /\ work' = << >> /\ count' = 0 /\ stage' = "called"
    /\ UNCHANGED <<c, multiVars, smu, up, espiVars>>

\* The registers, and the device if there is one to be set up.
EspiEc0 ==
    /\ stage = "espi on" /\ work = << >> /\ stage' = "espi"
    /\ regs' = regs ++ When(c.EspiEc0Enable, FchinitHSEspiEc0)
    /\ epc' = IF c.EspiEc0Enable THEN "reset" ELSE "done"
    /\ UNCHANGED <<c, multiVars, smu, work, count, up,
                   caps, txhdr0, txhdr1, config, device, op, DxHdr0, retry, todo, late>>

EspiHost == stage = "espi" /\ FchinitHSEspiSecondary0Device /\ UNCHANGED fchVars

EspiController == stage = "espi" /\ RunCommand /\ UNCHANGED fchVars

EspiChannel(ch) == stage = "espi" /\ ChannelReady(ch) /\ UNCHANGED fchVars

EndOfEspi ==
    /\ epc = "done"
    /\ Block("espi", "called", FchinitHSEspiEnableIo80(c) ++ FchinitHSEspiEnableKbc6064(c))
    /\ UNCHANGED <<work, count>>

----------------------------------------------------------------------------
(* The other entry points *)

\* Three of the stress reset modes end in a loop, waiting for the reset.
CallLate ==
    /\ c.call = "Late"
    /\ Block("End", IF StressResets(c.StressResetMode) THEN "resetting" ELSE "called",
             FchInitLateHwAcpi(c))
    /\ UNCHANGED <<work, count>>

CallUsbDisablePort ==
    /\ c.call = "DisablePort"
    /\ stage = "End" /\ stage' = "called"
    /\ LET done == FchUsbDisablePort(c.usb2Disable, c.usb3Disable)
       IN smu' = smu \o done.smu /\ regs' = regs ++ done.regs
    /\ UNCHANGED <<c, multiVars, work, count, up, espiVars>>

CallUart ==
    /\ c.call = "Uart"
    /\ Block("End", "uart", << >>)
    /\ LET Known(d) == d.name \in {"Uart0", "Uart1", "Uart2"}
       IN work' = SelectSeq(EnabledDevices(c), Known)
    /\ count' = 0

UartPower ==
    /\ work # << >>
    /\ PowerOn("uart", FchUartInitV80(c, Head(work)))

UartDone ==
    /\ stage = "uart" /\ work = << >> /\ stage' = "called"
    /\ UNCHANGED <<c, regs, multiVars, smu, work, count, up, espiVars>>

----------------------------------------------------------------------------

Code ==
    \/ InitializeFchHwAcpiPreliminaryTp1 \/ FchAbTp1 \/ FchInitHwAcpiPrePciCmn
    \/ FchI2cUartInit \/ AfterI2cUart \/ SpreadSpectrum
    \/ InitializeFchUsbTp1 \/ InitializeFchSpiTp1
    \/ InitializeFchSataTp1 \/ FchInitEnvProgramSata \/ FchSataGpioInitial \/ StallHangs
    \/ EndOfTp1
    \/ MultiFchInit
    \/ InitializeFchEspi \/ EspiPowerOn \/ EspiPowerOff \/ EspiEc0 \/ EspiHost \/ EndOfEspi
    \/ CallLate \/ CallUsbDisablePort \/ CallUart \/ UartPower \/ UartDone

Next ==
    \/ Code
    \/ DevicePowers \/ GpioEngine \/ EspiController
    \/ \E ch \in Channels : EspiChannel(ch)

\* The code goes on, a message that was asked for is sent, a started eSPI command is
\* run, an enabled channel gets ready.  No device is promised to power up.
Spec ==
    /\ Init /\ [][Next]_vars
    /\ WF_vars(Code) /\ WF_vars(GpioEngine) /\ WF_vars(EspiController)
    /\ \A ch \in Channels : WF_vars(EspiChannel(ch))

----------------------------------------------------------------------------
(* The input blocks as the SetInputBlk functions fill them, all in one     *)
(* record: the fields some routine reads, named as in the code.            *)

\* mFchSataDefaults, the same for the four controllers.
DefaultSata ==
  [SataEnable |-> TRUE, SataClass |-> "SataAhci", SataEspPort |-> 0, SataSgpio0 |-> FALSE,
   SataDevSlpPort0 |-> FALSE, SataDevSlpPort1 |-> FALSE, SataDevSlpPort0Num |-> 0,
   SataDevSlpPort1Num |-> 0, SataAhciSsid |-> 0, SataRaidSsid |-> 0]

\* mFchUsbDefaults.
DefaultUsb20Phy ==
  [COMPDSTUNE |-> 3, SQRXTUNE |-> 3, TXFSLSTUNE |-> 3, TXPREEMPAMPTUNE |-> 3,
   TXPREEMPPULSETUNE |-> 0, TXRISETUNE |-> 1, TXVREFTUNE |-> 6, TXHSXVTUNE |-> 3, TXRESTUNE |-> 1]

DefaultUsb31Phy ==
  [RX_ANA_IQ_PHASE_ADJUST |-> 0, RX_EQ_DELTA_IQ_OVRD_EN |-> 0, RX_EQ_DELTA_IQ_OVRD_VAL |-> 0,
   RX_IQ_PHASE_ADJUST |-> 0, RX_VREF_CTRL_EN |-> 0, RX_VREF_CTRL |-> 0, TX_VBOOST_LVL_EN |-> 0,
   TX_VBOOST_LVL |-> 0]

DefaultUsb ==
  [Xhci0Enable |-> FALSE, Xhci1Enable |-> FALSE, XhciECCDedErrRptEn |-> FALSE,
   Xhci0DevRemovable |-> {},
   OCpin |-> [n \in UsbControllers |-> [Usb20OcPin |-> \hFF, Usb31OcPin |-> \hFF]],
   XhciOcPolarityCfgLow |-> FALSE, Usb3PortForceGen1 |-> {}, tableVersion |-> <<\h0D, \h02>>,
   Usb20PhyEnable |-> FALSE, Usb31PhyEnable |-> FALSE,
   Usb20PhyPort |-> [p \in 0 .. 3 |-> DefaultUsb20Phy],
   Usb31PhyPort |-> [p \in 0 .. 3 |-> DefaultUsb31Phy], UsbSparseModeEnable |-> TRUE]

\* mFchHwAcpiDefaults, mFchAbDefaults and mFchSpiDefaults.
DefaultHwAcpi ==
  [SpreadSpectrum |-> TRUE, PwrFailShadow |-> 0, StressResetMode |-> 0,
   OemProgrammingTable |-> << >>, NoClearThermalTripSts |-> FALSE, FchAlinkRasSupport |-> FALSE,
   SdaHold |-> [d \in {"I2c0", "I2c1", "I2c2", "I2c3", "I2c4", "I2c5"} |-> 1],
   BootTimerEnable |-> TRUE, BootTimerResetType |-> FALSE]

DefaultAb ==
  [ALinkClkGateOff |-> TRUE, BLinkClkGateOff |-> TRUE, AbClockGating |-> TRUE,
   SlowSpeedAbLinkClock |-> FALSE, ResetCpuOnSyncFlood |-> FALSE, AbDmaMemoryWrtie3264B |-> TRUE,
   AbMemoryPowerSaving |-> TRUE, SbgMemoryPowerSaving |-> TRUE, SbgClockGating |-> TRUE,
   XdmaDmaWrite16ByteMode |-> FALSE, XdmaMemoryPowerSaving |-> FALSE,
   XdmaPendingNprThreshold |-> 0, XdmaDncplOrderDis |-> FALSE, SdphostBypassDataPack |-> FALSE,
   SdphostDisNpmwrProtect |-> FALSE]

DefaultSpi == [SpiSpeed |-> 2, WriteSpeed |-> 0, SpiTpmSpeed |-> 0, SpiBurstWrite |-> FALSE]

\* InitEnvCfgDefault, by way of FchClassSetInputBlk.
DefaultIrq ==
  [Uart0 |-> 3, Uart1 |-> 4, Uart2 |-> 3, Uart3 |-> 4, I2c0 |-> 10, I2c1 |-> 11, I2c2 |-> 4,
   I2c3 |-> 6, I2c4 |-> 14, I2c5 |-> 15]

InitEnvCfgDefault ==
  [FchDeviceEnableMap |-> {}, DeviceIrq |-> DefaultIrq, SmbusSsid |-> 0, HpetEnable |-> TRUE,
   HpetMsiDis |-> TRUE, AcDcMsg |-> FALSE, TimerTickTrack |-> FALSE, ClockInterruptTag |-> FALSE,
   OhciTrafficHanding |-> FALSE, EhciTrafficHanding |-> FALSE, GcpuMsgCMultiCore |-> FALSE,
   GcpuMsgCStage |-> FALSE, NativePcieSupport |-> FALSE, NoneSioKbcSupport |-> FALSE,
   CppcSupport |-> FALSE, SciBit |-> 2^24, EcKbd |-> FALSE, FchOscout1ClkContinous |-> FALSE,
   EspiEnable |-> FALSE, EspiIo80Enable |-> FALSE, EspiKbc6064Enable |-> FALSE,
   EspiEc0Enable |-> FALSE, WdtEnable |-> TRUE, Smbus0Base |-> \hB00, AcpiPm1EvtBlkAddr |-> \h400,
   AcpiPm1CntBlkAddr |-> \h404, AcpiPmTmrBlkAddr |-> \h408, CpuControlBlkAddr |-> \h410,
   AcpiGpe0BlkAddr |-> \h420, SmiCmdPortAddr |-> 0, CfgFchSciMapControl |-> << >>,
   CfgFchRtcWorkAround |-> FALSE, SerialIrqEnable |-> TRUE, AsfDisableSecondary |-> FALSE,
   CfgIoApicIdPreDefEnable |-> FALSE, FchIoApicId |-> 0]

\* What the code meets: the clock, the real time clock, pending events, powered devices,
\* the sleep type; and what it is called for next, with the arguments.
Environment ==
  [externalClock |-> FALSE, sscAlready |-> FALSE, rtcSecond |-> \h5A, eventPending |-> FALSE,
   alreadyUp |-> {}, sleepType |-> 0, call |-> "none", usb2Disable |-> {}, usb3Disable |-> {},
   reserved |-> TRUE, abBlock |-> TRUE, sataBlock |-> TRUE]

DefaultC ==
  InitEnvCfgDefault @@ DefaultHwAcpi @@ DefaultAb @@ DefaultSpi @@ Environment
  @@ [sata |-> [n \in Controllers |-> DefaultSata], usb |-> DefaultUsb]

----------------------------------------------------------------------------
(* Properties *)

\* Which function wants which value in which IOMUX pad.
Wants(numbers, value) == {<<p, value>> : p \in numbers}

PadsWanted ==
  UNION {Wants(Devices[i].pads, Devices[i].select) :
           i \in {j \in DOMAIN Devices : Devices[j].bit \in c.FchDeviceEnableMap}}
  \cup Wants({\h59}, 1)
  \cup (IF c.sata[0].SataEnable /\ c.sata[0].SataSgpio0
        THEN Wants({\h09, \h17, \h28}, 1) \cup Wants({\h0A}, 2) ELSE {})
  \cup (IF c.sata[3].SataEnable /\ c.sata[3].SataSgpio0 THEN Wants(\h1D .. \h20, 1) ELSE {})
  \cup (IF c.sata[0].SataEnable /\ c.sata[0].SataDevSlpPort0 THEN Wants({\h05}, 1) ELSE {})
  \cup (IF c.sata[0].SataEnable /\ c.sata[0].SataDevSlpPort1 THEN Wants({\h06}, 1) ELSE {})
  \cup (IF c.call = "Espi" /\ c.EspiEnable /\ stage = "called"
        THEN Wants({\h75, \h78, \h79, \h7A, \h85}, 0) \cup Wants({\h77}, 1) ELSE {})

\* After time point 1, and after a call, every pad that an enabled function needs is
\* switched to a function that asked for it: no block takes a pad from another one,
\* but for the pads that UART 0 shares with UART 2 and UART 1 with UART 3.
PadsKept ==
    stage \in {"End", "called"} =>
      \A w \in PadsWanted :
         <<w[1], Read(regs, "mmio", IOMUX_BASE + w[1], 8)>> \in PadsWanted

\* Bits and words the host's options decide: <<space, register, bit, value>> and
\* <<register, value>>.
OptionBits ==
  { <<"mmio", PMIO_BASE, 7, c.WdtEnable>>, <<"mmio", ASF_BASE + \h15, 4, c.AsfDisableSecondary>>,
    <<"mmio", PMIO_BASE + \h54, 6, ~c.FchOscout1ClkContinous>>,
    <<"mmio", PMIO_BASE + \h54, 7, c.SerialIrqEnable>>,
    <<"mmio", PMIO_BASE + \hED, 1, c.NoneSioKbcSupport>>,
    <<"mmio", PMIO_BASE + \h77, 0, c.NativePcieSupport>>,
    <<"mmio", PMIO_BASE + \h47, 3, c.BootTimerEnable>>,
    <<"mmio", MISC_BASE + \h08, 0, SpreadSpectrumAsked(c)>>,
    <<"mmio", MISC_BASE + \h40, 1, c.SlowSpeedAbLinkClock>>,
    <<"mmio", MISC_BASE + \h2E, 0, c.ALinkClkGateOff>>,
    <<"mmio", MISC_BASE + \h2E, 1, c.BLinkClkGateOff>>,
    <<"mmio", MISC_BASE + \h68, 1, ~c.SbgMemoryPowerSaving>>,
    <<"mmio", MISC_BASE + \h68, 2, ~c.AbMemoryPowerSaving>>,
    <<"alink", \h10050, 2, c.ResetCpuOnSyncFlood>>, <<"alink", \h10050, 3, c.FchAlinkRasSupport>>,
    <<"alink", \h10054, 24, c.AbClockGating>>, <<"alink", \h54, 4, c.AbClockGating>>,
    <<"alink", \h54, 0, ~c.AbDmaMemoryWrtie3264B>>, <<"alink", \h54, 2, c.AbDmaMemoryWrtie3264B>>,
    <<"alink", \h180, 0, c.XdmaDmaWrite16ByteMode>>, <<"spi", \h1C, 10, c.SpiBurstWrite>> }
  \cup (IF c.HpetEnable THEN {<<"mmio", PMIO_BASE, 6, TRUE>>, <<"mmio", PMIO_BASE, 29, ~c.HpetMsiDis>>}
        ELSE {})
  \cup (IF c.BootTimerEnable THEN {<<"mmio", PMIO_BASE + \h93, 7, c.BootTimerResetType>>} ELSE {})

OptionWords ==
  { <<PMIO_BASE + \h60, c.AcpiPm1EvtBlkAddr>>, <<PMIO_BASE + \h62, c.AcpiPm1CntBlkAddr>>,
    <<PMIO_BASE + \h64, c.AcpiPmTmrBlkAddr>>, <<PMIO_BASE + \h66, c.CpuControlBlkAddr>>,
    <<PMIO_BASE + \h68, c.AcpiGpe0BlkAddr>>, <<PMIO_BASE + \h6A, c.SmiCmdPortAddr>>,
    <<PMIO_BASE + \hE0, ALINK_ACCESS_INDEX>> }

\* The pins FchInitEnvHwAcpiMmioTable routes after the host's map.
TablePins == {m[1] : m \in {EnvSciMap[i] : i \in DOMAIN EnvSciMap}
                           \cup {EnvHsSciMap[i] : i \in DOMAIN EnvHsSciMap}}

\* At the end of time point 1 every option of the host's input blocks is in force: what
\* one block writes is not undone by the tables, the read-modify-writes or the workarounds
\* of those after it.  (The timer HPET stays on whatever the host says, and the pins of
\* the built-in table keep its routing.)
OptionsInForce ==
    stage = "End" =>
      /\ \A o \in OptionBits : IsSet(regs, o[1], o[2], o[3]) = o[4]
      /\ \A o \in OptionWords : Read(regs, "mmio", o[1], 16) = o[2]
      /\ Read(regs, "mmio", PMIO_BASE + \h5B, 4) = 4 + c.PwrFailShadow
      /\ Read(regs, "mmio", PMIO_BASE + 1, 8) = c.Smbus0Base \div 256
      /\ \A i \in DOMAIN c.CfgFchSciMapControl :
            LET m == c.CfgFchSciMapControl[i]
            IN m[1] \in (\h40 .. \h7F) \ TablePins /\ m[2] < \h20 =>
                 Read(regs, "mmio", SMI_BASE + m[1], 8) = m[2]

\* The blocks of time point 1 share pads and registers, and none undoes what another one
\* was told to do.
OptionsHold == PadsKept /\ OptionsInForce

\* The bits of a register that fields of some settings decide.
FieldBits(phy, register, fields) ==
  UNION {{<<register, f.shift + b, HasBit(phy[f.name], b)>> : b \in 0 .. f.width - 1} : f \in fields}

UsesOemTable(u) == u.tableVersion = <<\h0D, \h10>>

\* The bits of a controller's registers that its options decide, and their values.
UsbOptions(u, n) ==
  LET at == Usb3SmnBase(n)
  IN { <<PortControl(n), 8, u.XhciOcPolarityCfgLow>>,
       <<at + \h180118, 12, u.XhciECCDedErrRptEn>>,
       <<at + \hC12C, 17, u.UsbSparseModeEnable>> }
     \cup UNION {{ <<PortControl(n), 16 + p, 2 * n + p \in u.Usb3PortForceGen1>>,
                   <<at + \hD024 + \h80 * p, 10, 2 * n + p \in u.Usb3PortForceGen1>>,
                   <<at + \h180114, p, 2 * n + p \in u.Xhci0DevRemovable>>,
                   <<at + \h180114, 16 + p, 16 + 2 * n + p \in u.Xhci0DevRemovable>> } : p \in 0 .. 1}
     \cup FieldBits(u.OCpin[n], at + \h180120, {Field("Usb20OcPin", 0, 8), Field("Usb31OcPin", 8, 8)})
     \cup UNION {FieldBits(u.Usb20PhyPort[2 * n + p], at + \h11C000 + \h400 * p, LANEPARACTL0)
                 \cup FieldBits(u.Usb20PhyPort[2 * n + p], at + \h11C004 + \h400 * p, LANEPARACTL1)
                   : p \in IF UsesOemTable(u) /\ u.Usb20PhyEnable THEN 0 .. 1 ELSE {}}

\* The same for the USB 3.1 PHY of one of its ports.
Usb31PhyOptions(u, n, p) ==
  LET phy == u.Usb31PhyPort[2 * n + p]
      at == Usb3SmnBase(n)
  IN FieldBits(phy, at + \h1242D0, {Field("RX_ANA_IQ_PHASE_ADJUST", 0, 7)})
     \cup FieldBits(phy, at + \h12C064, RX_EQ_DELTA_IQ)
     \cup FieldBits(phy, at + \h12C14C, {Field("RX_IQ_PHASE_ADJUST", 0, 7)})
     \cup FieldBits(phy, at + \h120088, SUP_DIG_LVL)

\* The sparse mode of controller 1 is sent to a register of no controller.
Astray(n, register) == n = 1 /\ register = Usb3SmnBase(1) + \hC12C

\* The SMU is told every option of both controllers, each in that controller's own
\* registers and for the port it is meant for, with the sparse mode of controller 1 as
\* the exception and the PHY settings of the OEM table only where its version is the
\* one the code looks for; and then, once, to start the enabled controllers: as a
\* resume exactly when the sleep type says so, which is readable because the ACPI ports
\* were set up before.
UsbTold ==
    stage = "End" =>
      IF UsbEnabled(c.usb) = {} THEN smu = << >>
      ELSE /\ smu # << >> /\ Updates(smu) = 1 .. Len(smu) - 1
           /\ smu[Len(smu)] = IF c.sleepType = ACPI_SLPTYP_S3 THEN [kind |-> "s3exit"]
                          ELSE [kind |-> "init", controllers |-> UsbEnabled(c.usb)]
           /\ \A n \in UsbControllers :
                /\ \A o \in UsbOptions(c.usb, n) :
                     Astray(n, o[1]) \/ UsbBit(smu, o[1], o[2]) = o[3]
                /\ UsesOemTable(c.usb) /\ c.usb.Usb31PhyEnable =>
                     \A p \in 0 .. 1 : \A o \in Usb31PhyOptions(c.usb, n, p) :
                       PhyBit(smu, n, p, o[1], o[2]) = o[3]

\* While the second FCH is set up the first one's registers stay as they are, except for
\* the port of the A-link registers (PMIO E0h), which FchSecondaryFchInitAB closes; and
\* the I/O ports are the first one's again at the end.  (When no MMIO could be reserved
\* the base address still is that of the first FCH, and its registers are written.)
SecondaryApart ==
    [][MultiFchInit =>
         /\ stage' = "called" => route' = "first"
         /\ c.reserved =>
              \A x \in DOMAIN regs' :
                 \/ x[1] = "mmio" /\ x[2] \div 16 = (PMIO_BASE + \hE0) \div 2
                 \/ x \in DOMAIN regs /\ regs'[x] = regs[x]]_vars

\* The eSPI controller only ever runs the whole command the host means: right type,
\* address and data, although the header is written field by field and the copy carries
\* an old status bit.  It rests on the polls not running out, and on the peripheral
\* channel not being enabled when the host begins (see ResetStray).
EspiCommandsWhole ==
    [][EspiController /\ ~late /\ "PC" \notin caps.entry =>
         /\ epc = "after" /\ txhdr0.type = op.type
         /\ op.for # "reset" => txhdr0.addr = op.addr /\ txhdr1 = op.value]_vars

EspiWanted == caps.master \cap caps.device

EspiSetUp == stage = "called" /\ c.call = "Espi" /\ c.EspiEnable /\ c.EspiEc0Enable

\* When eSPI is set up and no poll ran out, the controller has exactly the channels
\* enabled that both sides support, the device has them ready, and both use the same
\* I/O mode.  (Not with OOB, for which the code enables flash access.)
EspiChannelsReady ==
    EspiSetUp /\ ~late /\ "OOB" \notin EspiWanted =>
      /\ config.channels = EspiWanted /\ device.ready = EspiWanted
      /\ config.io = device.io
      /\ config.io = (IF caps.masterIo \in caps.deviceIo THEN caps.masterIo ELSE "single")

\* Time point 1 and the call after it come to an end, however late or never the devices
\* power up: unless the host asked for a reset, or a delay of FchSataGpioInitial never
\* returns, or eSPI polls run out.
FchEnds ==
    <>(\/ stage \in {"called", "resetting"} \/ (stage = "End" /\ c.call = "none")
       \/ (stage = "hung" /\ \E n \in Controllers : c.sata[n].SataEnable /\ c.sata[n].SataSgpio0)
       \/ caps.slow)
=============================================================================
