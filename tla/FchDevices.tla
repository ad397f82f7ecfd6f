------------------------------ MODULE FchDevices ------------------------------
(***************************************************************************)
(* The I2C and UART devices of the FCH and their pads, powering a device   *)
(* on and off, the microsecond delay all of it waits with, and the parts   *)
(* of the hardware ACPI block specific to the 9004 family; then the SATA   *)
(* and SPI controllers.                                                    *)
(***************************************************************************)
EXTENDS FchHwAcpi

\* A device: its name, its bit of FchDeviceEnableMap, its AOAC number, the IOMUX pads
\* it takes with the value it selects, and the GPIO registers whose output it disables.
Device(name, bit, aoac, pads, select, gpios) ==
  [name |-> name, bit |-> bit, aoac |-> aoac, pads |-> pads, select |-> select,
   gpios |-> gpios]

\* In the order of FchI2cUartInit.
Devices == <<
  Device("I2c0", 5, \h5, {\h91, \h92}, 0, {}),
  Device("I2c1", 6, \h6, {\h93, \h94}, 0, {}),
  Device("I2c2", 7, \h7, {\h71, \h72}, 1, {}),
  Device("I2c3", 8, \h8, {\h13, \h14}, 1, {}),
  Device("I2c4", 9, \h9, {\h95, \h96}, 0, {}),
  Device("I2c5", 10, \hA, {\h97, \h98}, 0, {}),
  Device("Uart0", 11, \hB, \h87 .. \h8B, 0, {\h21C, \h220, \h224, \h228, \h22C}),
  Device("Uart1", 12, \hC, \h8C .. \h90, 0, {\h234, \h238}),
  Device("Uart2", 16, \h10, {\h87, \h89}, 1, {\h21C, \h224}),
  Device("Uart3", 26, \h1A, {\h8C, \h8E}, 1, {\h238}) >>

IsI2c(d) == d.bit \in 5 .. 10

\* The devices FchI2cUartInit sets up, in its order: those of the enable map.
EnabledDevices(c) ==
  LET Chosen(d) == d.bit \in c.FchDeviceEnableMap IN SelectSeq(Devices, Chosen)

Pad(number, value) == Put8(IOMUX_BASE + number, value)

\* Every pad of a set gets the same value: one byte each.
Pads(numbers, value) ==
  [x \in {<<"mmio", 8 * (IOMUX_BASE + p) + b>> : p \in numbers, b \in 0 .. 7} |->
     Bit(HasBit(value, x[2] % 8))]

\* FCH_GPIO_OUTPUT_ENABLE << 16: bit 23 of a GPIO register.
OutputsOff(gpios) ==
  [x \in {<<"mmio", 8 * (GPIO_BANK0_BASE + g) + 23>> : g \in gpios} |-> 0]

\* What follows the power-up of a device.
DeviceSetup(c, d) ==
  Pads(d.pads, d.select) ++ OutputsOff(d.gpios)
  ++ When(IsI2c(d), Rmw("i2c", 16 * d.bit, 0 .. 31, Ones(c.SdaHold[d.name], 31)))

\* The end of FchI2cUartInit.
FchInitPspIntr0 == Pad(\h59, 1)

\* FchUartInitV80, an entry point of its own: UART 1 gets two of its pads only.
FchUartInitV80(c, d) ==
  IF d.name = "Uart1" THEN Pads({\h8D, \h8E}, 0) ++ OutputsOff(d.gpios)
  ELSE Pads(d.pads, d.select) ++ OutputsOff(d.gpios)

----------------------------------------------------------------------------
(* FchAoacPowerOnDev: the control register of a device is at 40h + 2 * its *)
(* number, the state register after it.                                    *)

AoacControl(d) == AOAC_BASE + \h40 + 2 * d

PowerOnRequest(d) == Rmw8(AoacControl(d), \h7C, \h08)

PowerOnForced(d) == Rmw8(AoacControl(d), \hFF, \h08)

PowerOffRequest(d) == Rmw8(AoacControl(d), \h77, 0)

FCH_AOAC_ESPI == \h1B

\* After the polls: a device that is still up is switched off by its override.
PowerOffEnd(d, off) ==
  When(~off, Put8(AoacControl(d), \h80))
  ++ When(d /= FCH_AOAC_ESPI, Rmw8(AoacControl(d), \hFF, \h03))

----------------------------------------------------------------------------
(* SilFchStall: the low byte of the ACPI timer, whose tick is 28/100 of a  *)
(* microsecond, is read every "interval" ticks from "start" on.            *)
(* ElapsedTime is a 32-bit number.                                         *)

TimerByte == 256

\* One reading after the start: a difference, or a number close to 2^32 when the byte
\* has wrapped (times 28 it wraps to one close to 2^32 again, far beyond any request).
Enough(us, start, now) == now < start \/ ((now - start) * 28) \div 100 > us

\* The readings that end the delay; the byte repeats after at most 256 readings.
EndingReads(us, start, interval) ==
  {k \in 1 .. TimerByte : Enough(us, start, (start + k * interval) % TimerByte)}

StallReturns(us, start, interval) == EndingReads(us, start, interval) /= {}

----------------------------------------------------------------------------
(* The 9004 family *)

FchInitEnableBootTimerV80(c) ==
  When(c.BootTimerEnable, Set(PMIO_BASE + \h93, {7}, c.BootTimerResetType))
  ++ Rmw8(PMIO_BASE + \h47, \h67, IF c.BootTimerEnable THEN \h88 ELSE \h80)

FchInitTogglePwrGdOnCf9(c) == Set(PMIO_BASE + \h10, {1}, c.ToggleAllPwrGoodOnCf9)

SpreadSpectrumAsked(c) == c.SpreadSpectrum /\ ~c.externalClock

\* ProgramFchEnvSpreadSpectrumV80 acts, between two delays, when the bit differs.
SpreadSpectrumChanges(c, regs) ==
  SpreadSpectrumAsked(c) /= IsSet(regs, "mmio", MISC_BASE + \h08, 0)

SpreadSpectrumWrites(c) ==
  When(SpreadSpectrumAsked(c),
       Rmw("mmio", MISC_BASE + \h14, 8 .. 23, {8 + b : b \in Ones(\h1333, 16)})
       ++ Rmw("mmio", MISC_BASE + \h18, 16 .. 31, {16 + b : b \in Ones(\h3A, 16)})
       ++ Set(MISC_BASE + \h40, {25}, TRUE))
  ++ Set(MISC_BASE + \h10, {29}, TRUE)
  ++ Set(MISC_BASE + \h08, {0}, SpreadSpectrumAsked(c))
  ++ Set(MISC_BASE + \h48, {11}, TRUE)
  ++ Set(MISC_BASE + \h40, {30}, TRUE)

\* FchInitPrePcieHwAcpiSn up to the spread spectrum, and after it.  The PCI table holds
\* one row, and ProgramCpuRstBTmr does nothing for the package type it is given.
BeforeSpreadSpectrum(c) ==
  FchInitEnableBootTimerV80(c)
  ++ ProgramFchAcpiMmioTbl(Fch9004InitResetAcpiMmioTable)
  ++ Rmw("pci", \h11, 0 .. 7, {3})

AfterSpreadSpectrum == Rmw("mmio", GPIO_BANK1_BASE + \hE0, {20, 21}, {20})

----------------------------------------------------------------------------
(* FchInitLateHwAcpi, an entry point of its own *)

GcpuRelatedSetting(c) ==
  Rmw("mmio", PMIO_BASE + \hA0, (0 .. 31) \ ({5, 7, 30, 31} \cup (16 .. 22)),
      (IF c.AcDcMsg THEN {0} ELSE {}) \cup (IF c.TimerTickTrack THEN {1} ELSE {})
      \cup (IF c.ClockInterruptTag THEN {10} ELSE {})
      \cup (IF c.OhciTrafficHanding THEN {13} ELSE {})
      \cup (IF c.EhciTrafficHanding THEN {15} ELSE {})
      \cup (IF c.GcpuMsgCMultiCore THEN {23} ELSE {})
      \cup (IF c.GcpuMsgCStage THEN {2, 3, 4, 6} ELSE {}))

\* Modes 1 to 3 write a reset port and then wait for the reset for ever; 4 becomes 3.
StressResets(mode) == mode \in 1 .. 3

StressResetModeLate(mode) ==
  CASE mode = 1 -> Rmw("io", \h64, 0 .. 7, Ones(\hFE, 8))
    [] mode = 2 -> Rmw("io", \hCF9, 0 .. 7, Ones(\h06, 8))
    [] mode = 3 -> Rmw("io", \hCF9, 0 .. 7, Ones(\h0E, 8))
    [] OTHER -> << >>

SbSleepTrapControl(trap) ==
  Rmw("mmio", SMI_BASE + \hB0, {2, 3}, IF trap THEN {2} ELSE {})
  ++ Set(PMIO_BASE + \hBE, {5}, ~trap)
  ++ Rmw("mmio", PMIO_BASE + \h0B, {0, 1}, IF trap THEN {1} ELSE {0})

\* FchInternalDeviceIrqInit: the interrupts of the table, those of the I2C and UART
\* devices replaced by the host's, go to the routing registers (index 80h on).
IrqIndex ==
  [INTA |-> \h00, INTB |-> \h01, INTC |-> \h02, INTD |-> \h03, SD |-> \h17, SDIO |-> \h1A,
   EMMC |-> \h43, GPIO |-> \h62, I2c0 |-> \h70, I2c1 |-> \h71, I2c2 |-> \h72,
   I2c3 |-> \h73, Uart0 |-> \h74, Uart1 |-> \h75, I2c4 |-> \h76, I2c5 |-> \h77,
   Uart2 |-> \h78, Uart3 |-> \h79]

FixedIrq ==
  [INTA |-> \h10, INTB |-> \h11, INTC |-> \h12, INTD |-> \h13, SD |-> \h10, SDIO |-> \h10,
   EMMC |-> \h5, GPIO |-> \h7]

FchInternalDeviceIrqInit(c) ==
  LET irq == FixedIrq @@ c.DeviceIrq
      routing == {<<"irq", 8 * (\h80 + IrqIndex[n]) + b>> : n \in DOMAIN IrqIndex, b \in 0 .. 7}
      Routed(x) == CHOOSE n \in DOMAIN IrqIndex : IrqIndex[n] = x[2] \div 8 - \h80
  IN [x \in routing |-> Bit(HasBit(irq[Routed(x)], x[2] % 8))]

FchCppcSciInit(c) ==
  LET bits == IF c.CppcSupport THEN Ones(c.SciBit, 31) ELSE {}
  IN Set(SMI_BASE + \h0C, bits, TRUE) ++ Set(SMI_BASE + \h08, bits, TRUE)
     ++ Set(SMI_BASE + \h18, bits, TRUE) ++ Set(SMI_BASE + \h04, bits, TRUE)

FchInitLateHwAcpi(c) ==
  GcpuRelatedSetting(c)
  ++ StressResetModeLate(c.StressResetMode)
  ++ When(~StressResets(c.StressResetMode),
          SbSleepTrapControl(TRUE) ++ FchInternalDeviceIrqInit(c) ++ FchCppcSciInit(c))

----------------------------------------------------------------------------
(* The SATA controllers (four, numbered from 0) and the SPI controller.    *)
(* The input block of controller n is c.sata[n]; its registers are in the  *)
(* space Sata(n), its straps and PCI configuration in Strap(n); "bridge"   *)
(* holds the control registers of the two bridges in front.                *)

Controllers == 0 .. 3

Sata(n) == <<"sata0", "sata1", "sata2", "sata3">>[n + 1]

Strap(n) == <<"strap0", "strap1", "strap2", "strap3">>[n + 1]

\* FchInitResetSataProgramSn, which FchInitEnvSataSn repeats at its end: a bridge none
\* of whose controllers is used is hidden.
Bridges == {0, 2}

HideUnusedBridges(c) ==
  LET unused == {n \in Bridges : ~c.sata[n].SataEnable /\ ~c.sata[n + 1].SataEnable}
  IN [x \in {<<"bridge", 32 * n + b>> : n \in unused, b \in 0 .. 2} |-> 1]

FchSataInitEsata(c, n) ==
  LET ports == Ones(c.sata[n].SataEspPort, 8)
      any == ports /= {}
  IN Rmw(Sata(n), \hF8, IF any THEN ports \cup (16 .. 23) ELSE (0 .. 7) \cup (16 .. 23),
         {16 + p : p \in ports})
     ++ Rmw(Sata(n), \hFC, {20}, IF any THEN {20} ELSE {})

\* FchSgpioToMpioSn.
FchSgpioToMpio(n) == Rmw(Sata(n), \hE0, {28}, {28})

----------------------------------------------------------------------------
(* FchSataGpioInitial: the pads of the serial GPIO, then six messages *)

PullUps(base, gpios) ==
  [x \in {<<"mmio", 8 * (base + g) + b>> : g \in gpios, b \in {20, 21}} |->
     Bit(x[2] % 8 = 4)]

\* REMOTE_GPIO_BASE has a multiplexer of its own, at C0h.
RemotePads(numbers) ==
  [x \in {<<"mmio", 8 * (REMOTE_GPIO_BASE + p) + b>> : p \in numbers, b \in 0 .. 7} |->
     Bit(x[2] % 8 = 0)]

FchSataGpioSetPad(n) ==
  CASE n = 0 -> Pads({\h09, \h17, \h28}, 1) ++ Pad(\h0A, 2)
                ++ PullUps(GPIO_BANK0_BASE, {\h24, \h28, \h5C})
    [] n = 1 -> RemotePads({\hC4, \hC5, \hC6}) ++ PullUps(REMOTE_GPIO_BASE, {\h10, \h14, \h18})
    [] n = 2 -> RemotePads(\hC0 .. \hC3) ++ PullUps(REMOTE_GPIO_BASE, {\h00, \h04, \h08})
    [] n = 3 -> Pads(\h1D .. \h20, 1) ++ PullUps(GPIO_BANK0_BASE, {\h74, \h78, \h7C})

\* What is done before the first message.
GpioStart(n) == FchSataGpioSetPad(n) ++ Rmw(Sata(n), \hFC, {27}, {27})

\* A message: the register type in 506h, and the words, whose number goes to 508h, as
\* sets of bits.  Three messages are sent twice, the first one with another value.
A0A0A0A0 == {8 * n + b : n \in 0 .. 3, b \in {5, 7}}

GpioMessage(type, words) == [type |-> type, words |-> words]

GpioMessages ==
  LET Three(value) == <<GpioMessage(\hC0, <<Ones(value, 8)>>), GpioMessage(\h03, <<A0A0A0A0>>),
                        GpioMessage(\h00, <<{23}, Ones(\h0F0F3700, 31)>>)>>
  IN Three(\h20) \o Three(\h21)

\* Bit 8 of register 20h asks the controller to send it, and clears when it has.
GpioSend(n, message) ==
  Rmw(Sata(n), \h506, 0 .. 7, Ones(message.type, 8))
  ++ Rmw(Sata(n), \h507, 0 .. 7, {})
  ++ Rmw(Sata(n), \h508, 0 .. 7, Ones(Len(message.words), 8))
  ++ Rmw(Sata(n), \h50C, 0 .. 31, message.words[1])
  ++ When(Len(message.words) = 2, Rmw(Sata(n), \h510, 0 .. 31, message.words[Len(message.words)]))
  ++ Rmw(Sata(n), \h20, {8}, {8})

GpioSent(n) == Rmw(Sata(n), \h20, {8}, {})

GpioPending(regs, n) == IsSet(regs, Sata(n), \h20, 8)

GPIO_STALL == 5000

----------------------------------------------------------------------------

\* One port of FchSataInitDevSlp: its pad, its GPIO register and its bit of F4h.
DevSlpPort(enabled, other, pad, gpio, number) ==
  IF enabled
  THEN Pad(pad, 1) ++ Rmw("mmio", GPIO_BANK0_BASE + gpio, 20 .. 23, {23})
       ++ Rmw(Sata(0), \hF4, {4}, {4, 8 + number})
  ELSE Pad(pad, 0) ++ Rmw(Sata(0), \hF4, {8 + number} \cup (IF other THEN {} ELSE {4}), {})

FchSataInitDevSlp(c) ==
  LET s == c.sata[0]
  IN DevSlpPort(s.SataDevSlpPort0, s.SataDevSlpPort1, \h05, \h14, s.SataDevSlpPort0Num)
     ++ DevSlpPort(s.SataDevSlpPort1, s.SataDevSlpPort0, \h06, \h18, s.SataDevSlpPort1Num)

\* The class of a controller, in its straps, and its subsystem id.
FchInitEnvSataAhci(c, n) ==
  Rmw(Strap(n), 52, 0 .. 31, {0, 9, 10, 16})
  ++ Rmw(Strap(n), 0, 0 .. 15, Ones(IF c.sata[n].SataClass = "SataAhci7804" THEN \h7904 ELSE \h7901, 16))
  ++ When(c.sata[n].SataAhciSsid /= 0,
          Rmw(Strap(n), \h4C, 0 .. 31, Ones(c.sata[n].SataAhciSsid, 31)))

FchInitEnvSataRaid(c, n) ==
  Rmw(Strap(n), 52, 0 .. 31, {10, 16})
  ++ Rmw(Strap(n), 0, 0 .. 15, Ones(\h7916, 16))
  ++ When(c.sata[n].SataRaidSsid /= 0,
          Rmw(Strap(n), \h4C, 0 .. 31, Ones(c.sata[n].SataRaidSsid, 31)))

\* FchInitEnvProgramSata and the rest of the body of FchInitEnvSataSn's loop, before and
\* after the serial GPIO of the controller.
SataBegins(c, n) ==
  FchSataInitEsata(c, n) ++ (IF c.sata[n].SataSgpio0 THEN GpioStart(n) ELSE FchSgpioToMpio(n))

SataEnds(c, n) ==
  When(n = 0, FchSataInitDevSlp(c))
  ++ When(c.sata[n].SataClass \in {"SataAhci", "SataAhci7804"}, FchInitEnvSataAhci(c, n))
  ++ When(c.sata[n].SataClass = "SataRaid", FchInitEnvSataRaid(c, n))

----------------------------------------------------------------------------
(* The SPI controller: FchInitResetSpi *)

SpiSpeedField(first, speed) ==
  When(speed /= 0, Rmw("spi", \h20, first .. first + 3, {first + b : b \in Ones(speed - 1, 8)} \cap (0 .. 31)))

FchInitResetSpi(c) ==
  Rmw("spi", \h00, {}, {19, 24, 25, 26})
  ++ Rmw("spi", \h0C, 16 .. 21, {})
  ++ Rmw("spi", \h20, {}, {0})
  ++ SpiSpeedField(28, c.SpiSpeed)
  ++ SpiSpeedField(20, c.WriteSpeed)
  ++ SpiSpeedField(16, c.SpiTpmSpeed)
  ++ Rmw("spi", \h1C, {10}, IF c.SpiBurstWrite THEN {10} ELSE {})
  ++ Rmw("spi", \h2C, {14, 15}, {14})
=============================================================================
