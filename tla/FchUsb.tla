-------------------------------- MODULE FchUsb --------------------------------
(***************************************************************************)
(* The two USB controllers of the FCH.  Their registers are written by the *)
(* SMU: every setting is a message with a register, a mask, the data and a *)
(* group that names the controller.  A message is                          *)
(*   [kind |-> "update", register |-> offset from FCH_SN_USB0_SMN_BASE,    *)
(*    mask |-> bits, data |-> bits, controller |-> n]                      *)
(* or one of the messages that start the controllers.  u is the input      *)
(* block; maps of ports are sets of bit numbers.                           *)
(***************************************************************************)
EXTENDS FchDevices

UsbControllers == 0 .. 1

FCH_SN_USB_CNTL_STEP == \h200000

\* The base address of a controller.
Usb3SmnBase(n) == FCH_SN_USB_CNTL_STEP * n

Update(register, mask, data, n) ==
  [kind |-> "update", register |-> register, mask |-> mask, data |-> data, controller |-> n]

Flag(register, bit, on, n) == Update(register, {bit}, IF on THEN {bit} ELSE {}, n)

SIL_RESERVED_35 == \h180000

PortControl(n) == Usb3SmnBase(n) + SIL_RESERVED_35 + \h130

\* The messages of one routine for controller 0, then for controller 1.
ForEach(first, second) == first \o second

Low(bits, n) == bits \cap (0 .. n - 1)

Down(bits, n) == {b - n : b \in {a \in bits : a >= n}}

----------------------------------------------------------------------------

FchXhciOverCurrent(u, n) ==
  <<Update(Usb3SmnBase(n) + SIL_RESERVED_35 + \h120, 0 .. 15,
           Ones(u.OCpin[n].Usb20OcPin, 8) \cup {8 + b : b \in Ones(u.OCpin[n].Usb31OcPin, 8)},
           n)>>

\* Two ports of each controller, USB 2 in bits 0 and 1, USB 3 in bits 16 and 17.
FchXhciDeviceRemovable(u, n) ==
  LET removable == Down(u.Xhci0DevRemovable, 2 * n) \cap {0, 1, 16, 17}
  IN <<Update(Usb3SmnBase(n) + SIL_RESERVED_35 + \h114, removable, removable, n)>>

FchXhciRasFeature(u, n) ==
  <<Flag(Usb3SmnBase(n) + SIL_RESERVED_35 + \h118, 12, u.XhciECCDedErrRptEn, n)>>

FchXhciOCPolarity(u, n) == <<Flag(PortControl(n), 8, u.XhciOcPolarityCfgLow, n)>>

\* Called with the base address of the controller, it adds the step once more.
FchXhciSparseMode(u, n) ==
  <<Flag(Usb3SmnBase(n) + \hC12C + \h200000 * n, 17, u.UsbSparseModeEnable, n)>>

\* A value packed from fields; field f of the settings is "width" bits at "shift".
Packed(phy, fields) ==
  UNION {{f.shift + b : b \in Ones(phy[f.name], f.width)} : f \in fields}

Field(name, shift, width) == [name |-> name, shift |-> shift, width |-> width]

LANEPARACTL0 ==
  {Field("COMPDSTUNE", 0, 3), Field("SQRXTUNE", 12, 3), Field("TXFSLSTUNE", 16, 4),
   Field("TXPREEMPAMPTUNE", 20, 2), Field("TXPREEMPPULSETUNE", 23, 1), Field("TXRISETUNE", 24, 2),
   Field("TXVREFTUNE", 28, 4)}

LANEPARACTL1 == {Field("TXHSXVTUNE", 0, 2), Field("TXRESTUNE", 2, 2)}

\* The bits that fields take up.
Covered(fields) == UNION {f.shift .. f.shift + f.width - 1 : f \in fields}

FchUsbOemUsb20PhyConfigure(u, n, port) ==
  LET phy == u.Usb20PhyPort[2 * n + port]
      at == Usb3SmnBase(n) + \h400 * port
  IN <<Update(at + \h11C000, Covered(LANEPARACTL0), Packed(phy, LANEPARACTL0), n),
       Update(at + \h11C004, Covered(LANEPARACTL1), Packed(phy, LANEPARACTL1), n)>>

\* FchUsb31PhySwitchPort selects the port the next four messages are for.
FchUsb31PhySwitchPort(n, port) ==
  <<Update(Usb3SmnBase(n) + \h130, 12 .. 15, {12 + b : b \in Ones(port, 4)}, n)>>

RX_EQ_DELTA_IQ ==
  {Field("RX_EQ_DELTA_IQ_OVRD_VAL", 0, 4), Field("RX_EQ_DELTA_IQ_OVRD_EN", 4, 1)}

SUP_DIG_LVL ==
  {Field("RX_VREF_CTRL", 0, 3), Field("RX_VREF_CTRL_EN", 3, 1), Field("TX_VBOOST_LVL", 4, 3),
   Field("TX_VBOOST_LVL_EN", 7, 1)}

FchUsbOemUsb31PhyConfigurePortD10(u, n, port) ==
  LET phy == u.Usb31PhyPort[2 * n + port]
  IN FchUsb31PhySwitchPort(n, port)
     \o <<Update(Usb3SmnBase(n) + \h1242D0, 0 .. 6, Ones(phy.RX_ANA_IQ_PHASE_ADJUST, 7), n),
          Update(Usb3SmnBase(n) + \h12C064, 0 .. 4, Packed(phy, RX_EQ_DELTA_IQ), n),
          Update(Usb3SmnBase(n) + \h12C14C, 0 .. 6, Ones(phy.RX_IQ_PHASE_ADJUST, 7), n),
          Update(Usb3SmnBase(n) + \h120088, 0 .. 7, Packed(phy, SUP_DIG_LVL), n)>>

FchSNXhciOemConfigure(u) ==
  (IF u.Usb20PhyEnable
   THEN FchUsbOemUsb20PhyConfigure(u, 0, 0) \o FchUsbOemUsb20PhyConfigure(u, 0, 1)
        \o FchUsbOemUsb20PhyConfigure(u, 1, 0) \o FchUsbOemUsb20PhyConfigure(u, 1, 1)
   ELSE << >>)
  \o
  (IF u.Usb31PhyEnable
   THEN FchUsbOemUsb31PhyConfigurePortD10(u, 0, 0) \o FchUsbOemUsb31PhyConfigurePortD10(u, 0, 1)
        \o FchUsbOemUsb31PhyConfigurePortD10(u, 1, 0) \o FchUsbOemUsb31PhyConfigurePortD10(u, 1, 1)
   ELSE << >>)

\* As a bug would have it: the whole register is written.
ForceGen1Whole(u, n) ==
  LET forced == Low(Down(u.Usb3PortForceGen1, 2 * n), 2)
      Link(port) == Flag(Usb3SmnBase(n) + \hD024 + \h80 * port, 10, port \in forced, n)
  IN <<Update(PortControl(n), 0 .. 31, {16 + p : p \in forced}, n), Link(0), Link(1)>>

\* FchUsb3PortForceGen1 for the two ports of a controller.
FchUsb3PortForceGen1(u, n) ==
  LET forced == Low(Down(u.Usb3PortForceGen1, 2 * n), 2)
      Link(port) == Flag(Usb3SmnBase(n) + \hD024 + \h80 * port, 10, port \in forced, n)
  IN <<Update(PortControl(n), {16, 17}, {16 + p : p \in forced}, n), Link(0), Link(1)>>

\* The OEM table is used when its version is 0D.10 only.
FchSNXhciPassParameter(u) ==
  ForEach(FchXhciOverCurrent(u, 0), FchXhciOverCurrent(u, 1))
  \o ForEach(FchXhciDeviceRemovable(u, 0), FchXhciDeviceRemovable(u, 1))
  \o ForEach(FchXhciRasFeature(u, 0), FchXhciRasFeature(u, 1))
  \o ForEach(FchXhciOCPolarity(u, 0), FchXhciOCPolarity(u, 1))
  \o ForEach(FchXhciSparseMode(u, 0), FchXhciSparseMode(u, 1))
  \o (IF u.tableVersion = <<\h0D, \h10>> THEN FchSNXhciOemConfigure(u) ELSE << >>)
  \o ForEach(FchUsb3PortForceGen1(u, 0), FchUsb3PortForceGen1(u, 1))

UsbEnabled(u) ==
  (IF u.Xhci0Enable THEN {0} ELSE {}) \cup (IF u.Xhci1Enable THEN {1} ELSE {})

\* SilFchReadSleepType: nothing is known while the port of PM1 control is not set up.
SilFchReadSleepType(c, regs) ==
  IF Read(regs, "mmio", PMIO_BASE + \h62, 16) \in {0, \hFFFF} THEN \hFF ELSE c.sleepType

ACPI_SLPTYP_S3 == 3

\* FchSNInitResetXhci: the parameters, then the message that starts the controllers.
FchSNInitResetXhci(c, regs) ==
  IF UsbEnabled(c.usb) = {} THEN << >>
  ELSE Append(FchSNXhciPassParameter(c.usb),
              IF SilFchReadSleepType(c, regs) = ACPI_SLPTYP_S3
              THEN [kind |-> "s3exit"]
              ELSE [kind |-> "init", controllers |-> UsbEnabled(c.usb)])

\* FchSNXhciIohcPmeDisable.
FchSNInitEnvUsbXhci == Rmw("iohc", 0, {}, {4}) ++ Rmw("iohc", 4, {}, {4})

\* FchUsbDisablePort, an entry point of its own: port 0 of each controller through the
\* SMU, port 1 through the controllers' registers.
FchUsbDisablePort(usb2, usb3) ==
  LET Port0(map, to) == (IF 0 \in map THEN {to} ELSE {}) \cup (IF 2 \in map THEN {to + 8} ELSE {})
      smuPorts == Port0(usb2, 0) \cup Port0(usb3, 16)
      Ports(n) == Low(Down(usb2 \cap {1, 3}, 2 * n), 2)
                  \cup {16 + p : p \in Low(Down(usb3 \cap {1, 3}, 2 * n), 2)}
  IN [smu |-> IF smuPorts = {} THEN << >> ELSE <<[kind |-> "disable", ports |-> smuPorts]>>,
      regs |-> Rmw("usbport", 0, {0, 1, 16, 17}, Ports(0))
               ++ Rmw("usbport", 4, {0, 1, 16, 17}, Ports(1))]

----------------------------------------------------------------------------
(* What the SMU makes of the messages *)

Updates(smu) == {i \in DOMAIN smu : smu[i].kind = "update"}

\* The value a bit of a register ends with: that of the last of the messages about it.
LastValue(smu, about, b) ==
  about /= {} /\ \E i \in about : (\A j \in about : j <= i) /\ b \in smu[i].data

About(smu, register, b) ==
  {i \in Updates(smu) : smu[i].register = register /\ b \in smu[i].mask}

UsbBit(smu, register, b) == LastValue(smu, About(smu, register, b), b)

\* Message i is about the port of controller n that the last switch before it selected.
ForPort(smu, n, port, i) ==
  LET switches == {j \in 1 .. i - 1 : /\ smu[j].register = Usb3SmnBase(n) + \h130
                                      /\ 12 .. 15 \subseteq smu[j].mask}
  IN \E j \in switches : /\ \A k \in switches : k <= j
                          /\ smu[j].data = {12 + b : b \in Ones(port, 4)}

\* A register of the USB 3.1 PHYs is there once for each port.
PhyBit(smu, n, port, register, b) ==
  LastValue(smu, {i \in About(smu, register, b) : ForPort(smu, n, port, i)}, b)
=============================================================================
