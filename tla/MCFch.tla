-------------------------------- MODULE MCFch --------------------------------
(***************************************************************************)
(* The FCH for the default input blocks and for inputs that each differ    *)
(* from them in one respect.                                               *)
(***************************************************************************)
EXTENDS Fch

\* PHY settings that differ from port to port.
Phy(fields, p) == [name \in {f.name : f \in fields} |-> p + 1]

Phy31(p) == Phy(RX_EQ_DELTA_IQ \cup SUP_DIG_LVL, p)
            @@ [RX_ANA_IQ_PHASE_ADJUST |-> p + 9, RX_IQ_PHASE_ADJUST |-> p + 17]

\* The default blocks with both USB controllers on and no SATA controller, so that the
\* inputs below turn on one thing at a time.
UsbOn ==
  [DefaultUsb EXCEPT !.Xhci0Enable = TRUE, !.Xhci1Enable = TRUE, !.Usb20PhyEnable = TRUE,
                     !.Usb31PhyEnable = TRUE,
                     !.OCpin = [n \in 0 .. 1 |-> [Usb20OcPin |-> 16 * n, Usb31OcPin |-> n]],
                     !.Usb20PhyPort = [p \in 0 .. 3 |-> Phy(LANEPARACTL0 \cup LANEPARACTL1, p)],
                     !.Usb31PhyPort = [p \in 0 .. 3 |-> Phy31(p)]]

SataOff == [DefaultSata EXCEPT !.SataEnable = FALSE]

Base ==
  [DefaultC EXCEPT !.usb = UsbOn, !.sata = [n \in Controllers |-> SataOff],
                   !.SmiCmdPortAddr = \hB0, !.EspiEnable = TRUE, !.EspiEc0Enable = TRUE,
                   !.FchIoApicId = \h80]

Flags == {"NoClearThermalTripSts", "WdtEnable", "CfgFchRtcWorkAround", "eventPending", "EcKbd",
  "FchOscout1ClkContinous", "SerialIrqEnable", "AsfDisableSecondary", "CfgIoApicIdPreDefEnable",
  "NativePcieSupport", "NoneSioKbcSupport", "HpetEnable", "HpetMsiDis", "FchAlinkRasSupport",
  "BootTimerEnable", "BootTimerResetType", "SpreadSpectrum", "externalClock", "sscAlready",
  "SlowSpeedAbLinkClock", "ResetCpuOnSyncFlood", "AbClockGating", "AbDmaMemoryWrtie3264B",
  "AbMemoryPowerSaving", "ALinkClkGateOff", "BLinkClkGateOff", "SbgMemoryPowerSaving",
  "SbgClockGating", "XdmaDmaWrite16ByteMode", "XdmaMemoryPowerSaving", "XdmaDncplOrderDis",
  "SdphostBypassDataPack", "SdphostDisNpmwrProtect", "SpiBurstWrite"}

NoEspi ==
  [master |-> {}, device |-> {}, masterIo |-> "single", deviceIo |-> {"single"}, entry |-> {},
   slow |-> FALSE]

Input(config_) == [c |-> config_, caps |-> NoEspi]

With(field, value) == [Base EXCEPT ![field] = value]

----------------------------------------------------------------------------
(* Time point 1 *)

DeviceMaps == {{5, 6, 7}, {8, 9, 10}, {11, 16}, {12, 26}, {8, 11, 12}}

UsbInputs ==
  {[UsbOn EXCEPT ![f] = ~@] : f \in {"Xhci0Enable", "XhciECCDedErrRptEn", "XhciOcPolarityCfgLow",
                                            "UsbSparseModeEnable"}}
  \cup {[UsbOn EXCEPT !.Xhci0Enable = FALSE, !.Xhci1Enable = FALSE],
        [UsbOn EXCEPT !.Usb3PortForceGen1 = {1, 2}, !.XhciOcPolarityCfgLow = TRUE],
        [UsbOn EXCEPT !.Xhci0DevRemovable = {0, 3, 17, 18}, !.tableVersion = <<\h0D, \h10>>]}

SataOn(more) == more @@ DefaultSata

SataInputs ==
  {[n \in Controllers |-> IF n \in on THEN SataOn([SataClass |-> "SataRaid", SataRaidSsid |-> 5])
                          ELSE SataOff] : on \in SUBSET Controllers}
  \cup {[n \in Controllers |-> IF n = m THEN SataOn([SataSgpio0 |-> TRUE]) ELSE SataOff] :
           m \in Controllers}
  \cup {[n \in Controllers |-> SataOn([SataEspPort |-> 3, SataSgpio0 |-> n = 0, SataDevSlpPort0 |-> TRUE,
                                       SataDevSlpPort1 |-> TRUE, SataDevSlpPort1Num |-> 1, SataAhciSsid |-> 9])]}
  \cup {[n \in Controllers |-> SataOn([SataDevSlpPort0 |-> on])] : on \in BOOLEAN}

Tp1Configs ==
  {DefaultC, Base}
  \cup {With(f, ~Base[f]) : f \in Flags}
  \cup {With("FchDeviceEnableMap", m) : m \in DeviceMaps}
  \cup {With("usb", u) : u \in UsbInputs}
  \cup {With("sata", s) : s \in SataInputs}
  \cup {With("CfgFchSciMapControl", <<<<\h50, 7>>, <<\h41, 9>>, <<\h90, 3>>, <<\h52, \h20>>>>),
        With("OemProgrammingTable", <<Signature, <<PM, \hF8, 0, \h12>>, EndRow>>),
        With("sleepType", ACPI_SLPTYP_S3), With("PwrFailShadow", 3), With("AcpiPmTmrBlkAddr", 0),
        [Base EXCEPT !.SpiSpeed = 5, !.WriteSpeed = 3, !.SpiTpmSpeed = 4, !.SmbusSsid = 8],
        [Base EXCEPT !.externalClock = TRUE, !.sscAlready = TRUE],
        [Base EXCEPT !.CfgFchRtcWorkAround = TRUE, !.rtcSecond = \h61],
        [Base EXCEPT !.FchDeviceEnableMap = {8, 12}, !.alreadyUp = {\h8},
                         !.sata = [n \in Controllers |-> SataOn([SataSgpio0 |-> n = 3])]]}

----------------------------------------------------------------------------
(* Calls *)

Call(name) == With("call", name)

LateConfigs ==
  {[Call("Late") EXCEPT !.StressResetMode = m] : m \in 0 .. 4}
  \cup {[Call("Late") EXCEPT !.AcDcMsg = TRUE, !.GcpuMsgCStage = TRUE, !.CppcSupport = TRUE]}

MultiConfigs ==
  {Call("MultiFch")}
  \cup {[Call("MultiFch") EXCEPT ![f] = ~@] :
          f \in {"reserved", "abBlock", "sataBlock", "XdmaDmaWrite16ByteMode", "AbMemoryPowerSaving"}}

OtherCalls ==
  {[Call("DisablePort") EXCEPT !.usb2Disable = {0, 3}, !.usb3Disable = {2}],
   [Call("Uart") EXCEPT !.FchDeviceEnableMap = {11, 12}],
   [Call("Uart") EXCEPT !.FchDeviceEnableMap = {5, 16, 26}]}
  \cup {[Call("Espi") EXCEPT !.EspiEnable = FALSE, !.alreadyUp = on] : on \in {{}, {FCH_AOAC_ESPI}}}
  \cup {[Call("Espi") EXCEPT !.EspiEc0Enable = FALSE, !.EspiIo80Enable = TRUE, !.EspiKbc6064Enable = TRUE]}

EspiCaps(device_, entry, slow) ==
  [master |-> Channels, device |-> device_, masterIo |-> "quad", deviceIo |-> {"single", "dual", "quad"},
   entry |-> entry, slow |-> slow]

EspiInputs ==
  {EspiCaps(d, {}, FALSE) : d \in SUBSET Channels}
  \cup {EspiCaps({"VW"}, e, FALSE) : e \in SUBSET Channels}
  \cup {EspiCaps({"VW"}, e, TRUE) : e \in {{}, {"FA", "VW"}, {"PC"}}}
  \cup {[EspiCaps({"VW", "PC"}, {}, FALSE) EXCEPT !.masterIo = "dual", !.deviceIo = d] :
          d \in {{"single", "dual"}, {"single", "quad"}}}

EspiOn == [Call("Espi") EXCEPT !.alreadyUp = {FCH_AOAC_ESPI}]

----------------------------------------------------------------------------

MCInputs ==
  {Input(x) : x \in Tp1Configs \cup LateConfigs \cup MultiConfigs \cup OtherCalls}
  \cup {[c |-> EspiOn, caps |-> e] : e \in EspiInputs}
=============================================================================
