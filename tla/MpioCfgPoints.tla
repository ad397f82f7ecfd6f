---------------------------- MODULE MpioCfgPoints ----------------------------
(***************************************************************************)
(* What the configuration points of MPIO's initialisation program:         *)
(* MpioCfgPoints.c of Genoa.                                               *)
(*                                                                         *)
(* Two kinds of state are programmed.  Straps are numbered; the straps of  *)
(* port p of a PCIe core are those of port 0 moved by p strides.  Register *)
(* fields are named by the number of their mask (SIL_RESERVED_n), the      *)
(* requester id and the slot bit by that of their register.  Every         *)
(* operator gives the writes of a piece of the code as a function from     *)
(* straps, or from fields, to the values that stay.                        *)
(*                                                                         *)
(* p: the port's number; e: its settings (PCIe_ENGINE_CONFIG); w: its      *)
(* wrapper's; sil: the host's input block; soc: what is known of the SoC.  *)
(***************************************************************************)
EXTENDS Registers, FiniteSets

\* Straps of a port, as MpioPcieStraps.h numbers them for port 0.
PortStraps ==
  834 :> \hfd @@ 855 :> \h112 @@ 880 :> \h11d @@ 850 :> \h11f @@ 843 :> \h127 @@ 859 :> \h128
  @@ 862 :> \h12d @@ 863 :> \h12e @@ 864 :> \h12f @@ 861 :> \h130 @@ 866 :> \h132
  @@ 865 :> \h133 @@ 860 :> \h139 @@ 871 :> \h157 @@ 847 :> \h15a @@ 894 :> \h15d
  @@ 895 :> \h15e @@ 891 :> \h15f @@ 892 :> \h160 @@ 840 :> \h169 @@ 875 :> \h174
  @@ 839 :> \h177 @@ 867 :> \h17f @@ 845 :> \h180 @@ 882 :> \h183 @@ 874 :> \h184
  @@ 846 :> \h186 @@ 856 :> \h189 @@ 857 :> \h198 @@ 858 :> \h19e

\* Straps of a PCIe core; the code gives 883 a port as well.
CoreStraps ==
  838 :> \h6 @@ 844 :> \h13 @@ 870 :> \h15 @@ 873 :> \h17 @@ 868 :> \h21 @@ 849 :> \h4c
  @@ 848 :> \h4d @@ 841 :> \h5f @@ 869 :> \h61 @@ 886 :> \h63 @@ 836 :> \h77 @@ 837 :> \h7d
  @@ 872 :> \h89 @@ 883 :> \ha3 @@ 842 :> \hbb @@ 885 :> \hc3 @@ 884 :> \hc4 @@ 876 :> \hc5
  @@ 878 :> \hc6 @@ 877 :> \hc7 @@ 879 :> \hc8 @@ 851 :> \hc9 @@ 853 :> \hca @@ 852 :> \hcb
  @@ 854 :> \hcc @@ 887 :> \he6 @@ 889 :> \he7 @@ 890 :> \he8 @@ 888 :> \hf2

\* Straps from one port to the next.
SIL_RESERVED_881 == \h1a0 - \hfd

(* Mutant of PORT_STRAP_INDEX: the port's number is added without the stride. *)
PORT_STRAP_INDEX_NoStride(n, p) == (PortStraps @@ CoreStraps)[n] + p

PORT_STRAP_INDEX(n, p) == (PortStraps @@ CoreStraps)[n] + p * SIL_RESERVED_881

Core(n) == CoreStraps[n]

Port(n, p) == PORT_STRAP_INDEX(n, p)

\* WritePcieStrap: where MPIO puts a strap.  The first revision lacks two straps.
AX(soc) == soc.LogicalIdFound /\ soc.AX

StrapIndexAdjusted(index, soc) == IF AX(soc) /\ index >= \hA8 THEN index - 2 ELSE index

InstanceNumber(rb, WrapId) == IF rb + WrapId * 4 > 9 THEN 9 ELSE rb + WrapId * 4

-----------------------------------------------------------------------------
(* Before the reconfiguration, for a port                                  *)

TenBitTag(p, e) ==
  When(e.TenBitTagSupport \in {1, 3}, Port(891, p) :> 1)
  ++ When(e.TenBitTagSupport \in {2, 3}, Port(892, p) :> 1)

DataLinkFeature(p, e) ==
  When(e.DataLinkFeature = 0, Core(844) :> 1 @@ Port(867, p) :> 1)
  ++ When(e.DataLinkFeature = 1, Core(844) :> 1 @@ Port(867, p) :> 0)
  ++ When(e.DataLinkFeature = 2, Core(844) :> 0)
  ++ When(e.DataLinkFeatureExchangeControl \in {0, 1},
          Port(845, p) :> e.DataLinkFeatureExchangeControl)

\* Compliance: only when the logical id was not found, and from what it holds then.
ComplianceAndPayload(p, e, sil, soc) ==
  When(~soc.LogicalIdFound, Port(840, p) :> IF soc.AX THEN 1 ELSE sil.AmdAllowCompliance)
  ++ When(e.MaxPayloadSupport # 15, Port(871, p) :> e.MaxPayloadSupport)

\* Lane equalisation is the core's: the last port of the core decides.
LaneEqualization(e) ==
  Core(876) :> e.DsRxPresetHint3 @@ Core(878) :> e.UsRxPresetHint3
  @@ Core(877) :> e.DsTxPreset3 @@ Core(879) :> e.UsTxPreset3
  @@ Core(851) :> e.DsTxPreset4 @@ Core(853) :> e.UsTxPreset4
  @@ Core(852) :> e.DsTxPreset5 @@ Core(854) :> e.UsTxPreset5

PcieGen5 == 5

PcieGenMaxSupported == 0

Gen5AndAspm(p, e, rb, WrapId) ==
  When(e.LinkSpeedCapability \in {PcieGen5, PcieGenMaxSupported}, Port(860, p) :> e.PrecodeRequest)
  ++ When(rb % 2 = 0 /\ WrapId = 2, Port(855, p) :> 0)
  ++ (Port(880, p) :> 2 * Bits(e.AspmCapability, 1, 1))
  ++ When(e.AspmL1_2 = 1, Port(839, p) :> 1 @@ Port(875, p) :> 1)
  ++ When(e.AspmL1_1 = 1, Port(839, p) :> 1)
  ++ When(e.DownstreamPortContainment # 0, Port(846, p) :> e.DownstreamPortContainment)

FirmwareFirstHotplug == {"ServerEntSSD", "UBM", "OCP"}

HotplugSrisSpc(p, e, sil) ==
  When(sil.AmdHotPlugHandlingMode = 5 /\ e.LinkHotplug \in FirmwareFirstHotplug,
       Port(883, p) :> 1 @@ Port(882, p) :> 1 @@ Port(874, p) :> 1)
  ++ (Core(869) :> Bit(e.RxMarginPersistence = 0))
  ++ When(e.SrisEnableMode = 1, Port(866, p) :> Bit(e.SrisAutoDetectMode # 1))
  ++ When(e.SrisAutoDetectMode = 1, Port(865, p) :> 1)
  ++ (Port(862, p) :> e.SpcGen1 @@ Port(863, p) :> e.SpcGen2
      @@ Port(864, p) :> e.SpcGen3 @@ Port(861, p) :> e.SpcGen4 @@ Port(847, p) :> 1)
  ++ When(e.TXDeEmphasis # 15, Port(843, p) :> e.TXDeEmphasis)

CxlStraps(p) ==
  Port(859, p) :> 1 @@ Port(857, p) :> 1 @@ Port(858, p) :> \h40F @@ Port(856, p) :> 1

\* CxlControl of an engine once the callback has seen it.
CxlControl(e, sil, WrapId) == IF sil.AmdCxlOnAllPorts /\ WrapId = 0 THEN 1 ELSE e.CxlControl

\* The straps MpioCfgBeforeReconfigCallback writes for an allocated engine.
MpioCfgBeforeReconfigCallback(p, e, rb, WrapId, sil, soc) ==
  TenBitTag(p, e) ++ DataLinkFeature(p, e) ++ ComplianceAndPayload(p, e, sil, soc)
  ++ LaneEqualization(e) ++ Gen5AndAspm(p, e, rb, WrapId) ++ HotplugSrisSpc(p, e, sil)
  ++ When(CxlControl(e, sil, WrapId) # 0, CxlStraps(p))

\* The first of 42 coefficients (masks 297 to 379), none of which is ever set, stands
\* for all.
ProgramFapeCoeffList == 297 :> 0

\* The port's registers the same callback writes.
BeforeReconfigRegisters(e, sil, soc) ==
  When(e.DynLanesPwrState # 15,
       387 :> Bits(e.DynLanesPwrState, 0, 1) @@ 391 :> Bits(e.TurnOffUnusedLanes, 0, 0))
  ++ (289 :> e.DisGen3EQPhase @@ 269 :> e.DisGen4EQPhase @@ 279 :> e.DisGen5EQPhase)
  ++ When(~soc.LogicalIdFound /\ ~soc.AX, 393 :> Bit(sil.CxlTempGen5AdvertAltPtcl))
  ++ (295 :> e.LcFapeEnable8GT @@ 291 :> e.LcFapeEnable16GT @@ 293 :> e.LcFapeEnable32GT
      @@ 768 :> e.ForceSteering)
  ++ ProgramFapeCoeffList

-----------------------------------------------------------------------------
(* Before the reconfiguration, for a wrapper, after its engines            *)

EcrcStraps(ECRCSupport) ==
  LET gen == 849 :> 1 @@ 890 :> 1
      chk == 848 :> 1 @@ 889 :> 1
      by == CASE ECRCSupport = 1 -> gen
              [] ECRCSupport = 2 -> chk
              [] ECRCSupport = 3 -> gen @@ chk
              [] OTHER -> Each({849, 890, 848, 889}, 0)
  IN [i \in {Core(n) : n \in DOMAIN by} |-> by[CHOOSE n \in DOMAIN by : Core(n) = i]]

MpioCfgWrapperBeforeBifurcation(w, IsCxl, sil) ==
  When(IsCxl, Core(842) :> 1)
  ++ (Core(841) :> Bit(sil.CfgAEREnable) @@ Core(872) :> Bit(sil.CfgMcCapEnable \/ sil.CfgAEREnable))
  ++ Each(Core(836)..Core(837), w.AcsSupport)
  ++ (Core(888) :> w.AriForwarding @@ Core(870) :> w.LaneMargining
      @@ Core(873) :> w.NativePCIeEnclosureManagement
      @@ Core(838) :> w.AdvancedErrorReporting @@ Core(887) :> w.AdvancedErrorReporting)
  ++ EcrcStraps(w.ECRCSupport)
  ++ (Core(868) :> w.LtrSupport @@ Core(886) :> Bit(sil.SurpriseDownFeature))

WrapperBeforeRegisters(w, IsCxl, s, sil) ==
  When(IsCxl, 229 :> Bit(sil.CxlCorrectableErrorLogging)
              @@ 231 :> Bit(sil.CxlUnCorrectableErrorLogging))
  ++ (1092 :> Bit(sil.CfgRcvErrEnable))
  ++ When(sil.EarlyBmcLinkTraining /\ s = sil.EarlyBmcLinkSocket
            /\ sil.EarlyBmcLinkLaneNum \in w.StartPhyLane..w.EndPhyLane,
          423 :> Bit(w.AdvancedErrorReporting # 0) @@ 421 :> 1)

-----------------------------------------------------------------------------
(* After the reconfiguration                                               *)

\* -1: 0xFFFFFFFF, not given.
Mask(allPorts, own) == IF allPorts = -1 THEN own ELSE allPorts

FixedPreset(given, enable, field, value) == When(given = 1, enable :> 1 @@ field :> value)

MpioCfgAfterReconfigCallback(e, sil) ==
  (283 :> e.EqSearchMode @@ 263 :> e.EqSearchModeGen4 @@ 273 :> e.EqSearchModeGen5
   @@ 281 :> e.BypassGen3EQ @@ 261 :> e.BypassGen4EQ @@ 271 :> e.BypassGen5EQ
   @@ 401 :> Mask(sil.AmdPciePresetMask8GtAllPort, e.LcPresetMask8Gt)
   @@ 397 :> Mask(sil.AmdPciePresetMask16GtAllPort, e.LcPresetMask16Gt)
   @@ 399 :> Mask(sil.AmdPciePresetMask32GtAllPort, e.LcPresetMask32Gt))
  ++ FixedPreset(e.SetGen3FixedPreset, 285, 287, e.Gen3FixedPreset)
  ++ FixedPreset(e.SetGen4FixedPreset, 265, 267, e.Gen4FixedPreset)
  ++ FixedPreset(e.SetGen5FixedPreset, 275, 277, e.Gen5FixedPreset)
  ++ (1509 :> e.AutoSpdChngEn
      @@ 1507 :> Bit(sil.LcMultAutoSpdChgOnLastRateEnable)
      @@ 212 :> Bit(e.AdvertiseEqToHiRate = 0))
  ++ When(e.CxlControl # 0,
          52 :> 1 @@ 214 :> 2 @@ 60 :> 1 @@ 56 :> 1 @@ 58 :> Bit(sil.SyncHeaderByPass))

MpioCfgWrapperAfterBifurcation(sil) ==
  When(sil.AmdRxMarginEnabled, 419 :> 1 @@ 415 :> \h10 @@ 413 :> \h19 @@ 417 :> \hF)
  ++ When(sil.CfgNbioCTOtoSC, 223 :> 1)
  ++ When(sil.CfgNbioCTOIgnoreError, 221 :> 1)

-----------------------------------------------------------------------------
(* After the training                                                      *)

PcieCommonCoreConfiguration(WrapId, sil) ==
  LET AtomicOps == IF WrapId = 0 THEN sil.GppAtomicOps ELSE sil.GfxAtomicOps
  IN 425 :> AtomicOps @@ 427 :> AtomicOps @@ 225 :> 0 @@ 227 :> 1 @@ 429 :> 0 @@ 431 :> 1
     @@ 433 :> 0 @@ 411 :> Bit(~sil.AmdNbioReportEdbErrors) @@ 409 :> 1

\* A port whose link is up or may come up later.
Used(e) ==
  e.InitStatus = "SUCCESS" \/ e.LinkHotplug \notin {"Disabled", "Inboard"}

SlotRegisters(e) == 507 :> 1 @@ 486 :> e.SlotNum

Debug(sil) == Bits(sil.SrisCfgType, 1, 2) # 0

\* What a port supports of the lower SKP rates (a 5-bit mask), given the highest
\* generation its capability register shows.
LowerSkp(value, supported) == IF value <= supported THEN value ELSE supported

SrisStraps(p, e, sil, supported) ==
  LET Lower(value) == IF e.SrisAutoDetectMode # 1 /\ Debug(sil) THEN LowerSkp(value, supported) ELSE 0
  IN When(e.SrisEnableMode = 1 \/ e.SrisAutoDetectMode = 1,
          Port(894, p) :> Lower(e.LowerSkpOsGenSup) @@ Port(895, p) :> Lower(e.LowerSkpOsRcvSup))
     ++ (Port(850, p) :> 7)

SrisRegisters(e, sil) ==
  When(e.SrisAutoDetectMode = 1,
       258 :> e.SrisSkpIntervalSel @@ 256 :> e.SrisAutodetectFactor @@ 255 :> 1)
  ++ When(e.SrisAutoDetectMode # 1 /\ e.SrisEnableMode = 1,
          260 :> 1 @@ When(Debug(sil), 442 :> e.SrisSkipInterval))

EngineRegisters(e, bus, sil) ==
  531 :> <<bus, e.DeviceNumber, e.FunctionNumber>>
  @@ 490 :> e.SlotPowerLimit @@ 488 :> e.SlotPowerLimitScale @@ SlotRegisters(e)
  @@ 54 :> 6 @@ 241 :> 1 @@ 385 :> 1 @@ 389 :> 1 @@ 243 :> 1 @@ 245 :> 0 @@ 440 :> 0
  @@ 1505 :> 1 @@ 407 :> 1 @@ 216 :> e.TXMargin @@ 247 :> Bits(e.L1PowerDown, 0, 0)
  @@ 381 :> Bits(e.L11PowerDown, 0, 2) @@ 383 :> Bits(e.L12PowerDown, 0, 2)
  @@ SrisRegisters(e, sil)
  @@ 249 :> e.SpcGen1 @@ 251 :> e.SpcGen2 @@ 253 :> e.SpcGen3

\* PcieCommonEngineConfiguration: the registers of every port p of the core.  A port
\* that is only exposed has its slot described at the port number modulo 8.
PcieCommonEngineConfiguration(own, e, bus, sil, p) ==
  When(Used(e) /\ p = own, EngineRegisters(e, bus, sil))
  ++ When(~Used(e) /\ e.InitStatus = "ALWAYS_EXPOSE" /\ p = own % 8, SlotRegisters(e))
  ++ When(sil.CfgPcieCVTestWA /\ e.Gen3Capable /\ p = own, 245 :> 0)

-----------------------------------------------------------------------------
(* Root bridges                                                            *)

\* Subsystem numbers: those of the on-chip devices are root bridge 0's.
SubsystemIdSetting(rb, sil) ==
  LET Ids(names) == [x \in {n \in names : sil[n] # 0} |-> sil[x]]
  IN Ids({"CfgNbioSsid", "CfgIommuSsid"})
     ++ When(rb = 0, Ids({"CfgPspccpSsid", "CfgNtbccpSsid", "CfgNbifF0Ssid", "CfgNtbSsid"}))

\* The straps it writes, for wrappers 0 and 1.
SubsystemStraps(sil) ==
  When(sil.AmdPcieSubsystemDeviceID # 0, Core(884) :> sil.AmdPcieSubsystemDeviceID)
  ++ When(sil.AmdPcieSubsystemVendorID # 0, Core(885) :> sil.AmdPcieSubsystemVendorID)

\* The bus ranges of all root bridges, as root bridge me sees them: its own is not
\* a VDM node.
VdmNodes(me, rbs, buses) ==
  [rb \in rbs |-> [base |-> buses[rb][1], limit |-> buses[rb][2], present |-> Bit(rb # me)]]

InitBusRangesAndAri(me, rbs, buses, sil) ==
  [vdm |-> VdmNodes(me, rbs, buses)] ++ SubsystemIdSetting(me[2], sil)
  ++ When(sil.CfgPcieAriSupport, [IOHC_ARI_SUPPORTED |-> 1])

\* SET_GLOBAL_CONFIG's arguments: what differs from the block MPIO gives.
MpioCfgGlobalConfig(sil) ==
  When(sil.CfgDxioClockGating, [PWRMNGMT_PRFRM_CLK_GATING |-> 1])
  ++ When(sil.PcieDxioTimingControlEnable,
          [LinkReceiverDetectionPolling |-> sil.PCIELinkReceiverDetectionPolling,
           LinkResetToTrainingTime |-> sil.PCIELinkResetToTrainingTime,
           LinkL0Polling |-> sil.PCIELinkL0Polling])
  ++ When(sil.PCIeExactMatchEnable, [matchPortSizeExactly |-> 1])
  ++ When(sil.DxioPhyValid = 0, [ValidPhyFWFlag |-> 0])
  ++ When(sil.DxioPhyProgramming = 0, [usePhySram |-> 0])
  ++ When(sil.CfgSkipPspMessage = 1, [skipVetting |-> 1])
  ++ When(sil.DxioSaveRestoreModes = 1, [saverestoremode |-> 1])
  ++ [disableSbrTrap |-> Bit(~sil.SbrBrokenLaneAvoidanceSup),
      disableLaneMarginingTrap |-> Bit(~sil.AutoFullMarginSup)]
=============================================================================
