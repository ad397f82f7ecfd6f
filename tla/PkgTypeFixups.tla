---------------------------- MODULE PkgTypeFixups ----------------------------
(***************************************************************************)
(* The settings a PCIe engine (a port) and a wrapper (a PCIe core) have    *)
(* before the platform's topology is looked at: PkgTypeFixups.c, called by *)
(* NbioPcie.c once the complex data of all root bridges is copied.         *)
(*                                                                         *)
(* Settings are records with the names of PCIe_ENGINE_CONFIG and           *)
(* PCIe_WRAPPER_CONFIG; of LaneEqualizationCntl, Gen4... and Gen5... the   *)
(* generation becomes a suffix of the member's name.  Settings nothing     *)
(* reads are left out.                                                     *)
(***************************************************************************)
EXTENDS Registers, Sequences

WAFL_WRAP_ID == 2

StartDxioLaneSP5 == <<0, 96, 32, 64, 48, 112, 16, 80>>

CoreReversedSP5 == <<0, 1, 0, 1, 1, 0, 1, 0>>

PcieEngineConfigDefaults ==
  [SlotPowerLimit |-> 75, SlotPowerLimitScale |-> 0, TXDeEmphasis |-> 0, TXMargin |-> 0]
  ++ Each({"EqSearchMode"}, 1) ++ Each({"EqSearchModeGen4", "EqSearchModeGen5"}, 0)
  ++ Each({"BypassGen3EQ", "BypassGen4EQ", "BypassGen5EQ", "DisGen3EQPhase",
           "DisGen4EQPhase", "DisGen5EQPhase", "Gen3FixedPreset", "Gen4FixedPreset",
           "Gen5FixedPreset", "SetGen3FixedPreset", "SetGen4FixedPreset",
           "SetGen5FixedPreset"}, 0)
  ++ [SpcGen1 |-> 0, SpcGen2 |-> 0, SpcGen3 |-> 1, SpcGen4 |-> 2]
  ++ [DsTxPreset3 |-> 7, DsRxPresetHint3 |-> 3, UsTxPreset3 |-> 7, UsRxPresetHint3 |-> 3,
      DsTxPreset4 |-> 7, UsTxPreset4 |-> 5, DsTxPreset5 |-> 0, UsTxPreset5 |-> 0]
  ++ [SrisEnableMode |-> 15, SrisAutoDetectMode |-> 15, SrisSkipInterval |-> 0,
      SrisSkpIntervalSel |-> 1, SrisAutodetectFactor |-> 0,
      LowerSkpOsGenSup |-> 0, LowerSkpOsRcvSup |-> 0]
  ++ [CxlControl |-> 0, AlwaysExpose |-> 0, RxMarginPersistence |-> 1,
      MaxPayloadSupport |-> 2, AspmCapability |-> 3, AspmL1_1 |-> 0, AspmL1_2 |-> 0,
      TenBitTagSupport |-> 3, DataLinkFeature |-> 0, DownstreamPortContainment |-> 1,
      DataLinkFeatureExchangeControl |-> 0, DynLanesPwrState |-> 0, L1PowerDown |-> 0,
      L11PowerDown |-> 0, L12PowerDown |-> 0, AutoSpdChngEn |-> 0, TurnOffUnusedLanes |-> 0]
  ++ Each({"LcFapeEnable8GT", "LcFapeEnable16GT", "LcFapeEnable32GT"}, 0)

\* nbio: the host's NBIO_CONFIG_DATA.
PcieEnginePlatformConfigDefault(nbio) ==
  [RxMarginPersistence |-> nbio.CfgRxMarginPersistenceMode, L1PowerDown |-> 0]
  ++ Each({"EqSearchMode", "EqSearchModeGen4", "EqSearchModeGen5"}, 3)
  ++ [DataLinkFeature |-> IF nbio.DlfCapEn THEN 0 ELSE 2,
      DataLinkFeatureExchangeControl |-> nbio.DlfExEn,
      AutoSpdChngEn |-> nbio.CfgAutoSpeedChangeEnable,
      DsTxPreset5 |-> 7, UsTxPreset3 |-> 4, UsTxPreset4 |-> 4, UsTxPreset5 |-> 4,
      PrecodeRequest |-> nbio.PrecodeRequestEnable,
      AdvertiseEqToHiRate |-> IF nbio.PcieSpeedControl # 15 THEN 0
                              ELSE nbio.AdvertiseEqToHighRateSupport,
      LcPresetMask8Gt |-> \h370, LcPresetMask16Gt |-> \h370, LcPresetMask32Gt |-> \h78,
      ForceSteering |-> IF nbio.FabricSdci THEN 0 ELSE 1]

\* An engine after PcieFixupComplexDefaults and PcieFixupPlatformConfig; in the
\* complex data its lanes are unused, its functions 0 and hot plug disabled.
FixedUpEngine(nbio) ==
  [LinkHotplug |-> "Disabled", LinkSpeedCapability |-> 0, LinkAspm |-> 0, SlotNum |-> 0,
   DeviceNumber |-> 0, FunctionNumber |-> 0, allocated |-> FALSE, PortPresent |-> 0]
  ++ PcieEngineConfigDefaults ++ PcieEnginePlatformConfigDefault(nbio)

\* The lanes of a wrapper of an SP5 package: its place in the tables is the
\* root bridge's number doubled plus the wrapper's; the WAFL wrappers have the
\* bonus lanes.
PcieFixupPlatformConfigSP5(rb, WrapId, nbio) ==
  LET index == 2 * rb + WrapId + 1
      start == IF WrapId # WAFL_WRAP_ID THEN StartDxioLaneSP5[index]
               ELSE IF rb = 0 THEN 132 ELSE 128
  IN [StartDxioLane |-> start, StartPhyLane |-> start,
      EndDxioLane |-> start + (IF WrapId # WAFL_WRAP_ID THEN 15 ELSE 3),
      EndPhyLane |-> start + (IF WrapId # WAFL_WRAP_ID THEN 15 ELSE 3),
      CoreReversed |-> IF WrapId # WAFL_WRAP_ID THEN CoreReversedSP5[index] ELSE 0,
      AcsSupport |-> Bit(nbio.CfgACSEnable), LtrSupport |-> Bit(nbio.CfgPCIeLTREnable),
      AriForwarding |-> Bit(nbio.CfgPcieAriSupport), LaneMargining |-> 1,
      NativePCIeEnclosureManagement |-> 1,
      AdvancedErrorReporting |-> Bit(nbio.CfgAEREnable),
      ECRCSupport |-> IF nbio.PcieEcrcEnablement THEN 3 ELSE 0]
=============================================================================
