------------------------------ MODULE MCMpioDxio ------------------------------
(***************************************************************************)
(* Instances of MpioDxio: two sockets, seven engines in four PCIe cores,   *)
(* one of them reversed and one with the bonus lanes, and room for two DPC *)
(* records.  The host's inputs combine topologies with settings.           *)
(***************************************************************************)
EXTENDS MpioDxio

P0 == <<0, 0, 0, 0>>
P1 == <<0, 0, 0, 1>>
P8 == <<0, 0, 0, 8>>
Bonus == <<0, 0, 2, 0>>
Far == <<1, 0, 1, 0>>
Far3 == <<1, 0, 1, 3>>
Sata == <<1, 1, 0, 0>>

MCEngines == {P0, P1, P8, Bonus, Far, Far3, Sata}

Entry(e, type, first, last, params, data) ==
  [engine |-> e, EngineType |-> type, lanes |-> <<first, last>>, PortParams |-> params,
   Port |-> MPIO_PORT_DATA, Phy |-> <<>>, AncData |-> data]

Present == <<"PortPresent", 1>>

MCSil ==
  Each({"PcieLinkComplianceModeAllPorts", "AmdCxlOnAllPorts", "CxlTempGen5AdvertAltPtcl",
        "CfgMcCapEnable", "CxlCorrectableErrorLogging", "CxlUnCorrectableErrorLogging",
        "CfgRcvErrEnable", "EarlyBmcLinkTraining", "LcMultAutoSpdChgOnLastRateEnable",
        "CfgNbioCTOtoSC", "CfgNbioCTOIgnoreError", "CfgDxioClockGating", "PcieDxioTimingControlEnable",
        "PCIeExactMatchEnable", "SbrBrokenLaneAvoidanceSup", "AutoFullMarginSup",
        "AmdNbioReportEdbErrors"}, FALSE)
  ++ Each({"CfgAEREnable", "SurpriseDownFeature", "SyncHeaderByPass", "AmdRxMarginEnabled",
           "CfgPcieCVTestWA", "CfgPcieAriSupport", "MPIOAncDataSupport"}, TRUE)
  ++ Each({"CfgForcePcieGenSpeed", "CfgSataPhyTuning", "AmdAllowCompliance", "EarlyBmcLinkSocket",
           "EarlyBmcLinkLaneNum", "CfgNbioSsid", "CfgIommuSsid", "CfgPspccpSsid", "CfgNtbccpSsid",
           "CfgNbifF0Ssid", "CfgNtbSsid", "AmdPcieSubsystemDeviceID", "AmdPcieSubsystemVendorID",
           "CfgSkipPspMessage", "DxioSaveRestoreModes", "SrisCfgType", "SrisSkipInterval",
           "LowerSkpOsGenSup", "LowerSkpOsRcvSup", "SrisSkpIntervalSel", "SrisAutodetectFactor",
           "PCIELinkReceiverDetectionPolling", "PCIELinkResetToTrainingTime", "PCIELinkL0Polling"}, 0)
  ++ Each({"DxioPhyValid", "DxioPhyProgramming", "GppAtomicOps", "GfxAtomicOps"}, 1)
  ++ Each({"AmdPciePresetMask8GtAllPort", "AmdPciePresetMask16GtAllPort",
           "AmdPciePresetMask32GtAllPort"}, -1)
  ++ Each({"SrisEnableMode", "SrisAutoDetectMode", "PcieLinkAspmAllPort"}, \hFF)
  ++ [AmdHotPlugHandlingMode |-> 5, AmdCfgExposeUnusedPciePorts |-> 2]

MCNbio ==
  Each({"CfgACSEnable", "CfgPCIeLTREnable", "CfgPcieAriSupport", "CfgAEREnable",
        "PcieEcrcEnablement", "DlfCapEn", "FabricSdci"}, TRUE)
  ++ [CfgRxMarginPersistenceMode |-> 1, DlfExEn |-> 1, CfgAutoSpeedChangeEnable |-> 1,
      PrecodeRequestEnable |-> 1, PcieSpeedControl |-> 15, AdvertiseEqToHighRateSupport |-> 0]

\* The platforms: the ports of socket 0, of socket 1, alone and together.
Slot0 == Entry(P0, "PCIe", 0, 7, <<Present, <<"SlotNum", 3>>, <<"LinkSpeedCapability", 4>>,
                <<"DsTxPreset3", 5>>, <<"LinkSpeedCapability", 3>>, <<"PhyParam", 9>>>>,
               <<<<PHY, 1>>, <<PHY, 2>>, <<SPEED, 3>>>>)
Slot1 == Entry(P1, "PCIe", 15, 8, <<Present, <<"LinkHotplug", "ServerEntSSD">>, <<"DsTxPreset3", 6>>,
                <<"Gen3FixedPreset", 2>>, <<"PresetMask8Gt", 1025>>>>, <<>>)
Slot8 == Entry(P8, "PCIe", 15, 12, <<Present, <<"AlwaysExpose", 1>>, <<"SlotNum", 8>>,
                <<"DsTxPreset3", 5>>, <<"PresetMask8Gt", 7>>>>, <<<<SPEED, 4>>>>)
Bmc == Entry(Bonus, "PCIe", 132, 132, <<Present, <<"SbLink", 1>>, <<"DsTxPreset4", 2>>>>, <<<<PHY, 5>>>>)
Connector == Entry(P1, "UBMHFC", 8, 15, <<>>, <<>>)
Outside == Entry(Far, "PCIe", 200, 203, <<Present>>, <<<<PHY, 6>>>>)
FarSlot == Entry(Far, "PCIe", 96, 103, <<Present, <<"LinkHotplug", "OCP">>, <<"TargetLinkSpeed", 2>>,
                <<"DsTxPreset4", 4>>, <<"UbmHfcIndex", 1>>, <<"UbmHfcIndex", 2>>, <<"UbmDfcIndex", 3>>>>,
               <<<<PHY, 7>>, <<SPEED, 8>>>>)
FarSlot3 == Entry(Far3, "PCIe", 111, 104, <<Present, <<"DsTxPreset4", 4>>, <<"Gen3FixedPreset", 7>>,
                <<"LinkSpeedCapability", 5>>>>, <<>>)
FarSata == Entry(Sata, "SATA", 32, 35, <<>>, <<<<PHY, 9>>>>)

Topologies ==
  {<<a, b>> : a \in {<<Slot0, Slot1>>, <<Slot0, Slot8>>, <<Bmc, Slot1>>, <<Slot0, Connector>>,
                     <<Slot0, Slot1, Bmc>>},
              b \in {<<FarSlot>>, <<FarSlot, FarSlot3>>, <<Outside>>, <<Outside, FarSata, FarSlot3>>}}

Settings ==
  {MCSil, MCSil ++ [PcieLinkComplianceModeAllPorts |-> TRUE, AmdPciePresetMask8GtAllPort |-> 3,
             AmdCfgExposeUnusedPciePorts |-> 1],
   MCSil ++ [CfgForcePcieGenSpeed |-> 2, AmdCxlOnAllPorts |-> TRUE, PcieLinkAspmAllPort |-> 2],
   MCSil ++ [AmdPcieSubsystemDeviceID |-> 12, SrisEnableMode |-> 1, SrisAutoDetectMode |-> 1,
             AmdCfgExposeUnusedPciePorts |-> 0],
   MCSil ++ [MPIOAncDataSupport |-> FALSE]}

Socs == {[LogicalIdFound |-> TRUE, AX |-> TRUE], [LogicalIdFound |-> FALSE, AX |-> FALSE]}

MCInputs ==
  {[topology |-> [s \in {0, 1} |-> t[s + 1]], sil |-> setting, nbio |-> MCNbio, soc |-> soc,
    buses |-> [rb \in {<<0, 0>>, <<1, 0>>, <<1, 1>>} |-> <<32 * rb[1] + 16 * rb[2], 32 * rb[1] + 16 * rb[2] + 15>>],
    gen3 |-> {P0, Far}, dpc |-> pending, supported |-> 3]
     : t \in Topologies, setting \in Settings, soc \in Socs, pending \in {{P0, Bonus}, {P0, P8, Sata}}}
=============================================================================
