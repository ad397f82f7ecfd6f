---------------------------- MODULE MpioTopology ----------------------------
(***************************************************************************)
(* The platform's topology on its way to the PCIe engines:                 *)
(* MpioTopology.c (parameters override the entry), the workarounds of      *)
(* Genoa's MpioTopology.c, lane translation and ancillary data of          *)
(* MpioParser.c and MpioAncDataV1.c, MpioMappingResults.c (settings of an  *)
(* engine).                                                                *)
(*                                                                         *)
(* An entry is a record: EngineType, the lanes, its parameter list, its    *)
(* port settings (a function from the names of MPIO_PORT_DATA to values),  *)
(* the PHY parameters and its ancillary-data overrides.  A parameter is    *)
(* <<field it is for, value>>.                                             *)
(***************************************************************************)
EXTENDS PkgTypeFixups, SequencesExt

-----------------------------------------------------------------------------
(* Parameters                                                              *)

\* MPIO_PORT_DATA before anything is asked for: all 0.  Of Gen4Features the two
\* bits are fields of their own, of the lane equalisation and preset groups the
\* generation is part of the name.
PortFlags ==
  {"PortPresent", "LinkAspmL1_1", "LinkAspmL1_2", "LinkComplianceMode", "LinkSafeMode",
   "SbLink", "ClkPmSupport", "TurnOffUnusedLanes", "IsMasterPLL", "AlwaysExpose"}

PortValues ==
  {"DeviceNumber", "FunctionNumber", "LinkSpeedCapability", "LinkAspm", "LinkHotplug",
   "ClkReq", "ChannelType", "SlotNum", "EsmControl", "TargetLinkSpeed", "PsppPolicyDC",
   "PsppPolicyAC", "SrisEnableMode", "SrisSkipInterval", "LowerSkpOsGenSup",
   "LowerSkpOsRcvSup", "SrisAutoDetectMode", "SrisSkpIntervalSel", "SrisAutodetectFactor",
   "NpemEnable", "NpemCapability", "GroupMap", "Swizzle", "BridgeInt"}

\* The values that come with a flag saying that they were given.
PortSetFlags ==
  [Gen3FixedPreset |-> "SetGen3FixedPreset", Gen4FixedPreset |-> "SetGen4FixedPreset",
   Gen5FixedPreset |-> "SetGen5FixedPreset", PresetMask8Gt |-> "SetPresetMask8Gt",
   PresetMask16Gt |-> "SetPresetMask16Gt", PresetMask32Gt |-> "SetPresetMask32Gt",
   DsTxPreset3 |-> "SetGen3LaneEq", DsRxPresetHint3 |-> "SetGen3LaneEq",
   UsTxPreset3 |-> "SetGen3LaneEq", UsRxPresetHint3 |-> "SetGen3LaneEq",
   DsTxPreset4 |-> "SetGen4LaneEq", UsTxPreset4 |-> "SetGen4LaneEq",
   TXDeEmphasis |-> "TXDeEmphasisOride"]

MPIO_PORT_DATA ==
  Each(PortFlags \cup PortValues \cup DOMAIN PortSetFlags
       \cup {PortSetFlags[x] : x \in DOMAIN PortSetFlags}
       \cup {"EqPreset", "SlotPowerLimit", "SlotPowerLimitScale", "CsLink", "EsmSpeedBump",
             "TxVetting", "RxVetting", "InvertPolarity", "InvertPolarity2",
             "DisGen3EQPhase", "DisGen4EQPhase", "BypassGen3EQ", "BypassGen4EQ",
             "DlfCapDisable", "DlfExchangeDisable", "IsBmcLocation", "MpioAncDataIdx"}, 0)
  ++ [LinkHotplug |-> "Disabled", I2CMuxInfo |-> {}]

\* What the parameter with the given name and value changes in the port's data.
\* The presets' masks have ten bits; DLF bits and I2CMuxInfo only ever gain bits.
ParamChanges(port, name, value) ==
  When(name \in PortValues, name :> value)
  ++ When(name \in PortFlags, name :> Bit(value = 1))
  ++ When(name \in DOMAIN PortSetFlags,
          PortSetFlags[name] :> 1
          @@ name :> IF name \in {"PresetMask8Gt", "PresetMask16Gt", "PresetMask32Gt"}
                     THEN Bits(value, 0, 9) ELSE value)
  ++ When(name \in {"DlfCapDisable", "DlfExchangeDisable"},
          name :> Bit(port[name] = 1 \/ HasBit(value, 0)))
  ++ When(name = "InvertPolarity",
          [InvertPolarity |-> Bits(value, 0, 0), InvertPolarity2 |-> Bits(value, 1, 1)])
  ++ When(name = "LegacySwitch0Addr",
          [I2CMuxInfo |-> port.I2CMuxInfo \cup {b + 2 : b \in {x \in 0..2 : HasBit(value, x)}}])
  ++ When(name = "LegacySwitch0Select",
          [I2CMuxInfo |-> port.I2CMuxInfo \cup {x \in 0..1 : HasBit(value, x)} \cup {5}])
  ++ When(name = "IsBmcLocation", [IsBmcLocation |-> 1])

ApplyParam(entry, param) ==
  [entry EXCEPT !.Port = @ ++ ParamChanges(@, param[1], param[2]),
                !.Phy = IF param[1] = "PhyParam" THEN Append(@, param[2]) ELSE @]

\* The parameters of an entry, in their order.
MpioManageEngineDescriptor(entry) == FoldLeft(ApplyParam, entry, entry.PortParams)

\* Genoa's MpioTopologyWorkarounds on an entry; sil: the host's input block.
MpioTopologyWorkarounds(entry, sil) ==
  [entry EXCEPT !.Port = @
     ++ When(entry.EngineType = "SATA", [ChannelType |-> sil.CfgSataPhyTuning])
     ++ When(entry.EngineType = "PCIe",
             [EqPreset |-> 3, TurnOffUnusedLanes |-> 1]
             ++ When(sil.PcieLinkAspmAllPort # \hFF, [LinkAspm |-> sil.PcieLinkAspmAllPort])
             ++ When(sil.PcieLinkComplianceModeAllPorts,
                     [LinkComplianceMode |-> 1, LinkHotplug |-> "Disabled"])
             ++ When(sil.CfgForcePcieGenSpeed # 0,
                     [LinkSpeedCapability |-> sil.CfgForcePcieGenSpeed]))]

(* Mutant of OverrideFrom: the workarounds come before the entry's parameters. *)
WorkaroundsFirst(topology, s, sil) ==
  [x \in DOMAIN topology |->
     IF x < s THEN topology[x]
     ELSE [i \in DOMAIN topology[x] |->
             MpioManageEngineDescriptor(MpioTopologyWorkarounds(topology[x][i], sil))]]

\* One round of MpioCfgBeforeDxioInit: MpioManageTopology and the workarounds
\* both go from the descriptor they are given to the end of the list.
OverrideFrom(topology, s, sil) ==
  [x \in DOMAIN topology |->
     IF x < s THEN topology[x]
     ELSE [i \in DOMAIN topology[x] |->
             MpioTopologyWorkarounds(MpioManageEngineDescriptor(topology[x][i]), sil)]]

-----------------------------------------------------------------------------
(* Settings of an engine                                                   *)

\* Fields of the entry an engine always takes over, and those it takes over
\* when they are not 0.
Taken ==
  {"DeviceNumber", "FunctionNumber", "LinkSpeedCapability", "LinkAspm", "LinkHotplug",
   "LinkAspmL1_1", "LinkAspmL1_2", "DlfCapDisable", "DlfExchangeDisable", "ClkReq",
   "ClkPmSupport", "SbLink", "CsLink", "IsMasterPLL", "SlotNum", "EsmControl", "RxVetting",
   "TxVetting", "EsmSpeedBump", "PsppPolicyDC", "PsppPolicyAC", "InvertPolarity",
   "InvertPolarity2", "DisGen3EQPhase", "DisGen4EQPhase", "TargetLinkSpeed",
   "BypassGen3EQ", "BypassGen4EQ", "AlwaysExpose", "I2CMuxInfo", "IsBmcLocation",
   "PortPresent"}

TakenUnless0 == {"SlotPowerLimit", "SlotPowerLimitScale"}

Fields(port, names) == [x \in names |-> port[x]]

SrisEnable == {"SrisEnableMode", "SrisSkipInterval", "LowerSkpOsGenSup", "LowerSkpOsRcvSup"}

SrisDetect == {"SrisAutoDetectMode", "SrisSkpIntervalSel", "SrisAutodetectFactor"}

\* The first condition is the code's: its parentheses make the host's value
\* apply to all types when it is 0xFF, and to type 0 otherwise.
SrisPlatformConfig(sil, port) ==
  LET cfg == Bits(sil.SrisCfgType, 0, 2)
      auto == HasBit(sil.SrisCfgType, 3)
  IN When(sil.SrisEnableMode = \hFF \/ cfg = 0, Fields(sil, SrisEnable))
     ++ When(port.SrisEnableMode # 0 /\ cfg = 0, Fields(port, SrisEnable))
     ++ When(cfg # 0, Fields(port, {"SrisEnableMode"}))
     ++ When(cfg \notin {0, 1}, Fields(port, SrisEnable \ {"SrisEnableMode"}))
     ++ When(sil.SrisAutoDetectMode # \hFF /\ ~auto, Fields(sil, SrisDetect))
     ++ When(port.SrisAutoDetectMode # 0 \/ auto, Fields(port, SrisDetect))

MpioInitEngineStruct(engine, entry, sil) ==
  LET port == entry.Port
      Set(flag) == port[flag] = 1
  IN engine
     ++ Fields(port, Taken)
     ++ Fields(port, {x \in TakenUnless0 : port[x] # 0})
     ++ [EqSearchMode |-> port.EqPreset]
     ++ When(Set("SetGen3LaneEq"),
             Fields(port, {"DsTxPreset3", "DsRxPresetHint3", "UsTxPreset3", "UsRxPresetHint3"}))
     ++ When(Set("SetGen4LaneEq"), Fields(port, {"DsTxPreset4", "UsTxPreset4"}))
     ++ When(Set("SetGen3FixedPreset"), Fields(port, {"SetGen3FixedPreset", "Gen3FixedPreset"}))
     ++ When(Set("SetGen4FixedPreset"), Fields(port, {"SetGen4FixedPreset", "Gen4FixedPreset"}))
     ++ When(Set("SetGen5FixedPreset"), Fields(port, {"SetGen5FixedPreset", "Gen5FixedPreset"}))
     ++ When(Set("SetPresetMask8Gt"), [LcPresetMask8Gt |-> port.PresetMask8Gt])
     ++ When(Set("SetPresetMask16Gt"), [LcPresetMask16Gt |-> port.PresetMask16Gt])
     ++ When(Set("SetPresetMask32Gt"), [LcPresetMask32Gt |-> port.PresetMask32Gt])
     ++ SrisPlatformConfig(sil, port)
     ++ [allocated |-> TRUE]

-----------------------------------------------------------------------------
(* The ancillary data of a socket: the PHY and speed overrides of its ports,
   laid out in one block for MPIO.  Every piece of the block is a 32-bit word,
   so the block is a sequence of words; the code's offsets count words from 0.
   A port's overrides are a sequence of <<type, value>>. *)

PHY == "ANC_PHY_OVRD"
SPEED == "ANC_SPEED_OVRD"

CarriesData(entry) == entry.EngineType \in {"PCIe", "SATA"}

\* Words of a port's overrides of one type.
GetPortAncDataTypeSize(type, entry) ==
  Len(SelectSeq(entry.AncData, LAMBDA o : o[1] = type))

\* Words a port needs: a header before the overrides of a type, two words of list.
MpioAncDataCalcSize(entry) ==
  LET With(size) == IF size = 0 THEN 0 ELSE size + 1
      phy == GetPortAncDataTypeSize(PHY, entry)
      spd == GetPortAncDataTypeSize(SPEED, entry)
  IN IF phy + spd = 0 THEN 0 ELSE With(phy) + With(spd) + 2

-----------------------------------------------------------------------------
\* Building the block: words so far, the place of the port's two headers (0 when
\* there is none yet) and how many words each type has had.
NoHeaders(block) ==
  [words |-> block, header |-> [t \in {PHY, SPEED} |-> 0], size |-> [t \in {PHY, SPEED} |-> 0]]

(* Mutant of AddOvrdData: the place of a header is taken after it was added. *)
AddOvrdDataHeaderPast(b, ovrd) ==
  LET type == ovrd[1]
      first == b.header[type] = 0
      header == IF first THEN <<[type |-> type, length |-> 0]>> ELSE <<>>
      words == b.words \o header
  IN IF type \notin {PHY, SPEED} THEN b
     ELSE [words |-> words \o <<[type |-> "data", value |-> ovrd, length |-> 1]>>,
           header |-> IF first THEN [b.header EXCEPT ![type] = Len(words)] ELSE b.header,
           size |-> [b.size EXCEPT ![type] = @ + Len(header) + 1]]

\* AddPhyOvrdData and AddSpdOvrdData: the first override of a type puts a header first.
AddOvrdData(b, ovrd) ==
  LET type == ovrd[1]
      first == b.header[type] = 0
      header == IF first THEN <<[type |-> type, length |-> 0]>> ELSE <<>>
  IN IF type \notin {PHY, SPEED} THEN b
     ELSE [words |-> b.words \o header \o <<[type |-> "data", value |-> ovrd]>>,
           header |-> IF first THEN [b.header EXCEPT ![type] = Len(b.words)] ELSE b.header,
           size |-> [b.size EXCEPT ![type] = @ + Len(header) + 1]]

\* The length of a header is a byte.
WithLength(words, b, type) ==
  IF b.size[type] = 0 THEN words ELSE [words EXCEPT ![b.header[type] + 1].length = b.size[type] % 256]

AddAncListData(PhyHeaderofs, SpdHeaderofs) ==
  <<[type |-> "ANC_LIST", length |-> 2],
    IF PhyHeaderofs # 0 THEN [type |-> "list", Ofs0 |-> PhyHeaderofs, Ofs1 |-> SpdHeaderofs]
    ELSE [type |-> "list", Ofs0 |-> SpdHeaderofs, Ofs1 |-> 0]>>

\* One round of MpioAddAncDataOverride: the block with the port's data, and the
\* place of its list (0: none, MpioAncDataIdx stays as it is).
AddPort(block, entry) ==
  LET b == FoldLeft(AddOvrdData, NoHeaders(block), entry.AncData)
      words == WithLength(WithLength(b.words, b, PHY), b, SPEED)
  IN IF ~CarriesData(entry) \/ Len(words) = Len(block) THEN [block |-> block, idx |-> 0]
     ELSE [block |-> words \o AddAncListData(b.header[PHY], b.header[SPEED]), idx |-> Len(words)]

\* The block of a socket's ports, a word for the generic header in front.
MpioAddAncDataOverride(entries) ==
  FoldLeft(LAMBDA block, entry : AddPort(block, entry).block,
           <<[type |-> "none", length |-> 0]>>, entries)

MpioAncDataIdx(entries, i) ==
  AddPort(MpioAddAncDataOverride(SubSeq(entries, 1, i - 1)), entries[i]).idx

\* The generic header is filled in when the block holds anything; what is
\* returned is the block's size.
InitGlobalAncillaryData(entries) ==
  LET block == MpioAddAncDataOverride(entries)
  IN IF Len(block) = 1 THEN [block |-> block, size |-> 0]
     ELSE [block |-> [block EXCEPT ![1] = [type |-> "ANCILLARY", length |-> Len(block) % 256]],
           size |-> Len(block)]

\* What GetGlobalAncillaryDataSize returns: the code that computes it is commented out.
GetGlobalAncillaryDataSize == 0

-----------------------------------------------------------------------------
(* Lanes                                                                   *)

\* MpioTranslateLanesCallback for the wrapper that holds the start lane; lanes as
\* <<start, end>>, the end before the start for a reversed link.
MpioTranslateLanes(wrapper, lanes) ==
  LET up == lanes[1] <= lanes[2]
      Place(lane) == IF wrapper.CoreReversed = 0
                     THEN wrapper.StartDxioLane + (lane - wrapper.StartPhyLane)
                     ELSE wrapper.EndDxioLane - (lane - wrapper.StartPhyLane)
      swapped == (wrapper.CoreReversed = 0) # up
  IN [MpioStartLane |-> Place(lanes[IF swapped THEN 2 ELSE 1]),
      MpioEndLane |-> Place(lanes[IF swapped THEN 1 ELSE 2]), Reverse |-> swapped]

Holds(wrapper, lane) == lane \in wrapper.StartPhyLane..wrapper.EndPhyLane
=============================================================================
