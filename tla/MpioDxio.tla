------------------------------- MODULE MpioDxio -------------------------------
(***************************************************************************)
(* What the platform's topology makes of the PCIe ports: the path of a     *)
(* port's settings through NbioInitializeDxio, from the host's topology to *)
(* the asks MPIO gets and to the straps and registers of the port, its     *)
(* PCIe core and its root bridge.                                          *)
(*                                                                         *)
(* MpioInit models the messages and the training; here each configuration  *)
(* point is a step: one per topology descriptor, socket, wrapper, engine   *)
(* or root bridge.  An engine is <<socket, root bridge, wrapper, PortId>>; *)
(* MPIO's choice of a port for an ask is external, an entry's lanes stand  *)
(* for the engine they lead to.                                            *)
(***************************************************************************)
EXTENDS MpioTopology, MpioCfgPoints

CONSTANTS
  Engines,               \* the engines of the complex
  Inputs,                \* what the host provides, see Init
  MAX_NUMBER_DPCSTATUS   \* room for DPC records

ASSUME DxioAssumption == MAX_NUMBER_DPCSTATUS \in Nat /\ \A e \in Engines : Len(e) = 4

VARIABLES
  input,       \* the host's input of this boot
  todo,        \* the configuration points still to come
  topology,    \* per socket: the entries of the topology
  hfc,         \* the UBM host-facing connectors found
  asks,        \* per socket: the ask structures
  anc,         \* per socket: the block of ancillary data and its sizes
  eng,         \* the engines' settings
  straps,      \* the straps MPIO was given: <<socket, instance, index>> -> value
  regs,        \* registers of engines, wrappers and root bridges
  dpc          \* DPC status: the ports it is pending on, and the host's records

vars == <<input, todo, topology, hfc, asks, anc, eng, straps, regs, dpc>>

Sockets == {e[1] : e \in Engines}
Wrappers == {SubSeq(e, 1, 3) : e \in Engines}
RootBridges == {SubSeq(e, 1, 2) : e \in Engines}

In(w) == {e \in Engines : SubSeq(e, 1, 3) = w}

\* Elements of the complex in the order of its descriptors; the ports of a wrapper
\* are listed from the highest to the lowest.
Before(x, y) ==
  \E i \in DOMAIN x : /\ \A j \in 1..(i - 1) : x[j] = y[j]
                      /\ IF i = 4 THEN x[i] > y[i] ELSE x[i] < y[i]

InOrder(xs) == SetToSortSeq(xs, Before)

Step(name, xs) == [i \in DOMAIN xs |-> <<name, xs[i]>>]

sil == input.sil

WrapperConfig(w) == PcieFixupPlatformConfigSP5(w[2], w[3], input.nbio)

OfSocket(xs, s) == InOrder({x \in xs : x[1] = s})

\* NbioInitializeDxio
SocketOrder == SetToSortSeq(Sockets, <)

InitSocket(s) ==
  <<<<"Parse", s>>>> \o <<<<"MpioPortMapping", s>>>>
  \o Step("BeforeReconfig", OfSocket(Wrappers, s)) \o Step("AfterReconfig", OfSocket(Wrappers, s))

NbioInitializeDxio ==
  <<<<"ParseTopologyForUbm", 0>>>> \o Step("BeforeDxioInit", SocketOrder)
  \o FlattenSeq([i \in DOMAIN SocketOrder |-> InitSocket(SocketOrder[i])])
  \o <<<<"Train", 0>>>>
  \o Step("CoreConfiguration", InOrder(Wrappers)) \o Step("EngineConfiguration", InOrder(Engines))
  \o Step("InitBusRangesAndAri", InOrder(RootBridges))

Init ==
  /\ input \in Inputs
  /\ todo = NbioInitializeDxio
  /\ topology = input.topology
  /\ hfc = <<>>
  /\ asks = [s \in Sockets |-> <<>>]
  /\ anc = [s \in Sockets |-> [block |-> <<>>, asked |-> 0, built |-> 0]]
  /\ eng = [e \in Engines |-> FixedUpEngine(input.nbio)
              ++ [InitStatus |-> "none", Gen3Capable |-> e \in input.gen3]]
  /\ straps = << >>
  /\ regs = [x \in Engines \cup Wrappers \cup RootBridges |-> << >>]
  /\ dpc = [pending |-> input.dpc, records |-> <<>>]

At(name) == todo # <<>> /\ Head(todo)[1] = name

This == Head(todo)[2]

Leave == todo' = Tail(todo)

-----------------------------------------------------------------------------
(* The topology                                                            *)

\* AddHfcDescriptor takes what MPIO needs to find the connector's devices.
AddHfcDescriptor(s, entry) == [socket |-> s, StartLane |-> entry.lanes[1]]

ParseTopologyForUbm ==
  LET Ubm(s) == SelectSeq(topology[s], LAMBDA t : t.EngineType = "UBMHFC")
  IN /\ At("ParseTopologyForUbm")
     /\ hfc' = FlattenSeq([i \in DOMAIN SocketOrder |->
                 LET s == SocketOrder[i]
                 IN [j \in DOMAIN Ubm(s) |-> AddHfcDescriptor(s, Ubm(s)[j])]])
     /\ topology' = [s \in Sockets |-> [i \in DOMAIN topology[s] |->
                       IF topology[s][i].EngineType = "UBMHFC"
                       THEN [topology[s][i] EXCEPT !.EngineType = "Unused"] ELSE topology[s][i]]]
     /\ todo' = IF hfc' = <<>> THEN Tail(todo) ELSE <<<<"I2C_ENUMERATE", 0>>>> \o Tail(todo)
     /\ UNCHANGED <<input, asks, anc, eng, straps, regs, dpc>>

\* MpioUbmDiscovery asks MPIO to enumerate the connectors and then for the devices
\* of the first one, until it answers.  The table cannot grow (IncreaseTableSize
\* fails), so the first answer ends the discovery and no entry is added.
MpioUbmDiscovery ==
  /\ At("I2C_ENUMERATE") \/ At("I2C_DEVICE_GET")
  /\ \/ At("I2C_ENUMERATE") /\ todo' = <<<<"I2C_DEVICE_GET", 0>>>> \o Tail(todo)
     \/ Leave
  /\ UNCHANGED <<input, topology, hfc, asks, anc, eng, straps, regs, dpc>>

BeforeDxioInit ==
  /\ At("BeforeDxioInit")
  /\ topology' = OverrideFrom(topology, This, sil)
  /\ Leave
  /\ UNCHANGED <<input, hfc, asks, anc, eng, straps, regs, dpc>>

-----------------------------------------------------------------------------
(* A socket                                                                *)

\* The wrapper of the socket that holds an entry's first lane: the first whose range
\* does, in the order of the handles.
WrapperOf(s, entry) ==
  SelectSeq(OfSocket(Wrappers, s), LAMBDA w : Holds(WrapperConfig(w), entry.lanes[1]))

\* hfc_index and dfc_index: the scan ends once two parameters were found.
UbmIndices(entry) ==
  LET found == SelectSeq(entry.PortParams, LAMBDA p : p[1] \in {"UbmHfcIndex", "UbmDfcIndex"})
  IN FoldLeft(LAMBDA f, p : f ++ (p[1] :> p[2]), [UbmHfcIndex |-> 0, UbmDfcIndex |-> 0],
              SubSeq(found, 1, IF Len(found) < 2 THEN Len(found) ELSE 2))

InitAskEntryAttributes(port) ==
  [maxLinkSpeedCap |-> port.LinkSpeedCapability,
   targetLinkSpeed |-> IF port.SbLink = 1 THEN 1 ELSE port.TargetLinkSpeed,
   devfuncnumber |-> 8 * port.DeviceNumber + port.FunctionNumber,
   portPresent |-> port.PortPresent, earlyTrainLink |-> port.SbLink,
   linkComplianceMode |-> port.LinkComplianceMode, linkHotplugType |-> port.LinkHotplug,
   isMasterPLL |-> port.IsMasterPLL, txVetting |-> port.TxVetting, rxVetting |-> port.RxVetting,
   invertPolarityRx |-> port.InvertPolarity, invertPolarityTx |-> port.InvertPolarity2]
  ++ When(port.TXDeEmphasisOride = 1, [txDeEmphasisEn |-> 1, txDeEmphasis |-> port.TXDeEmphasis])

AskOf(s, entry, idx) ==
  LET lanes == MpioTranslateLanes(WrapperConfig(WrapperOf(s, entry)[1]), entry.lanes)
  IN [engine |-> entry.engine, ctrlType |-> entry.EngineType,
      startLaneIndex |-> lanes.MpioStartLane,
      numberOfLanes |-> lanes.MpioEndLane - lanes.MpioStartLane + 1, reversed |-> lanes.Reverse,
      channelType |-> IF entry.EngineType = "SATA" THEN entry.Port.ChannelType ELSE 0,
      ancillaryDataIdx |-> idx, attributes |-> InitAskEntryAttributes(entry.Port),
      ubm |-> UbmIndices(entry)]

\* MpioParsePlatformTopology: entries whose lanes no wrapper holds become unused; the
\* ancillary data of all entries is laid out once any port has some.
Parse ==
  LET s == This
      checked == [i \in DOMAIN topology[s] |->
                    IF WrapperOf(s, topology[s][i]) = <<>>
                    THEN [topology[s][i] EXCEPT !.EngineType = "Unused"] ELSE topology[s][i]]
      asked == GetGlobalAncillaryDataSize
               + FoldLeft(LAMBDA sum, t : sum + IF t.EngineType = "Unused" THEN 0
                                                ELSE MpioAncDataCalcSize(t), 0, checked)
      data == InitGlobalAncillaryData(checked)
      entries == [i \in DOMAIN checked |->
                    IF asked # 0 /\ MpioAncDataIdx(checked, i) # 0
                    THEN [checked[i] EXCEPT !.Port.MpioAncDataIdx = MpioAncDataIdx(checked, i)]
                    ELSE checked[i]]
      Idx(t) == IF sil.MPIOAncDataSupport THEN t.Port.MpioAncDataIdx ELSE 0
      used == SelectSeq(entries, LAMBDA t : t.EngineType # "Unused")
  IN /\ At("Parse")
     /\ topology' = [topology EXCEPT ![s] = entries]
     /\ anc' = [anc EXCEPT ![s] =
                  IF asked = 0 \/ used = <<>> THEN @
                  ELSE [block |-> data.block, asked |-> asked, built |-> data.size]]
     /\ asks' = [asks EXCEPT ![s] = [i \in DOMAIN used |-> AskOf(s, used[i], Idx(used[i]))]]
     /\ regs' = IF used = <<>> THEN regs
                ELSE (<<s>> :> MpioCfgGlobalConfig(sil)) @@ regs
     /\ todo' = IF used # <<>> THEN Tail(todo) ELSE SelectSeq(Tail(todo), LAMBDA x :
                  ~(\/ x = <<"MpioPortMapping", s>>
                    \/ x[1] \in {"BeforeReconfig", "AfterReconfig"} /\ x[2][1] = s))
     /\ UNCHANGED <<input, hfc, eng, straps, dpc>>

\* The settings of the engines MPIO mapped the socket's PCIe entries to.
PortMapping ==
  LET mine == SelectSeq(topology[This], LAMBDA t : t.EngineType = "PCIe")
      Entry(e) == SelectSeq(mine, LAMBDA t : t.engine = e)
  IN /\ At("MpioPortMapping")
     /\ eng' = [e \in Engines |-> IF Entry(e) = <<>> THEN eng[e]
                                  ELSE MpioInitEngineStruct(eng[e], Entry(e)[1], sil)]
     /\ Leave
     /\ UNCHANGED <<input, topology, hfc, asks, anc, straps, regs, dpc>>

-----------------------------------------------------------------------------
(* Straps and registers                                                    *)

\* The straps of MPIO after the writes for one wrapper: WritePcieStrap.
WritePcieStraps(old, w, writes) ==
  LET Key(index) == <<w[1], InstanceNumber(w[2], w[3]), StrapIndexAdjusted(index, input.soc)>>
      keys == {Key(i) : i \in DOMAIN writes}
  IN old ++ [k \in keys |-> writes[CHOOSE i \in DOMAIN writes : Key(i) = k]]

Allocated(w) == {e \in In(w) : eng[e].allocated}

\* The straps of an allocated engine.
EngineStraps(e) ==
  MpioCfgBeforeReconfigCallback(e[4], eng[e], e[2], e[3], sil, input.soc)

BeforeReconfig ==
  LET w == This
      IsCxl == \E e \in Allocated(w) : CxlControl(eng[e], sil, w[3]) # 0
      writes == FoldLeft(LAMBDA f, e : f ++ EngineStraps(e), << >>, InOrder(Allocated(w)))
                ++ MpioCfgWrapperBeforeBifurcation(WrapperConfig(w), IsCxl, sil)
  IN /\ At("BeforeReconfig")
     /\ straps' = WritePcieStraps(straps, w, writes)
     /\ eng' = [e \in Engines |-> IF e \in Allocated(w)
                  THEN [eng[e] EXCEPT !.CxlControl = CxlControl(eng[e], sil, w[3])] ELSE eng[e]]
     /\ regs' = [x \in DOMAIN regs |->
                   IF x \in Allocated(w) THEN regs[x] ++ BeforeReconfigRegisters(eng[x], sil, input.soc)
                   ELSE IF x = w THEN regs[x] ++ WrapperBeforeRegisters(WrapperConfig(w), IsCxl, w[1], sil)
                   ELSE regs[x]]
     /\ Leave
     /\ UNCHANGED <<input, topology, hfc, asks, anc, dpc>>

(* Mutant of RecordDpc: the status is cleared whether or not it was recorded. *)
RecordDpcClearing(d, e) ==
  IF e \notin d.pending THEN d
  ELSE [pending |-> d.pending \ {e},
        records |-> IF Len(d.records) < MAX_NUMBER_DPCSTATUS THEN Append(d.records, e) ELSE d.records]

\* A port's DPC status: recorded and cleared while there is room.
RecordDpc(d, e) ==
  IF e \in d.pending /\ Len(d.records) < MAX_NUMBER_DPCSTATUS
  THEN [pending |-> d.pending \ {e}, records |-> Append(d.records, e)] ELSE d

\* For all engines, allocated or not.
AfterReconfig ==
  LET w == This
  IN /\ At("AfterReconfig")
     /\ dpc' = FoldLeft(RecordDpc, dpc, InOrder(In(w)))
     /\ regs' = [x \in DOMAIN regs |->
                   IF x \in In(w) THEN regs[x] ++ MpioCfgAfterReconfigCallback(eng[x], sil)
                   ELSE IF x = w THEN regs[x] ++ MpioCfgWrapperAfterBifurcation(sil) ELSE regs[x]]
     /\ Leave
     /\ UNCHANGED <<input, topology, hfc, asks, anc, eng, straps>>

\* MpioUpdatePortTrainingStatus for the ask of an engine.
TrainingStatus(e, trained) ==
  IF trained THEN "SUCCESS"
  ELSE IF /\ eng[e].PortPresent = 1 /\ sil.AmdCfgExposeUnusedPciePorts # 0
          /\ sil.AmdCfgExposeUnusedPciePorts = 1 \/ eng[e].AlwaysExpose = 1
    THEN "ALWAYS_EXPOSE" ELSE eng[e].InitStatus

\* Any of the ports with an ask may train.
Train ==
  /\ At("Train")
  /\ \E up \in SUBSET {e \in Engines : eng[e].allocated} :
       eng' = [e \in Engines |->
                 IF eng[e].allocated
                 THEN [eng[e] EXCEPT !.InitStatus = TrainingStatus(e, e \in up)] ELSE eng[e]]
  /\ Leave
  /\ UNCHANGED <<input, topology, hfc, asks, anc, straps, regs, dpc>>

CoreConfiguration ==
  /\ At("CoreConfiguration")
  /\ regs' = [regs EXCEPT ![This] = @ ++ PcieCommonCoreConfiguration(This[3], sil)]
  /\ Leave
  /\ UNCHANGED <<input, topology, hfc, asks, anc, eng, straps, dpc>>

Bus(rb) == input.buses[rb][1]

EngineConfiguration ==
  LET e == This
      w == SubSeq(e, 1, 3)
  IN /\ At("EngineConfiguration")
     /\ IF ~eng[e].allocated THEN UNCHANGED <<straps, regs>>
        ELSE /\ regs' = [x \in DOMAIN regs |->
                  IF x \in In(w)
                  THEN regs[x] ++ PcieCommonEngineConfiguration(e[4], eng[e], Bus(SubSeq(e, 1, 2)), sil, x[4])
                  ELSE regs[x]]
             /\ straps' = IF Used(eng[e]) THEN WritePcieStraps(straps, w, SrisStraps(e[4], eng[e], sil, input.supported))
                          ELSE straps
     /\ Leave
     /\ UNCHANGED <<input, topology, hfc, asks, anc, eng, dpc>>

\* The subsystem's straps go to wrappers 0 and 1.
BusRangesAndAri ==
  LET rb == This
  IN /\ At("InitBusRangesAndAri")
     /\ regs' = [regs EXCEPT ![rb] = @ ++ InitBusRangesAndAri(rb, RootBridges, input.buses, sil)]
     /\ straps' = FoldLeft(LAMBDA st, w : WritePcieStraps(st, Append(rb, w), SubsystemStraps(sil)),
                           straps, <<0, 1>>)
     /\ Leave
     /\ UNCHANGED <<input, topology, hfc, asks, anc, eng, dpc>>

Done == todo = <<>> /\ UNCHANGED vars

Next ==
  \/ ParseTopologyForUbm \/ MpioUbmDiscovery \/ BeforeDxioInit
  \/ Parse \/ PortMapping \/ BeforeReconfig \/ AfterReconfig \/ Train
  \/ CoreConfiguration \/ EngineConfiguration \/ BusRangesAndAri \/ Done

Spec == Init /\ [][Next]_vars

-----------------------------------------------------------------------------
(* Properties                                                              *)

Finished == todo = <<>>

\* The entries of the host's topology that are PCIe ports of the complex.
Wanted(e) ==
  {t \in Range(input.topology[e[1]]) :
     t.engine = e /\ t.EngineType = "PCIe" /\ WrapperOf(e[1], t) # <<>>}

Given(t, name) == \E i \in DOMAIN t.PortParams : t.PortParams[i][1] = name

LastGiven(t, name) ==
  LET those == SelectSeq(t.PortParams, LAMBDA p : p[1] = name) IN those[Len(those)][2]

AskFor(e) == CHOOSE a \in Range(asks[e[1]]) : a.engine = e

\* Where a parameter shows once the ports are configured: in the ask, in the port's
\* registers, or (lane equalisation) in the core's straps.
Shown(e, name) ==
  LET Strap(n) == straps[<<e[1], InstanceNumber(e[2], e[3]), StrapIndexAdjusted(Core(n), input.soc)>>]
  IN CASE name = "LinkSpeedCapability" -> AskFor(e).attributes.maxLinkSpeedCap
       [] name = "TargetLinkSpeed" -> AskFor(e).attributes.targetLinkSpeed
       [] name = "LinkHotplug" -> AskFor(e).attributes.linkHotplugType
       [] name = "Gen3FixedPreset" -> regs[e][287]
       [] name = "PresetMask8Gt" -> regs[e][401]
       [] name = "DsTxPreset3" -> Strap(877)
       [] name = "DsTxPreset4" -> Strap(851)

\* What the host's settings for all ports make of a parameter.
AllPorts(name, value) ==
  CASE name = "LinkSpeedCapability" /\ sil.CfgForcePcieGenSpeed # 0 -> sil.CfgForcePcieGenSpeed
    [] name = "LinkHotplug" /\ sil.PcieLinkComplianceModeAllPorts -> "Disabled"
    [] name = "PresetMask8Gt" -> Mask(sil.AmdPciePresetMask8GtAllPort, Bits(value, 0, 9))
    [] OTHER -> value

\* A parameter of a port's entry ends up with that port, on either socket and however
\* the ports of the other entries are set: the last value of the list counts, a
\* setting for all ports before it.  Lane equalisation is the core's, so it
\* is the port's where no other port of the core is in use.  (MpioManageTopology,
\* MpioTopologyWorkarounds, MpioInitEngineStruct, MpioCfgAfterReconfigCallback.)
ParamsReachPort ==
  Finished => \A e \in Engines : \A t \in Wanted(e) :
    \A name \in {"LinkSpeedCapability", "TargetLinkSpeed", "LinkHotplug", "Gen3FixedPreset",
                  "PresetMask8Gt", "DsTxPreset3", "DsTxPreset4"} :
      /\ Given(t, name)
      /\ name \in {"DsTxPreset3", "DsTxPreset4"} => Allocated(SubSeq(e, 1, 3)) = {e}
      => Shown(e, name) = AllPorts(name, LastGiven(t, name))

\* The straps of a port's own block keep what the port's settings say although the
\* other ports, cores and root bridges are strapped after it, on both strap layouts
\* (WritePcieStrap).  Strap 883 is a core's strap the code gives a port: from port 1
\* on it falls into the block before.
PortsGetTheirOwn ==
  Finished => \A e \in Engines : \A t \in Wanted(e) :
    LET mine == EngineStraps(e)
        later == SrisStraps(e[4], eng[e], sil, input.supported)
        Key(i) == <<e[1], InstanceNumber(e[2], e[3]), StrapIndexAdjusted(i, input.soc)>>
    IN \A n \in DOMAIN PortStraps :
         LET i == Port(n, e[4])
         IN i \in DOMAIN mine /\ i \notin DOMAIN later => straps[Key(i)] = mine[i]

\* Where the ports of a core agree on a lane equalisation preset the core has it: the
\* contract the comment in MpioCfgBeforeReconfigCallback gives the platform.
LaneEqContract ==
  Finished => \A w \in Wrappers : \A n \in {876, 877, 878, 879, 851, 852, 853, 854} :
    LET values == {LaneEqualization(eng[e])[Core(n)] : e \in Allocated(w)}
        key == <<w[1], InstanceNumber(w[2], w[3]), StrapIndexAdjusted(Core(n), input.soc)>>
    IN Cardinality(values) = 1 => straps[key] \in values

\* Straps are computed port by port and written core by core: what is written later, for
\* the same core or another, disturbs neither a port's block nor what the ports of a core
\* agree on.
StrapsKept == PortsGetTheirOwn /\ LaneEqContract

\* A DPC status the port shows is recorded once and then cleared; it is only left on the
\* port when the records are full or the socket has no port in use.
DpcAccounted ==
  Finished =>
    /\ Range(dpc.records) \cup dpc.pending = input.dpc
    /\ Range(dpc.records) \cap dpc.pending = {}
    /\ IsInjective(dpc.records)
    /\ \A e \in dpc.pending : Len(dpc.records) = MAX_NUMBER_DPCSTATUS \/ asks[e[1]] = <<>>

\* Reading a port's ancillary data the way its offsets and lengths lead: the list at the
\* place the ask names, the headers the list names, the words the headers count.
ReadAncData(block, idx) ==
  LET list == block[idx + 2]
      Words(ofs) == IF ofs = 0 THEN <<>> ELSE SubSeq(block, ofs + 2, ofs + block[ofs + 1].length)
  IN Words(list.Ofs0) \o Words(list.Ofs1)

Grouped(data) == \A i, j \in DOMAIN data : i < j /\ data[i][1] = SPEED => data[j][1] = SPEED

\* The block the ports' overrides are laid out in can be read back: from an ask MPIO gets
\* to exactly the overrides of that ask's entry, PHY before speed.
\* (MpioAddAncDataOverride, for entries that list the two kinds one after the other.)
AncDataReadable ==
  \A s \in Sockets : \A a \in Range(asks[s]) : \A t \in Range(input.topology[s]) :
    a.engine = t.engine /\ t.AncData # <<>> /\ Grouped(t.AncData) /\ sil.MPIOAncDataSupport
    /\ CarriesData(t) /\ t.EngineType = a.ctrlType
    => a.ancillaryDataIdx # 0 /\ ReadAncData(anc[s].block, a.ancillaryDataIdx)
                                    = [i \in DOMAIN t.AncData |-> [type |-> "data", value |-> t.AncData[i]]]

\* An ask names as many lanes as its entry, all of the entry's own wrapper, and the lanes
\* of different asks are different, on reversed cores and for reversed links as well.
LanesKept ==
  \A s \in Sockets :
    LET LanesOf(a) == a.startLaneIndex..(a.startLaneIndex + a.numberOfLanes - 1)
    IN /\ \A i, j \in DOMAIN asks[s] : i # j => LanesOf(asks[s][i]) \cap LanesOf(asks[s][j]) = {}
       /\ \A a \in Range(asks[s]) : \E t \in Range(input.topology[s]) :
            LET w == WrapperConfig(SubSeq(a.engine, 1, 3))
                far == IF t.lanes[1] > t.lanes[2] THEN t.lanes[1] - t.lanes[2] ELSE t.lanes[2] - t.lanes[1]
            IN /\ t.engine = a.engine /\ a.numberOfLanes = far + 1
               /\ LanesOf(a) \subseteq w.StartDxioLane..w.EndDxioLane

\* MPIO gets from the asks what the host's entries say: their lanes, in MPIO's numbering,
\* and their overrides (MpioParsePlatformTopology).
AsksExact == LanesKept /\ AncDataReadable
=============================================================================
