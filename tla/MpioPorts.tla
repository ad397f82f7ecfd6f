------------------------------ MODULE MpioPorts ------------------------------
(***************************************************************************)
(* The PCIe ports (engines) of a root bridge and how MPIO gives them PCI   *)
(* functions and bridge numbers: MpioMappingResults.c, MpioPcie.c of       *)
(* Common and Genoa, MpioPortVisibility.c.                                 *)
(*                                                                         *)
(* An engine is named by where it is: <<socket, root bridge, wrapper,      *)
(* PortId>>.  A function is a DevFunc byte (device << 3 | function); 0     *)
(* stands for "none", which no entry of DefaultPortDevMap is.              *)
(***************************************************************************)
EXTENDS Integers, Sequences, FiniteSets, FiniteSetsExt, Folds, Functions

CONSTANTS
  WrapperSizes,       \* ports of each wrapper of a root bridge: <<9, 9, 4>> on Genoa
  DefaultPortDevMap   \* the function each bridge number has by default

ASSUME PortsAssumption ==
  /\ WrapperSizes \in Seq(Nat \ {0})
  /\ DefaultPortDevMap \in Seq(1..255) /\ IsInjective(DefaultPortDevMap)
  /\ FoldFunction(+, 0, WrapperSizes) <= Len(DefaultPortDevMap)

Bridges == 0..(Len(DefaultPortDevMap) - 1)

DevFuncs == Range(DefaultPortDevMap)

\* The sequences of a sequence, one behind the other.
Flattened(seqs) ==
  MapThenFoldSet(LAMBDA a, b : a \o b, <<>>, LAMBDA i : seqs[i], Min, DOMAIN seqs)

\* The engines of a root bridge in the order of the complex data: wrapper after
\* wrapper, the ports of a wrapper from the highest to the lowest.
EnginesOf(rb) ==
  Flattened([w \in DOMAIN WrapperSizes |->
                [i \in 1..WrapperSizes[w] |-> rb \o <<w, WrapperSizes[w] - i>>]])

\* PBRn, the bridge number an engine starts with, and its native function.
PcieBridgeId(e) == FoldFunction(+, 0, SubSeq(WrapperSizes, 1, e[3] - 1)) + e[4]

Native(e) == DefaultPortDevMap[PcieBridgeId(e) + 1]

RootBridgeOf(e) == <<e[1], e[2]>>

\* An engine before MPIO's initialisation.
InitialEngine(e) ==
  [DevFunc |-> 0, LogicalBridgeId |-> PcieBridgeId(e), InitStatus |-> "none",
   allocated |-> FALSE, PortPresent |-> FALSE, AlwaysExpose |-> FALSE, LinkHotplug |-> "Disabled"]

IndexOf(devfunc) == CHOOSE b \in Bridges : DefaultPortDevMap[b + 1] = devfunc

-----------------------------------------------------------------------------
(* Bridge numbers and functions                                            *)

\* The engines the search of SwapLogicalBridgeId comes to: it starts at the
\* engine itself, so those listed before it in the wrapper are not seen.
ListedAfter(e) == {[e EXCEPT ![4] = i] : i \in 0..(e[4] - 1)}

(* Mutant of SwapLogicalBridgeId: the engine itself keeps its number. *)
SwapOtherOnly(eng, e, NewBdgIdx) ==
  [x \in DOMAIN eng |->
     IF x \in ListedAfter(e) /\ eng[x].LogicalBridgeId = NewBdgIdx
     THEN [eng[x] EXCEPT !.LogicalBridgeId = eng[e].LogicalBridgeId] ELSE eng[x]]

SwapLogicalBridgeId(eng, e, NewBdgIdx) ==
  [x \in DOMAIN eng |->
     IF x = e THEN [eng[e] EXCEPT !.LogicalBridgeId = NewBdgIdx]
     ELSE IF x \in ListedAfter(e) /\ eng[x].LogicalBridgeId = NewBdgIdx
       THEN [eng[x] EXCEPT !.LogicalBridgeId = eng[e].LogicalBridgeId]
       ELSE eng[x]]

\* PortData.DeviceNumber and FunctionNumber, the native ones where both are 0.
OrNative(devfunc, e) == IF devfunc = 0 THEN Native(e) ELSE devfunc

\* PcieMapPortPciAddress succeeds: the function is one of the root bridge's and free.
MapsTo(PortDevMap, devfunc) ==
  devfunc \in DevFuncs /\ \A b \in Bridges : PortDevMap[b] # devfunc

\* The bridge number follows the function even when the function is taken.
PcieMapPortPciAddress(st, e) ==
  LET devfunc == OrNative(st.eng[e].DevFunc, e)
      rb == RootBridgeOf(e)
      eng == [st.eng EXCEPT ![e].DevFunc = devfunc]
  IN [eng |-> IF devfunc \in DevFuncs
                THEN SwapLogicalBridgeId(eng, e, IndexOf(devfunc)) ELSE eng,
      map |-> IF MapsTo(st.map[rb], devfunc)
                THEN [st.map EXCEPT ![rb][PcieBridgeId(e)] = devfunc] ELSE st.map]

\* A port that was trained before (the early BMC link) keeps the remapping it has.
SyncEarlyTrainRemap(st, e, remap) ==
  LET rb == RootBridgeOf(e)
      Index == IndexOf(Native(e))
      DevFnMap == remap[rb][Index]
      eng == [st.eng EXCEPT ![e].DevFunc = OrNative(st.eng[e].DevFunc, e),
                            ![e].allocated = TRUE]
  IN IF st.map[rb][Index] # 0 THEN st
     ELSE [eng |-> SwapLogicalBridgeId(eng, e, Index),
           map |-> IF DevFnMap \in DevFuncs \ {Native(e)}
                     THEN [st.map EXCEPT ![rb][Index] = DevFnMap,
                                         ![rb][IndexOf(DevFnMap)] = Native(e)]
                     ELSE st.map]

\* The registers of a root bridge: bridges without a function get, in ascending
\* order, the functions that are left.
PcieSetPortPciAddressMap(PortDevMap) ==
  LET used == {PortDevMap[b] : b \in Bridges}
      left == SelectSeq(DefaultPortDevMap, LAMBDA devfunc : devfunc \notin used)
      Rank(b) == Cardinality({x \in 0..b : PortDevMap[x] = 0})
  IN [b \in Bridges |-> IF PortDevMap[b] # 0 THEN PortDevMap[b]
                        ELSE IF Rank(b) <= Len(left) THEN left[Rank(b)] ELSE 0]

-----------------------------------------------------------------------------
(* A socket's asks                                                         *)

\* The engine of an ask: the wrapper its lanes belong to and the port the
\* firmware reported.
MpioFindEngineForAsk(ask) == [ask.lanes EXCEPT ![4] = ask.port]

PcieAsks(asks) == SelectSeq(asks, LAMBDA a : a.ctrlType = "PCIe")

\* The entry of the user's topology an ask came from: the lanes tell.
MpioFindTopoForAsk(topology, ask) ==
  SelectSeq(topology, LAMBDA t : t.type = "PCIe" /\ t.lanes = ask.lanes)[1]

MpioInitEngineStruct(engine, entry) ==
  [engine EXCEPT !.DevFunc = entry.DevFunc, !.allocated = TRUE,
                 !.PortPresent = entry.PortPresent, !.AlwaysExpose = entry.AlwaysExpose,
                 !.LinkHotplug = entry.LinkHotplug]

\* One round of MpioPortMapping's first loop.
MapAsk(st, ask, topology) ==
  LET e == MpioFindEngineForAsk(ask)
  IN PcieMapPortPciAddress(
       [st EXCEPT !.eng[e] = MpioInitEngineStruct(@, MpioFindTopoForAsk(topology, ask))], e)

NoFunctions == [b \in Bridges |-> 0]

\* The engines PcieEarlyTrainFixups hands to SyncEarlyTrainRemap.
EarlyTrained(eng, rb) == SelectSeq(EnginesOf(rb), LAMBDA e : eng[e].InitStatus = "SUCCESS")

\* The engines an earlier boot stage trained: those whose native function is
\* the one the remap register of a trained bridge holds.
MpioCleanUpEarlyInitSP5(eng, remap, linked) ==
  [e \in DOMAIN eng |->
     IF \E x \in linked : RootBridgeOf(x) = RootBridgeOf(e)
                          /\ remap[RootBridgeOf(x)][PcieBridgeId(x)] = Native(e)
     THEN [eng[e] EXCEPT !.InitStatus = "SUCCESS"] ELSE eng[e]]

-----------------------------------------------------------------------------
(* What the host's PCI enumeration sees                                    *)

\* MpioControlPorts (HidePorts) followed by MpioEnablePorts.
BridgesOf(eng, engines) == {eng[e].LogicalBridgeId : e \in engines}

MpioVisibilityControl(eng, rb, visible) ==
  LET engines == Range(EnginesOf(rb))
  IN (visible \ BridgesOf(eng, engines))
     \cup BridgesOf(eng, {e \in engines : eng[e].InitStatus = "SUCCESS"})
=============================================================================
