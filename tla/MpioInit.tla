------------------------------- MODULE MpioInit -------------------------------
(***************************************************************************)
(* MPIO's initialisation at time point 1 (MpioInitFlow.c) together with    *)
(* the mailbox (MpioLib.c) and the firmware on the other side of it.       *)
(*                                                                         *)
(* There is one MPIO per socket: MP_Instance is never assigned, so an      *)
(* instance is a socket.  The host sends it a request and waits for the    *)
(* answer; a link set-up goes on in MPIO after the answer, and the host    *)
(* asks for MPIO's status until it is idle.  The firmware is external and  *)
(* modelled from how the code uses it.                                     *)
(***************************************************************************)
EXTENDS MpioPorts

CONSTANTS
  RootBridges,  \* the root bridges <<socket, RBIndex>>, all sockets
  SocketOrder,  \* the sockets in the order of the handles
  Platforms     \* the inputs: what the user and earlier boot stages provide

VARIABLES
  platform,     \* the input of this boot
  todo,         \* what the host still has to do: <<socket, step>> pairs
  call,         \* where the host is in MpioServiceRequestCommon
  MpioArg,      \* what the last request returned
  mailbox,      \* per socket: C2PMSG registers and the doorbell
  fw,           \* per socket: the state of the MPIO firmware
  AskBuffer,    \* per socket: the ask structures in DRAM
  CfgEarlyLink, \* the input block's flag, set by the parser as well
  reset,        \* the PCIe slot reset is asserted
  work,         \* what the loops of MpioPortMapping have left: asks, then engines
  PortDevMap,   \* per root bridge: the functions MpioPortMapping has given so far
  eng,          \* the engines of the PCIe complex
  remap,        \* per root bridge: NB_PROG_DEVICE_REMAP
  visible       \* per root bridge: the bridges that are not hidden

vars == <<platform, todo, call, MpioArg, mailbox, fw, AskBuffer, CfgEarlyLink, reset, work,
          PortDevMap, eng, remap, visible>>

Sockets == {rb[1] : rb \in RootBridges}

RootBridgeOrder ==
  CHOOSE q \in [1..Cardinality(RootBridges) -> RootBridges] :
    \A i, j \in DOMAIN q : i < j => q[i][1] < q[j][1] \/ (q[i][1] = q[j][1] /\ q[i][2] < q[j][2])

Engines == UNION {Range(EnginesOf(rb)) : rb \in RootBridges}

ASSUME HandlesAssumption ==
  /\ SocketOrder \in Seq(Sockets) /\ Len(SocketOrder) > 0
  /\ \A i, j \in 1..Len(SocketOrder) : SocketOrder[i] = SocketOrder[j] => i = j
  /\ \A s \in Sockets : \E i \in 1..Len(SocketOrder) : SocketOrder[i] = s
  /\ IsFiniteSet(Engines)

SetupLink == {"MAP", "RECONFIG", "PERST", "EARLY_TRAIN", "TRAIN"}

Posted == SetupLink \cup {"UPDATE_LINK"}

Requests == Posted \cup {"GET_STATUS", "SET_GLOBAL_CONFIG", "EXTENDED_ATTRIBUTES", "TRANSFER_ASK",
                         "GET_ASK_RESULT", "WRITE_STRAP", "GET_DELI_INFO"}

-----------------------------------------------------------------------------
(* The flow: each operator is the sequence of steps of one function        *)

\* GET_STATUS is repeated until CmdStatus is 0 (ReadAnswer).
WaitReady == <<"GET_STATUS">>

SendAncData == WaitReady \o <<"EXTENDED_ATTRIBUTES">>

SendAsk == WaitReady \o <<"TRANSFER_ASK">>

GetAsk == WaitReady \o <<"GET_ASK_RESULT">>

\* A posted SETUP_LINK whose result is fetched at once.
Stage(op) == <<op>> \o GetAsk

\* One WRITE_STRAP stands for the straps of all ports of a socket.
Configure ==
  <<"SET_GLOBAL_CONFIG">>
  \o (IF platform.MPIOAncDataSupport THEN SendAncData ELSE <<>>) \o SendAsk
  \o Stage("MAP") \o <<"MpioPortMapping", "WRITE_STRAP">>
  \o Stage("RECONFIG") \o <<"WRITE_STRAP">>
  \o Stage("PERST")

EarlyLink == Stage("EARLY_TRAIN")

Finish ==
  GetAsk \o <<"UpdatePortTrainingStatus", "UpdateAskAfterTraining">> \o SendAsk \o <<"UPDATE_LINK">>

On(s, steps) == [i \in DOMAIN steps |-> <<s, steps[i]>>]

\* A step for every instance, in the order of the handles.
ForAll(step) == [i \in DOMAIN SocketOrder |-> <<SocketOrder[i], step>>]

First == SocketOrder[1]

NbioInitializeDxio ==
  ForAll("ParsePlatformTopology")
  \o <<<<First, "GpioSlotResetControl">>, <<First, "EarlyLink">>>>
  \o ForAll("TrainInstance") \o ForAll("FinishInstance")
  \o ForAll("AfterDxioInit") \o <<<<First, "MpioVisibilityControl">>>>

-----------------------------------------------------------------------------
Idle == [op |-> "none", owes |-> FALSE, disturbed |-> FALSE, done |-> {}, ask |-> <<>>]

Init ==
  /\ platform \in Platforms
  /\ todo = NbioInitializeDxio
  /\ call = "none"
  /\ MpioArg = [from |-> "mpio", busy |-> FALSE]
  /\ mailbox = [s \in Sockets |->
                  [ready |-> TRUE, doorbell |-> FALSE, id |-> "none", args |-> MpioArg]]
  /\ fw = [s \in Sockets |-> Idle]
  /\ AskBuffer = [s \in Sockets |-> <<>>]
  /\ CfgEarlyLink = platform.CfgEarlyLink
  /\ reset = TRUE
  /\ work = <<>>
  /\ PortDevMap = [rb \in RootBridges |-> NoFunctions]
  /\ remap = platform.remap
  /\ eng = LET e0 == [e \in Engines |-> InitialEngine(e)]
           IN IF platform.EarlyBmcLinkTraining
              THEN MpioCleanUpEarlyInitSP5(e0, platform.remap, platform.linked) ELSE e0
  /\ visible = [rb \in RootBridges |-> Bridges]

Head2 == Head(todo)[2]

S == Head(todo)[1]

At(step) == todo # <<>> /\ Head2 = step

\* The host goes on to the steps of a function, or past it.
Enter(steps) == todo' = steps \o Tail(todo)

Leave == todo' = Tail(todo)

host == <<platform, call, MpioArg>>
mpio == <<mailbox, fw>>
mapping == <<work, PortDevMap>>
ports == <<mapping, eng, remap, visible>>

\* One ask per entry of the socket's topology that is in use.
AskOf(entry) ==
  [ctrlType |-> entry.type, lanes |-> entry.lanes, port |-> 0, state |-> "none",
   early |-> entry.SbLink, LogicalBridgeID |-> 0]

UsedEntries(s) == SelectSeq(platform.topology[s], LAMBDA t : t.type # "Unused")

ParsePlatformTopology ==
  /\ At("ParsePlatformTopology")
  /\ LET used == UsedEntries(S)
     IN /\ AskBuffer' = [AskBuffer EXCEPT ![S] = [i \in DOMAIN used |-> AskOf(used[i])]]
        /\ CfgEarlyLink' = (CfgEarlyLink \/ \E i \in DOMAIN used : used[i].SbLink)
        /\ Enter(IF used = <<>> THEN <<>> ELSE On(S, Configure))
  /\ UNCHANGED <<host, mpio, reset, ports>>

\* MpioPortMapping: a loop over the asks, a loop over the engines that were trained
\* before, and the registers.
PortMapping ==
  /\ At("MpioPortMapping")
  /\ work' = PcieAsks(AskBuffer[S])
  /\ PortDevMap' = [rb \in RootBridges |-> NoFunctions]
  /\ Enter(On(S, <<"MapAsk", "SyncEarlyTrainRemap">>))
  /\ UNCHANGED <<host, mpio, AskBuffer, CfgEarlyLink, reset, eng, remap, visible>>

MapNextAsk ==
  /\ At("MapAsk") /\ work # <<>>
  /\ \E st \in {MapAsk([eng |-> eng, map |-> PortDevMap], Head(work), platform.topology[S])} :
       eng' = st.eng /\ PortDevMap' = st.map
  /\ work' = Tail(work)
  /\ UNCHANGED <<host, todo, mpio, AskBuffer, CfgEarlyLink, reset, remap, visible>>

EarlyTrainFixups ==
  /\ At("MapAsk") /\ work = <<>>
  /\ work' = Flattened([i \in DOMAIN RootBridgeOrder |->
                IF RootBridgeOrder[i][1] = S THEN EarlyTrained(eng, RootBridgeOrder[i]) ELSE <<>>])
  /\ Leave
  /\ UNCHANGED <<host, mpio, AskBuffer, CfgEarlyLink, reset, PortDevMap, eng, remap, visible>>

SyncNextEngine ==
  /\ At("SyncEarlyTrainRemap") /\ work # <<>>
  /\ \E st \in {SyncEarlyTrainRemap([eng |-> eng, map |-> PortDevMap], Head(work), remap)} :
       eng' = st.eng /\ PortDevMap' = st.map
  /\ work' = Tail(work)
  /\ UNCHANGED <<host, todo, mpio, AskBuffer, CfgEarlyLink, reset, remap, visible>>

SetPortPciAddressMap ==
  /\ At("SyncEarlyTrainRemap") /\ work = <<>>
  /\ remap' = [rb \in RootBridges |->
                 IF rb[1] = S THEN PcieSetPortPciAddressMap(PortDevMap[rb]) ELSE remap[rb]]
  /\ Leave
  /\ UNCHANGED <<host, mpio, AskBuffer, CfgEarlyLink, reset, mapping, eng, visible>>

GpioSlotResetControl ==
  /\ At("GpioSlotResetControl")
  /\ reset' = FALSE
  /\ Leave
  /\ UNCHANGED <<host, mpio, AskBuffer, CfgEarlyLink, ports>>

\* The loops that train and finish, and the early training of the first instance.
EnterLoop ==
  /\ \/ At("EarlyLink") /\ Enter(IF CfgEarlyLink THEN On(S, EarlyLink) ELSE <<>>)
     \/ At("TrainInstance") /\ Enter(IF AskBuffer[S] = <<>> THEN <<>> ELSE On(S, <<"TRAIN">>))
     \/ At("FinishInstance") /\ Enter(IF AskBuffer[S] = <<>> THEN <<>> ELSE On(S, Finish))
     \/ /\ At("AfterDxioInit")
        /\ Enter(On(S, [i \in 1..Cardinality({e \in Engines : e[1] = S /\ eng[e].allocated}) |->
                          "GET_DELI_INFO"]))
  /\ UNCHANGED <<host, mpio, AskBuffer, CfgEarlyLink, reset, ports>>

\* InitStatus of an engine whose ask came back with the given state.
TrainingStatus(engine, state) ==
  IF state = "LINK_TRAINED" THEN "SUCCESS"
  ELSE IF engine.PortPresent /\ (platform.Expose = 1 \/ (platform.Expose # 0 /\ engine.AlwaysExpose))
    THEN "ALWAYS_EXPOSE" ELSE engine.InitStatus

(* Mutant of WithStatus: a port whose training failed counts as trained when present. *)
WithStatusOfPresent(asks) ==
  [e \in Engines |->
     IF \E i \in DOMAIN asks : asks[i].ctrlType = "PCIe" /\ MpioFindEngineForAsk(asks[i]) = e
     THEN [eng[e] EXCEPT !.InitStatus = IF eng[e].PortPresent THEN "SUCCESS" ELSE @] ELSE eng[e]]

WithStatus(asks) ==
  [e \in Engines |->
     LET mine == SelectSeq(PcieAsks(asks), LAMBDA a : MpioFindEngineForAsk(a) = e)
     IN IF mine = <<>> THEN eng[e]
        ELSE [eng[e] EXCEPT !.InitStatus = TrainingStatus(eng[e], mine[Len(mine)].state)]]

UpdatePortTrainingStatus ==
  /\ At("UpdatePortTrainingStatus")
  /\ eng' = WithStatus(AskBuffer[S])
  /\ Leave
  /\ UNCHANGED <<host, mpio, AskBuffer, CfgEarlyLink, reset, mapping, remap, visible>>

Hotplugged(asks) ==
  {e \in Range([i \in DOMAIN asks |-> MpioFindEngineForAsk(asks[i])]) :
     eng[e].LinkHotplug \in {"UBM", "OCP"}}

UpdateAskAfterTraining ==
  /\ At("UpdateAskAfterTraining")
  /\ AskBuffer' = [AskBuffer EXCEPT ![S] =
       [i \in DOMAIN AskBuffer[S] |->
          LET a == AskBuffer[S][i]
          IN IF a.ctrlType # "PCIe" THEN a
             ELSE [a EXCEPT !.LogicalBridgeID = eng[MpioFindEngineForAsk(a)].LogicalBridgeId]]]
  /\ eng' = [e \in Engines |-> IF e \in Hotplugged(PcieAsks(AskBuffer[S]))
                               THEN [eng[e] EXCEPT !.PortPresent = TRUE] ELSE eng[e]]
  /\ Leave
  /\ UNCHANGED <<host, mpio, CfgEarlyLink, reset, mapping, remap, visible>>

VisibilityControl ==
  /\ At("MpioVisibilityControl")
  /\ visible' = [rb \in RootBridges |-> MpioVisibilityControl(eng, rb, visible[rb])]
  /\ Leave
  /\ UNCHANGED <<host, mpio, AskBuffer, CfgEarlyLink, reset, mapping, eng, remap>>

-----------------------------------------------------------------------------
(* MpioServiceRequestCommon: four steps between which MPIO runs            *)

flow == <<platform, AskBuffer, CfgEarlyLink, reset, ports>>

\* 1 and 2: wait for the ready flag and write the arguments.
WriteArguments ==
  /\ todo # <<>> /\ Head2 \in Requests /\ call = "none"
  /\ mailbox[S].ready
  /\ mailbox' = [mailbox EXCEPT ![S].args = [from |-> "host", busy |-> FALSE]]
  /\ call' = "args"
  /\ UNCHANGED <<flow, todo, MpioArg, fw>>

(* Mutant of WithMessageId: the ready flag is left set. *)
WithMessageIdOnly(m) == [m EXCEPT !.id = Head2]

\* 3: the message number goes to the register that holds the ready flag.
WithMessageId(m) == [m EXCEPT !.id = Head2, !.ready = FALSE]

WriteMessageId ==
  /\ call = "args"
  /\ mailbox' = [mailbox EXCEPT ![S] = WithMessageId(@)]
  /\ call' = "id"
  /\ UNCHANGED <<flow, todo, MpioArg, fw>>

\* 4
RingDoorbell ==
  /\ call = "id"
  /\ mailbox' = [mailbox EXCEPT ![S].doorbell = TRUE]
  /\ call' = "wait"
  /\ UNCHANGED <<flow, todo, MpioArg, fw>>

(* Mutant of Again: the status is asked for until MPIO is busy. *)
AgainUntilBusy(answer) == Head2 = "GET_STATUS" /\ ~answer.busy

\* The loop of WaitReady.
Again(answer) == Head2 = "GET_STATUS" /\ answer.busy

\* 5 and 6: wait for the ready flag and read the answer; an error in it is only traced.
ReadAnswer ==
  /\ call = "wait"
  /\ mailbox[S].ready
  /\ MpioArg' = mailbox[S].args
  /\ call' = "none"
  /\ IF Again(mailbox[S].args) THEN UNCHANGED todo ELSE Leave
  /\ UNCHANGED <<flow, mpio>>

-----------------------------------------------------------------------------
(* The MPIO firmware                                                       *)

\* The answer to the message whose doorbell rang.
Answered(m, busy) ==
  [m EXCEPT !.doorbell = FALSE, !.ready = TRUE, !.args = [from |-> "mpio", busy |-> busy]]

\* Anything but a status request that arrives during a link set-up disturbs it.
Heard(f, msg) ==
  [f EXCEPT !.disturbed = @ \/ (f.op \in SetupLink /\ msg # "GET_STATUS")]

\* A posted message is answered when it is accepted, or when it is carried out.
FwAccept(s) ==
  /\ mailbox[s].doorbell /\ mailbox[s].id \in Posted
  /\ \E atOnce \in BOOLEAN :
       /\ fw' = [fw EXCEPT ![s] = [Heard(fw[s], mailbox[s].id) EXCEPT
                                     !.op = mailbox[s].id, !.owes = ~atOnce]]
       /\ mailbox' = [mailbox EXCEPT ![s] =
                        IF atOnce THEN Answered(@, FALSE) ELSE [@ EXCEPT !.doorbell = FALSE]]
  /\ UNCHANGED <<flow, todo, call, MpioArg>>

FwAnswer(s) ==
  /\ mailbox[s].doorbell /\ mailbox[s].id \in Requests \ Posted
  /\ LET msg == mailbox[s].id
     IN /\ mailbox' = [mailbox EXCEPT ![s] = Answered(@, msg = "GET_STATUS" /\ fw[s].op # "none")]
        /\ fw' = [fw EXCEPT ![s] = [Heard(fw[s], msg) EXCEPT
                    !.ask = IF msg = "TRANSFER_ASK" THEN AskBuffer[s] ELSE @]]
        /\ AskBuffer' = [AskBuffer EXCEPT ![s] = IF msg = "GET_ASK_RESULT" THEN fw[s].ask ELSE @]
  /\ UNCHANGED <<host, todo, CfgEarlyLink, reset, ports>>

\* What a link set-up makes of an ask; a link trains only out of reset, if at all.
Outcomes(f, a) ==
  CASE f.op = "MAP" -> {[a EXCEPT !.port = a.lanes[4]]}
    [] \/ f.op = "TRAIN" /\ a.state # "LINK_TRAINED"
       \/ f.op = "EARLY_TRAIN" /\ a.early
         -> {[a EXCEPT !.state = st] : st \in IF reset THEN {"FAILED"} ELSE {"FAILED", "LINK_TRAINED"}}
    [] OTHER -> {a}

FwFinish(s) ==
  /\ fw[s].op # "none"
  /\ \E ask \in {x \in [DOMAIN fw[s].ask -> UNION {Outcomes(fw[s], fw[s].ask[i]) : i \in DOMAIN fw[s].ask}] :
                   \A i \in DOMAIN x : x[i] \in Outcomes(fw[s], fw[s].ask[i])} :
       fw' = [fw EXCEPT ![s] = [op |-> "none", owes |-> FALSE, disturbed |-> fw[s].disturbed,
                                done |-> fw[s].done \cup {fw[s].op}, ask |-> ask]]
  /\ mailbox' = [mailbox EXCEPT ![s] = IF fw[s].owes THEN Answered(@, FALSE) ELSE @]
  /\ UNCHANGED <<flow, todo, call, MpioArg>>

-----------------------------------------------------------------------------
Host ==
  \/ ParsePlatformTopology \/ PortMapping \/ MapNextAsk \/ EarlyTrainFixups
  \/ SyncNextEngine \/ SetPortPciAddressMap \/ GpioSlotResetControl \/ EnterLoop
  \/ UpdatePortTrainingStatus \/ UpdateAskAfterTraining \/ VisibilityControl
  \/ WriteArguments \/ WriteMessageId \/ RingDoorbell \/ ReadAnswer

Firmware(s) == FwAccept(s) \/ FwAnswer(s) \/ FwFinish(s)

Done ==
  /\ todo = <<>>
  /\ \A s \in Sockets : fw[s].op = "none"
  /\ UNCHANGED vars

Next == Host \/ (\E s \in Sockets : Firmware(s)) \/ Done

Spec == Init /\ [][Next]_vars

\* The host's processor and each MPIO run on their own; the firmware answers every
\* message and finishes every operation, which is what the waits without a timeout rely on.
FairSpec ==
  /\ Spec
  /\ WF_vars(Host)
  /\ \A s \in Sockets : WF_vars(FwAccept(s) \/ FwAnswer(s)) /\ WF_vars(FwFinish(s))

-----------------------------------------------------------------------------
(* Properties                                                              *)

\* While MPIO carries out a link set-up it is asked for nothing but its status: every
\* message MpioEarlyInitV1 sends after a posted SETUP_LINK is behind a WaitReady.
SetupUndisturbed == \A s \in Sockets : ~fw[s].disturbed

\* What MpioServiceRequestCommon returns is an answer of the firmware, never the
\* arguments the host wrote itself, for all interleavings of its register accesses
\* with a firmware that answers before or after it carried the message out.
AnswersAreMpios == MpioArg.from = "mpio"

\* No link is trained before the slots are out of reset, and they leave reset
\* (GpioSlotResetControl, once for all sockets) only when every instance with ports has
\* gone through mapping, reconfiguration and PERST.
ResetOrder ==
  /\ \A s \in Sockets : fw[s].op \in {"EARLY_TRAIN", "TRAIN"} => ~reset
  /\ ~reset => \A s \in Sockets :
       AskBuffer[s] # <<>> => {"MAP", "RECONFIG", "PERST"} \subseteq fw[s].done

\* Whatever the interleaving of the host's register accesses with the two instances of
\* MPIO, the commands of MpioEarlyInitV1 are carried out one at a time, in an order in
\* which links can train, and their results are MPIO's own.
CommandsInOrder == SetupUndisturbed /\ AnswersAreMpios /\ ResetOrder

Finished == todo = <<>>

PciePorts(s) ==
  {t \in Range(platform.topology[s]) : t.type = "PCIe"}

\* The ports without a link that are to be seen all the same: MpioEnablePort is for
\* "links that trained or support hotplug", AlwaysExpose for unused ports.
ToBeExposed(e) ==
  \/ eng[e].LinkHotplug \notin {"Disabled", "Inboard"}
  \/ eng[e].InitStatus = "ALWAYS_EXPOSE"

\* The host sees the bridges of trained ports and none of an engine without a link,
\* except perhaps those that are to be exposed (the code hides them as well).
UnusedHidden ==
  \A rb \in RootBridges :
    LET engines == Range(EnginesOf(rb))
        trained == {e \in engines : eng[e].InitStatus = "SUCCESS"}
    IN /\ BridgesOf(eng, trained) \subseteq visible[rb]
       /\ visible[rb] \cap 0..(Cardinality(engines) - 1)
            \subseteq BridgesOf(eng, trained \cup {e \in engines : ToBeExposed(e)})

\* At the end the ports in use are the ones the user's topology describes (and those
\* an earlier stage trained), a port counts as trained exactly if its link is, and the
\* host sees the bridges of those and, where they are not to be exposed without a link,
\* no others.
TrainedAsReported ==
  Finished => UnusedHidden /\ \A s \in Sockets :
    /\ \A t \in PciePorts(s) : eng[t.lanes].allocated
    /\ \A e \in Engines : e[1] = s /\ eng[e].allocated =>
         (\E t \in PciePorts(s) : t.lanes = e) \/ eng[e].InitStatus = "SUCCESS"
    /\ \A i \in DOMAIN fw[s].ask : fw[s].ask[i].ctrlType = "PCIe" =>
         ((eng[fw[s].ask[i].lanes].InitStatus = "SUCCESS") <=> (fw[s].ask[i].state = "LINK_TRAINED"))

\* When MPIO updates its links it has the bridge number of every port that the IOHC
\* registers are programmed with (MpioPcieUpdateAskAfterTraining).
BridgesTold ==
  \A s \in Sockets : fw[s].op = "UPDATE_LINK" =>
    \A i \in DOMAIN fw[s].ask : fw[s].ask[i].ctrlType = "PCIe" =>
      fw[s].ask[i].LogicalBridgeID = eng[fw[s].ask[i].lanes].LogicalBridgeId

\* The remap registers give every bridge of a root bridge a function of its own, and
\* a port the function the user asked for.
FunctionsGiven ==
  \A rb \in RootBridges :
    (\E t \in PciePorts(rb[1]) : TRUE) =>
      /\ {remap[rb][b] : b \in Bridges} = DevFuncs
      /\ \A t \in PciePorts(rb[1]) : RootBridgeOf(t.lanes) = rb =>
           remap[rb][PcieBridgeId(t.lanes)] = OrNative(t.DevFunc, t.lanes)

\* A port's bridge number is the one of its function.
BridgesFollow ==
  \A s \in Sockets : \A t \in PciePorts(s) :
    DefaultPortDevMap[eng[t.lanes].LogicalBridgeId + 1] = OrNative(t.DevFunc, t.lanes)

\* At the end registers and bridge numbers agree with the user's topology, whatever
\* the order of the asks that exchanged them: every bridge has a function of its own, a
\* port the one it asked for, and no two ports in use program the same IOHC registers;
\* and MPIO has been told the numbers when it updates its links.
PortsAsAsked == BridgesTold /\ (Finished => FunctionsGiven /\ BridgesFollow)

\* The initialisation comes to an end: no wait for a ready flag or an idle MPIO is for ever.
Terminates == <>Finished
=============================================================================
