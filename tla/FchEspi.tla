------------------------------- MODULE FchEspi -------------------------------
(***************************************************************************)
(* The eSPI controller of the FCH and the device behind it                 *)
(* (FchinitHSEspiSecondary0Device).  The host builds a command in the      *)
(* header register, field by field, and starts it by setting the command   *)
(* status bit; the controller runs it against the device and clears the    *)
(* bit.  The host polls for that a limited number of times, and goes on    *)
(* regardless when the polls run out.                                      *)
(***************************************************************************)
EXTENDS FchUsb

CONSTANT MAX_ESPI_RETRY     \* polls of CheckDnCommandStatus (100000 in the code)

ASSUME EspiRetryAssumption == MAX_ESPI_RETRY \in Nat \ {0}

Channels == {"FA", "OOB", "VW", "PC"}
IoModes == {"single", "dual", "quad"}

\* The capabilities, as the bit fields of the registers hold them.
EspiCapabilities ==
  [master : SUBSET Channels, device : SUBSET Channels, masterIo : IoModes,
   deviceIo : SUBSET IoModes, entry : SUBSET Channels, slow : BOOLEAN]

VARIABLES
    caps,       \* [master, device |-> the supported channels, masterIo, deviceIo |-> the
                \*  I/O modes, entry |-> the channels enabled when the host comes,
                \*  slow |-> the polls may run out]
    txhdr0,     \* ESPI_DN_TXHDR_0: [type, status, addr]
    txhdr1,     \* ESPI_DN_TXHDR_1, a set of field names
    config,     \* ESPI_SECONDARY0_CONFIG: [channels, io]
    device,     \* the device: [en, ready |-> channels enabled and ready, io]
    epc, op,    \* where the host is in which command
    DxHdr0,     \* its copy of the header
    retry,      \* its polls so far
    todo,       \* the channels it still has to set up
    late        \* it went on while a command was pending

hostVars == <<epc, op, DxHdr0, retry, todo, late>>
espiVars == <<caps, txhdr0, txhdr1, config, device, hostVars>>

SET_CONFIGURATION == 0
GET_CONFIGURATION == 1
IN_BAND_RESET == 2

\* A command: what it is for, its type, its address (the general capabilities or one
\* of the channels) and the value it writes.
Command(for, type, addr, value) == [for |-> for, type |-> type, addr |-> addr, value |-> value]

InBandReset == Command("reset", IN_BAND_RESET, "none", {})

EspiInit ==
    /\ txhdr0 = [type |-> 0, status |-> 0, addr |-> "none"] /\ txhdr1 = {}
    /\ config = [channels |-> caps.entry, io |-> "single"]
    /\ device = [en |-> caps.entry, ready |-> caps.entry, io |-> "single"]
    /\ epc = "off" /\ op = InBandReset /\ DxHdr0 = txhdr0 /\ retry = 0
    /\ todo = {} /\ late = FALSE

----------------------------------------------------------------------------
(* The controller and the device *)

\* What reading an address of the device returns.
DeviceRegister(addr) ==
  IF addr = "general" THEN caps.device
  ELSE {"En" : x \in device.en \cap {addr}} \cup {"Ready" : x \in device.ready \cap {addr}}

\* The I/O mode in a value of the general register.
IoOf(value) == IF "quad" \in value THEN "quad" ELSE IF "dual" \in value THEN "dual" ELSE "single"

\* What a started command makes of the device; types the code never means do nothing.
Executed ==
  CASE txhdr0.type = IN_BAND_RESET -> [en |-> {}, ready |-> {}, io |-> "single"]
    [] txhdr0.type = SET_CONFIGURATION /\ txhdr0.addr = "general" ->
         [device EXCEPT !.io = IoOf(txhdr1)]
    [] txhdr0.type = SET_CONFIGURATION /\ txhdr0.addr \in Channels ->
         IF "En" \in txhdr1 THEN [device EXCEPT !.en = @ \cup {txhdr0.addr}]
         ELSE [device EXCEPT !.en = @ \ {txhdr0.addr}, !.ready = @ \ {txhdr0.addr}]
    [] OTHER -> device

RunCommand ==
    /\ epc # "off" /\ txhdr0.status = 1
    /\ txhdr0' = [txhdr0 EXCEPT !.status = 0]
    /\ txhdr1' = IF txhdr0.type = GET_CONFIGURATION THEN DeviceRegister(txhdr0.addr) ELSE txhdr1
    /\ device' = Executed
    /\ UNCHANGED <<caps, config, hostVars>>

\* A channel that was enabled gets ready.
ChannelReady(ch) ==
    /\ ch \in device.en \ device.ready
    /\ device' = [device EXCEPT !.ready = @ \cup {ch}]
    /\ UNCHANGED <<caps, txhdr0, txhdr1, config, hostVars>>

----------------------------------------------------------------------------
(* The host *)

\* As a bug would have it: no polls at all.
NoCheck(here, there) ==
    /\ epc = here /\ epc' = there
    /\ UNCHANGED <<caps, txhdr0, txhdr1, config, device, op, DxHdr0, todo, retry, late>>

\* CheckDnCommandStatus, on the way from one step of a command to the next.
CheckDnCommandStatus(here, there) ==
    /\ epc = here
    /\ \/ /\ retry < MAX_ESPI_RETRY /\ txhdr0.status = 0
          /\ epc' = there /\ retry' = 0 /\ UNCHANGED late
       \/ /\ retry < MAX_ESPI_RETRY /\ txhdr0.status = 1 /\ caps.slow
          /\ retry' = retry + 1 /\ UNCHANGED <<epc, late>>
       \/ /\ retry = MAX_ESPI_RETRY
          /\ epc' = there /\ retry' = 0 /\ late' = (late \/ txhdr0.status = 1)
    /\ UNCHANGED <<caps, txhdr0, txhdr1, config, device, op, DxHdr0, todo>>

\* EspiGetConfiguration and EspiSetConfiguration: the header is read once; the copy,
\* with the command status as it was read, is written back for every field filled in.
ReadHeader ==
    /\ epc = "header" /\ epc' = "select"
    /\ DxHdr0' = txhdr0
    /\ UNCHANGED <<caps, txhdr0, txhdr1, config, device, op, retry, todo, late>>

WriteField(here, there, header) ==
    /\ epc = here /\ epc' = there
    /\ DxHdr0' = header /\ txhdr0' = header
    /\ UNCHANGED <<caps, txhdr1, config, device, op, retry, todo, late>>

WriteSelect == WriteField("select", "type", DxHdr0)

WriteType == WriteField("type", "address", [DxHdr0 EXCEPT !.type = op.type])

WriteAddress == WriteField("address", "data", [DxHdr0 EXCEPT !.addr = op.addr])

WriteData ==
    /\ epc = "data" /\ epc' = "go"
    /\ txhdr1' = op.value
    /\ UNCHANGED <<caps, txhdr0, config, device, op, DxHdr0, retry, todo, late>>

Start == WriteField("go", "after", [DxHdr0 EXCEPT !.status = 1])

\* EspiInBandRst: a pending command is dropped ...
ResetBegin == WriteField("reset", "stray", [txhdr0 EXCEPT !.status = 0])

\* ... and the value of ESPI_SECONDARY0_CONFIG goes to the header register, where the
\* enable bits of FA, OOB and VW are the command type and that of PC is the status.
ResetStray ==
    /\ epc = "stray" /\ epc' = "go"
    /\ txhdr0' = [type |-> Bit("FA" \in config.channels) + 2 * Bit("OOB" \in config.channels)
                           + 4 * Bit("VW" \in config.channels),
                  status |-> Bit("PC" \in config.channels), addr |-> "none"]
    /\ DxHdr0' = [DxHdr0 EXCEPT !.type = IN_BAND_RESET]
    /\ UNCHANGED <<caps, txhdr1, config, device, op, retry, todo, late>>

\* The I/O mode both sides can use.
IOModeSelect ==
  IF caps.masterIo = "quad" /\ "quad" \in caps.deviceIo THEN {"quad"}
  ELSE IF caps.masterIo = "dual" /\ "dual" \in caps.deviceIo THEN {"dual"} ELSE {}

\* The bit of ESPI_SECONDARY0_CONFIG that is set for a channel once it is ready.
EnableBit(ch) == IF ch = "OOB" THEN "FA" ELSE ch

\* What ends the loop on a channel's register; and as a bug would have it, nothing.
NotAwaited == TRUE

ChannelIsReady == "Ready" \in txhdr1

\* The next command, or the end when no channel is left; the channels are set up in
\* this order.
Continue(command) == epc' = "before" /\ op' = command

First(chs) ==
  IF "FA" \in chs THEN "FA" ELSE IF "OOB" \in chs THEN "OOB"
  ELSE IF "VW" \in chs THEN "VW" ELSE "PC"

NextChannel(rest) ==
    /\ todo' = rest
    /\ IF rest = {} THEN epc' = "done" /\ UNCHANGED op
       ELSE Continue(Command("read", GET_CONFIGURATION, First(rest), {}))

Supported(ch) == ch \in caps.master /\ ch \in txhdr1

\* What the host does with the result of a command.
EndCommand ==
    /\ epc = "end"
    /\ CASE op.for = "reset" ->
              /\ Continue(Command("caps", GET_CONFIGURATION, "general", {}))
              /\ UNCHANGED <<todo, config>>
         [] op.for = "caps" ->
              /\ Continue(Command("set", SET_CONFIGURATION, "general", txhdr1 \cup IOModeSelect))
              /\ todo' = {ch \in Channels : Supported(ch)}
              /\ UNCHANGED config
         [] op.for = "set" ->
              /\ config' = [channels |-> {}, io |-> IoOf(op.value)]
              /\ NextChannel(todo)
         [] op.for = "read" ->
              /\ Continue(Command("enable", SET_CONFIGURATION, op.addr, txhdr1 \cup {"En"}))
              /\ UNCHANGED <<todo, config>>
         [] op.for = "enable" \/ (op.for = "ready" /\ ~ChannelIsReady) ->
              /\ Continue(Command("ready", GET_CONFIGURATION, op.addr, {}))
              /\ UNCHANGED <<todo, config>>
         [] op.for = "ready" /\ ChannelIsReady ->
              /\ config' = [config EXCEPT !.channels = @ \cup {EnableBit(op.addr)}]
              /\ NextChannel(todo \ {op.addr})
    /\ UNCHANGED <<caps, txhdr0, txhdr1, device, DxHdr0, retry, late>>

FchinitHSEspiSecondary0Device ==
    \/ ResetBegin \/ ResetStray
    \/ CheckDnCommandStatus("before", "header") \/ ReadHeader
    \/ WriteSelect \/ WriteType \/ WriteAddress \/ WriteData \/ Start
    \/ CheckDnCommandStatus("after", "end") \/ EndCommand

----------------------------------------------------------------------------
(* The registers FchEspiPrePcieInit writes around it *)

FchinitHSEspiIoMux == Pads({\h75, \h78, \h79, \h7A, \h85}, 0) ++ Pad(\h77, 1)

FchinitHSEspiTimer ==
  Rmw("espi", \h30, (4 .. 6) \cup (8 .. 23), (4 .. 6) \cup (8 .. 19))
  ++ Rmw("espi", \h30, {0, 1}, {0, 1})

\* A 32-bit register that is written whole.
EspiPut(reg, value) == Rmw("espi", reg, 0 .. 31, Ones(value, 31))

\* FchinitHSEspiEc0 up to the device: I/O ranges, ports 60h and 64h, bus master.
FchinitHSEspiEc0 ==
  Rmw("espi", 0, {4, 5}, {})
  ++ FchinitHSEspiTimer
  ++ EspiPut(\h44, \h004E004F) ++ EspiPut(\h48, \h004C0600) ++ EspiPut(\h4C, \h00FF0000)
  ++ Rmw("espi", \h40, 8 .. 11, 8 .. 11)
  ++ Rmw("espi", \h40, {1}, {1})
  ++ EspiPut(\hA4, \h00040506) ++ EspiPut(\hA8, \h7)
  ++ Rmw("espi", \h34, {1}, {1})
  ++ Rmw("espi", \h6C, 0 .. 31, 0 .. 31)

FchinitHSEspiEnableIo80(c) == When(c.EspiIo80Enable, Rmw("espi", \h40, {2}, {2}))

FchinitHSEspiEnableKbc6064(c) ==
  When(c.EspiKbc6064Enable, Rmw("lpc", \h44, {29}, {}))
  ++ Rmw("espi", \h40, {1}, IF c.EspiKbc6064Enable THEN {1} ELSE {})
=============================================================================
