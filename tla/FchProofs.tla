------------------------------ MODULE FchProofs ------------------------------
(***************************************************************************)
(* What holds of the Fusion Controller Hub for every input block, every    *)
(* set of eSPI capabilities and every bound of the polls: the eSPI         *)
(* controller runs whole commands only, the channels that both sides       *)
(* support are the ones set up, and setting up the second socket's FCH     *)
(* leaves the first one's registers alone.                                 *)
(***************************************************************************)
EXTENDS Fch, TLAPS

-----------------------------------------------------------------------------
(* Types                                                                   *)

Places == {"off", "reset", "stray", "before", "header", "select", "type", "address", "data",
           "go", "after", "end", "done"}

Addresses == Channels \cup {"general", "none"}

Words == Channels \cup IoModes \cup {"En", "Ready"}

Headers == [type : 0 .. 7, status : {0, 1}, addr : Addresses]

Purposes == {"reset", "caps", "set", "read", "enable", "ready"}

EspiTypes ==
  /\ caps \in EspiCapabilities
  /\ txhdr0 \in Headers /\ DxHdr0 \in Headers
  /\ txhdr1 \in SUBSET Words
  /\ config \in [channels : SUBSET Channels, io : IoModes]
  /\ device \in [en : SUBSET Channels, ready : SUBSET Channels, io : IoModes]
  /\ epc \in Places
  /\ op \in [for : Purposes, type : 0 .. 2, addr : Addresses, value : SUBSET Words]
  /\ todo \in SUBSET Channels /\ late \in BOOLEAN

-----------------------------------------------------------------------------
(* Commands.  What is in the header register and in the host's copy of it, *)
(* at each place of a command; the latter as long as no poll ran out.      *)

\* The command at work is the one its purpose calls for.
OpOK ==
  /\ epc \in {"off", "reset", "stray"} => op = InBandReset /\ config.channels = caps.entry
  /\ op.for = "reset" => op = InBandReset
                         /\ epc \in {"off", "reset", "stray", "go", "after", "end", "done"}
  /\ op.for \in {"caps", "set"} => op.addr = "general"
  /\ op.for \in {"read", "enable", "ready"} => op.addr \in Channels
  /\ op.for \in {"caps", "read", "ready"} => op.type = GET_CONFIGURATION
  /\ op.for \in {"set", "enable"} => op.type = SET_CONFIGURATION
  /\ op.for = "enable" => "En" \in op.value

\* The header register has the status bit only while the host waits for the command, or
\* when the in-band reset wrote it by mistake; the copy never has it.
StatusOK ==
  /\ txhdr0.status = 1 =>
       epc = "after" \/ (epc = "go" /\ op.for = "reset" /\ "PC" \in caps.entry)
  /\ epc \in {"select", "type", "address", "data", "go"} /\ op.for # "reset" => DxHdr0.status = 0

\* The fields filled in so far are those of the command.
FieldsOK ==
  /\ epc \in {"address", "data", "go"} => DxHdr0.type = op.type
  /\ epc \in {"data", "go"} /\ op.for # "reset" => DxHdr0.addr = op.addr
  /\ epc = "go" /\ op.for # "reset" => txhdr1 = op.value
  /\ epc = "after" /\ txhdr0.status = 1 =>
       /\ txhdr0.type = op.type
       /\ op.for # "reset" => txhdr0.addr = op.addr /\ txhdr1 = op.value

-----------------------------------------------------------------------------
(* Channels.  How far the device and ESPI_SECONDARY0_CONFIG are set up.    *)

\* The controller has run the command at work.
Ran == epc = "end" \/ (epc = "after" /\ txhdr0.status = 0)

\* Nothing is enabled in the device.
Blank == device.en = {} /\ device.ready = {}

\* The I/O mode that both sides are told.
Mode == IoOf(caps.device \cup IOModeSelect)

BeforeChannels ==
  /\ op.for = "reset" /\ Ran => Blank
  /\ op.for = "caps" => Blank /\ (Ran => txhdr1 = caps.device)
  /\ op.for = "set" =>
       /\ Blank /\ todo = EspiWanted /\ op.value = caps.device \cup IOModeSelect
       /\ Ran => device.io = Mode

\* A channel that is done is enabled and ready on both sides; besides those, the device
\* has at most the channel at work enabled.
InLoop ==
  /\ op.addr \in todo /\ todo \subseteq EspiWanted
  /\ config.channels = EspiWanted \ todo
  /\ config.channels \subseteq device.ready
  /\ device.en \subseteq config.channels \cup {op.addr}
  /\ config.io = Mode /\ device.io = Mode
  /\ op.for = "ready" /\ Ran /\ "Ready" \in txhdr1 => op.addr \in device.ready

SetUp ==
  /\ config.channels = EspiWanted /\ device.ready = EspiWanted /\ device.en \subseteq EspiWanted
  /\ config.io = Mode /\ device.io = Mode

ChannelsOK ==
  /\ device.ready \subseteq device.en
  /\ epc # "done" => BeforeChannels
  /\ epc # "done" /\ op.for \in {"read", "enable", "ready"} => InLoop
  /\ epc = "done" /\ c.EspiEc0Enable => SetUp

-----------------------------------------------------------------------------
(* Stages                                                                  *)

StageOK ==
  /\ epc # "off" => stage \in {"espi", "called"}
  /\ stage = "espi" => epc # "off"
  /\ stage \in {"relocated", "routed", "bridged", "restored"} =>
       c.call = "MultiFch" /\ (c.reserved => base = "second")
  /\ stage \in {"routed", "bridged"} => route = "second"
  /\ stage = "restored" => route = "first"
  /\ stage = "espi off" => ~c.EspiEnable
  /\ stage = "uart" => c.call = "Uart"
  /\ stage = "called" /\ c.call = "Espi" /\ c.EspiEnable => epc = "done"

CommandsOK == OpOK /\ (~late => StatusOK /\ FieldsOK)

ReadyOK == ~late /\ "OOB" \notin EspiWanted => ChannelsOK

IInv == EspiTypes /\ CommandsOK /\ ReadyOK /\ StageOK
Espi == EspiTypes /\ CommandsOK /\ ReadyOK

-----------------------------------------------------------------------------
(* The host's steps                                                        *)

\* EspiGetConfiguration and EspiSetConfiguration read the header once.
LEMMA ReadHeaderStep ==
  ASSUME Espi, ReadHeader, c' = c
  PROVE  Espi'
<1> USE DEF Espi, ReadHeader
<1>1. EspiTypes'
  BY DEF EspiTypes, Places
<1>2. CommandsOK'
  BY DEF EspiTypes, Headers, CommandsOK, OpOK, StatusOK, FieldsOK
<1>3. ReadyOK'
  BY DEF ReadyOK, EspiWanted, ChannelsOK, BeforeChannels, InLoop, SetUp, Ran, Blank, Mode,
         IOModeSelect
<1> QED BY <1>1, <1>2, <1>3

\* A write of the header with the fields filled in so far.
LEMMA WriteSelectStep ==
  ASSUME Espi, WriteSelect, c' = c
  PROVE  Espi'
<1> USE DEF Espi, WriteSelect, WriteField
<1>1. EspiTypes'
  BY DEF EspiTypes, Places
<1>2. CommandsOK'
  BY DEF EspiTypes, Headers, CommandsOK, OpOK, StatusOK, FieldsOK
<1>3. ReadyOK'
  BY DEF ReadyOK, EspiWanted, ChannelsOK, BeforeChannels, InLoop, SetUp, Ran, Blank, Mode,
         IOModeSelect
<1> QED BY <1>1, <1>2, <1>3

LEMMA WriteTypeStep ==
  ASSUME Espi, WriteType, c' = c
  PROVE  Espi'
<1> USE DEF Espi, WriteType, WriteField
<1>1. EspiTypes'
  BY DEF EspiTypes, Places, Headers
<1>2. CommandsOK'
  BY DEF EspiTypes, Headers, CommandsOK, OpOK, StatusOK, FieldsOK
<1>3. ReadyOK'
  BY DEF ReadyOK, EspiWanted, ChannelsOK, BeforeChannels, InLoop, SetUp, Ran, Blank, Mode,
         IOModeSelect
<1> QED BY <1>1, <1>2, <1>3
LEMMA WriteAddressStep ==
  ASSUME Espi, WriteAddress, c' = c
  PROVE  Espi'
<1> USE DEF Espi, WriteAddress, WriteField
<1>1. EspiTypes'
  BY DEF EspiTypes, Places, Headers
<1>2. CommandsOK'
  BY DEF EspiTypes, Headers, CommandsOK, OpOK, StatusOK, FieldsOK
<1>3. ReadyOK'
  BY DEF ReadyOK, EspiWanted, ChannelsOK, BeforeChannels, InLoop, SetUp, Ran, Blank, Mode,
         IOModeSelect
<1> QED BY <1>1, <1>2, <1>3

LEMMA WriteDataStep ==
  ASSUME Espi, WriteData, c' = c
  PROVE  Espi'
<1> USE DEF Espi, WriteData
<1>1. EspiTypes'
  BY DEF EspiTypes, Places
<1>2. CommandsOK'
  BY SMTT(30) DEF EspiTypes, Headers, CommandsOK, OpOK, StatusOK, FieldsOK
<1>3. ReadyOK'
  BY DEF ReadyOK, EspiWanted, ChannelsOK, BeforeChannels, InLoop, SetUp, Ran, Blank, Mode,
         IOModeSelect
<1> QED BY <1>1, <1>2, <1>3

\* The command starts: the header is whole.
LEMMA StartStep ==
  ASSUME Espi, Start, c' = c
  PROVE  Espi'
<1> USE DEF Espi, Start, WriteField
<1>1. EspiTypes'
  BY DEF EspiTypes, Places, Headers
<1>2. CommandsOK'
  BY DEF EspiTypes, Headers, CommandsOK, OpOK, StatusOK, FieldsOK
<1>3. ReadyOK'
  <2>1. ~Ran'
    BY DEF EspiTypes, Headers, Ran
  <2> QED BY <2>1 DEF ReadyOK, EspiWanted, ChannelsOK, BeforeChannels, InLoop, SetUp, Blank,
                      Mode, IOModeSelect
<1> QED BY <1>1, <1>2, <1>3

\* EspiInBandRst drops what is pending, ...
LEMMA ResetBeginStep ==
  ASSUME Espi, ResetBegin, c' = c
  PROVE  Espi'
<1> USE DEF Espi, ResetBegin, WriteField
<1>1. EspiTypes'
  BY DEF EspiTypes, Places, Headers
<1>2. CommandsOK'
  BY DEF EspiTypes, Headers, CommandsOK, OpOK, StatusOK, FieldsOK
<1>3. ReadyOK'
  BY DEF ReadyOK, EspiWanted, ChannelsOK, BeforeChannels, InLoop, SetUp, Ran, Blank, Mode,
         IOModeSelect
<1> QED BY <1>1, <1>2, <1>3

\* ... and writes the channels enabled at entry where the command type and status are.
LEMMA ResetStrayStep ==
  ASSUME Espi, ResetStray, c' = c
  PROVE  Espi'
<1> USE DEF Espi, ResetStray
<1>1. EspiTypes'
  <2>1. \A a, b, d \in {0, 1} : a + 2 * b + 4 * d \in 0 .. 7
    OBVIOUS
  <2>2. txhdr0' \in Headers
    <3>1. \A ch : Bit(ch \in config.channels) \in {0, 1}
      BY DEF Bit
    <3>2. txhdr0'.type \in 0 .. 7 /\ txhdr0'.status \in {0, 1} /\ txhdr0'.addr \in Addresses
      BY <2>1, <3>1 DEF Addresses
    <3> QED BY <3>2 DEF Headers
  <2>3. DxHdr0' \in Headers
    BY DEF EspiTypes, Headers, IN_BAND_RESET
  <2> QED BY <2>2, <2>3 DEF EspiTypes, Places
<1>2. CommandsOK'
  <2>1. op = InBandReset /\ config.channels = caps.entry /\ op' = op /\ caps' = caps
    BY DEF CommandsOK, OpOK
  <2>2. op'.for = "reset" /\ op'.type = IN_BAND_RESET
    BY <2>1 DEF InBandReset, Command
  <2>3. OpOK'
    BY <2>1, <2>2 DEF OpOK
  <2>4. txhdr0'.status = 1 => "PC" \in caps.entry
    BY <2>1 DEF Bit
  <2>5. StatusOK'
    BY <2>1, <2>2, <2>4 DEF StatusOK
  <2>6. DxHdr0'.type = IN_BAND_RESET
    BY DEF EspiTypes, Headers
  <2>7. FieldsOK'
    BY <2>1, <2>2, <2>6 DEF FieldsOK
  <2> QED BY <2>3, <2>5, <2>7 DEF CommandsOK
<1>3. ReadyOK'
  BY DEF ReadyOK, EspiWanted, ChannelsOK, BeforeChannels, InLoop, SetUp, Ran, Blank, Mode,
         IOModeSelect
<1> QED BY <1>1, <1>2, <1>3

\* CheckDnCommandStatus lets the host go on once the command has run; when it goes on
\* regardless, late says so.
LEMMA CheckBeforeStep ==
  ASSUME Espi, CheckDnCommandStatus("before", "header"), c' = c
  PROVE  Espi'
<1> USE DEF Espi, CheckDnCommandStatus
<1>1. EspiTypes' /\ (late => late')
  BY Zenon DEF EspiTypes, Places
<1>2. CommandsOK'
  BY <1>1, SMTT(30) DEF EspiTypes, Headers, CommandsOK, OpOK, StatusOK, FieldsOK
<1>3. ReadyOK'
  BY <1>1 DEF ReadyOK, EspiWanted, ChannelsOK, BeforeChannels, InLoop, SetUp, Ran, Blank, Mode,
              IOModeSelect
<1> QED BY <1>1, <1>2, <1>3

LEMMA CheckAfterStep ==
  ASSUME Espi, CheckDnCommandStatus("after", "end"), c' = c
  PROVE  Espi'
<1> USE DEF Espi, CheckDnCommandStatus
<1>1. EspiTypes' /\ (late => late')
  BY Zenon DEF EspiTypes, Places
<1>2. ~late' /\ epc' = "end" => txhdr0.status = 0
  <2>1. txhdr0.status \in {0, 1}
    BY DEF EspiTypes, Headers
  <2> QED BY <2>1, Zenon
<1>3. CommandsOK'
  BY <1>1, <1>2, SMTT(30) DEF EspiTypes, Headers, CommandsOK, OpOK, StatusOK, FieldsOK
<1>4. ReadyOK'
  <2>1. ~late' => ((epc # "done")' <=> epc # "done") /\ (Ran' <=> Ran)
    BY <1>1, <1>2, SMTT(30) DEF EspiTypes, Headers, Ran
  <2> QED BY <1>1, <2>1 DEF ReadyOK, EspiWanted, ChannelsOK, BeforeChannels, InLoop, SetUp,
                            Blank, Mode, IOModeSelect
<1> QED BY <1>1, <1>3, <1>4
-----------------------------------------------------------------------------
(* The controller and the device                                           *)

\* What running a command makes of the device.
LEMMA ExecutedFacts ==
  ASSUME EspiTypes
  PROVE  /\ Executed \in [en : SUBSET Channels, ready : SUBSET Channels, io : IoModes]
         /\ device.ready \subseteq device.en => Executed.ready \subseteq Executed.en
         /\ txhdr0.type = IN_BAND_RESET => Executed.en = {} /\ Executed.ready = {}
         /\ txhdr0.type = GET_CONFIGURATION => Executed = device
         /\ txhdr0.type = SET_CONFIGURATION /\ txhdr0.addr = "general" =>
              /\ Executed.en = device.en /\ Executed.ready = device.ready
              /\ Executed.io = IoOf(txhdr1)
         /\ txhdr0.type = SET_CONFIGURATION /\ txhdr0.addr \in Channels /\ "En" \in txhdr1 =>
              /\ Executed.en = device.en \cup {txhdr0.addr} /\ Executed.ready = device.ready
              /\ Executed.io = device.io
<1>1. IoOf(txhdr1) \in IoModes
  BY DEF IoOf, IoModes
<1>2. CASE txhdr0.type = IN_BAND_RESET
  BY <1>2 DEF Executed, IN_BAND_RESET, SET_CONFIGURATION, GET_CONFIGURATION, IoModes
<1>3. CASE txhdr0.type = SET_CONFIGURATION /\ txhdr0.addr = "general"
  BY <1>1, <1>3 DEF EspiTypes, Executed, IN_BAND_RESET, SET_CONFIGURATION, GET_CONFIGURATION, Channels
<1>4. CASE txhdr0.type = SET_CONFIGURATION /\ txhdr0.addr \in Channels
  <2>1. txhdr0.addr # "general"
    BY <1>4 DEF Channels
  <2>2. CASE "En" \in txhdr1
    <3>1. Executed = [device EXCEPT !.en = @ \cup {txhdr0.addr}]
      BY <1>4, <2>1, <2>2 DEF Executed, IN_BAND_RESET, SET_CONFIGURATION
    <3> QED BY <1>4, <2>1, <2>2, <3>1 DEF EspiTypes, IN_BAND_RESET, SET_CONFIGURATION, GET_CONFIGURATION
  <2>3. CASE "En" \notin txhdr1
    <3>1. Executed = [device EXCEPT !.en = @ \ {txhdr0.addr}, !.ready = @ \ {txhdr0.addr}]
      BY <1>4, <2>1, <2>3 DEF Executed, IN_BAND_RESET, SET_CONFIGURATION
    <3>2. /\ Executed.en = device.en \ {txhdr0.addr} /\ Executed.io = device.io
          /\ Executed.ready = device.ready \ {txhdr0.addr}
          /\ Executed \in [en : SUBSET Channels, ready : SUBSET Channels, io : IoModes]
      BY <3>1, ZenonT(40) DEF EspiTypes
    <3> QED BY <1>4, <2>1, <2>3, <3>2 DEF IN_BAND_RESET, SET_CONFIGURATION, GET_CONFIGURATION
  <2> QED BY <2>2, <2>3
<1>5. CASE /\ txhdr0.type # IN_BAND_RESET
           /\ ~(txhdr0.type = SET_CONFIGURATION /\ txhdr0.addr = "general")
           /\ ~(txhdr0.type = SET_CONFIGURATION /\ txhdr0.addr \in Channels)
  BY <1>5 DEF EspiTypes, Executed
<1> QED BY <1>2, <1>3, <1>4, <1>5

\* The controller runs a command and clears its status bit.
LEMMA RunCommandStep ==
  ASSUME Espi, RunCommand, c' = c
  PROVE  Espi'
<1> USE DEF Espi, RunCommand, hostVars
<1>1. EspiTypes'
  <2>1. DeviceRegister(txhdr0.addr) \in SUBSET Words
    BY DEF EspiTypes, EspiCapabilities, DeviceRegister, Words
  <2>2. txhdr0' \in Headers
    BY DEF EspiTypes, Headers
  <2>3. txhdr1' \in SUBSET Words
    BY <2>1 DEF EspiTypes
  <2> QED BY <2>2, <2>3, ExecutedFacts DEF EspiTypes
<1>2. txhdr0'.status = 0
  BY DEF EspiTypes, Headers
<1>3. CommandsOK'
  BY <1>2 DEF CommandsOK, OpOK, StatusOK, FieldsOK
<1>4. ReadyOK'
  <2> SUFFICES ASSUME ~late, "OOB" \notin EspiWanted
               PROVE  ChannelsOK'
    BY DEF ReadyOK, EspiWanted
  <2>1. ChannelsOK /\ OpOK /\ StatusOK /\ FieldsOK
    BY DEF ReadyOK, CommandsOK
  <2>2. (device.ready \subseteq device.en)'
    BY <2>1, ExecutedFacts DEF ChannelsOK
  <2>3. CASE epc = "go"
    <3>1. op.for = "reset" /\ ~Ran'
      BY <2>1, <2>3 DEF StatusOK, Ran
    <3> QED BY <2>2, <2>3, <3>1 DEF ChannelsOK, BeforeChannels
  <2>4. CASE epc = "after"
    <3>1. /\ txhdr0.type = op.type
          /\ op.for # "reset" => txhdr0.addr = op.addr /\ txhdr1 = op.value
      BY <2>1, <2>4 DEF FieldsOK
    <3>2. ~Ran
      BY <2>4 DEF Ran
    <3>3. CASE op.for = "reset"
      <4>1. txhdr0.type = IN_BAND_RESET
        BY <2>1, <3>1, <3>3 DEF OpOK, InBandReset, Command
      <4>2. Blank'
        BY <4>1, ExecutedFacts DEF Blank
      <4> QED BY <2>2, <2>4, <3>3, <4>2 DEF ChannelsOK, BeforeChannels
    <3>4. CASE op.for = "caps"
      <4>1. txhdr0.type = GET_CONFIGURATION /\ txhdr0.addr = "general"
        BY <2>1, <3>1, <3>4 DEF OpOK
      <4>2. device' = device /\ txhdr1' = caps.device
        BY <4>1, ExecutedFacts DEF DeviceRegister
      <4> QED BY <2>1, <2>2, <2>4, <3>4, <4>2, SMTT(30) DEF ChannelsOK, BeforeChannels, Blank
    <3>5. CASE op.for = "set"
      <4>1. txhdr0.type = SET_CONFIGURATION /\ txhdr0.addr = "general" /\ txhdr1 = op.value
        BY <2>1, <3>1, <3>5 DEF OpOK
      <4>2. /\ Blank /\ todo = EspiWanted /\ op.value = caps.device \cup IOModeSelect
        BY <2>1, <2>4, <3>5 DEF ChannelsOK, BeforeChannels
      <4>3. Blank' /\ device'.io = Mode
        BY <4>1, <4>2, ExecutedFacts DEF Blank, Mode
      <4> QED BY <2>2, <2>4, <3>5, <4>2, <4>3, SMTT(30)
              DEF ChannelsOK, BeforeChannels, Mode, IOModeSelect, EspiWanted
    <3>6. CASE op.for \in {"read", "ready"}
      <4>1. txhdr0.type = GET_CONFIGURATION /\ txhdr0.addr = op.addr /\ op.addr \in Channels
        BY <2>1, <3>1, <3>6 DEF OpOK
      <4>2. device' = device /\ txhdr1' = DeviceRegister(op.addr)
        BY <4>1, ExecutedFacts
      <4>3. "Ready" \in txhdr1' => op.addr \in device.ready
        BY <4>1, <4>2 DEF DeviceRegister, Channels
      <4>4. InLoop
        BY <2>1, <2>4, <3>6 DEF ChannelsOK
      <4>5. InLoop'
        BY <4>2, <4>3, <4>4 DEF InLoop, Mode, IOModeSelect, EspiWanted
      <4> QED BY <2>2, <2>4, <3>6, <4>5, SMTT(30) DEF ChannelsOK, BeforeChannels
    <3>7. CASE op.for = "enable"
      <4>1. /\ txhdr0.type = SET_CONFIGURATION /\ txhdr0.addr = op.addr /\ op.addr \in Channels
            /\ "En" \in txhdr1
        BY <2>1, <3>1, <3>7 DEF OpOK
      <4>2. /\ device'.en = device.en \cup {op.addr} /\ device'.ready = device.ready
            /\ device'.io = device.io
        BY <4>1, ExecutedFacts
      <4>3. InLoop
        BY <2>1, <2>4, <3>7 DEF ChannelsOK
      <4>4. InLoop'
        BY <3>7, <4>2, <4>3 DEF InLoop, Mode, IOModeSelect, EspiWanted
      <4> QED BY <2>2, <2>4, <3>7, <4>4, SMTT(30) DEF ChannelsOK, BeforeChannels
    <3> QED BY <3>3, <3>4, <3>5, <3>6, <3>7 DEF EspiTypes, Purposes
  <2> QED BY <2>1, <2>3, <2>4 DEF StatusOK
<1> QED BY <1>1, <1>3, <1>4

\* A channel of the device gets ready on its own.
LEMMA ChannelReadyStep ==
  ASSUME Espi, NEW ch \in Channels, ChannelReady(ch), c' = c
  PROVE  Espi'
<1> USE DEF Espi, ChannelReady, hostVars
<1>1. /\ device'.en = device.en /\ device'.io = device.io
      /\ device'.ready = device.ready \cup {ch} /\ ch \in device.en
  BY DEF EspiTypes
<1>2. EspiTypes'
  BY DEF EspiTypes
<1>3. CommandsOK'
  BY DEF CommandsOK, OpOK, StatusOK, FieldsOK
<1>4. ReadyOK'
  <2> SUFFICES ASSUME ~late, "OOB" \notin EspiWanted
               PROVE  ChannelsOK'
    BY DEF ReadyOK, EspiWanted
  <2>1. ChannelsOK
    BY DEF ReadyOK
  <2>2. (device.ready \subseteq device.en)'
    BY <1>1, <2>1 DEF ChannelsOK
  <2>3. Ran' <=> Ran
    BY DEF Ran
  <2>4. BeforeChannels => BeforeChannels'
    BY <1>1, <2>3 DEF BeforeChannels, Blank, Mode, IOModeSelect, EspiWanted
  <2>5. InLoop => InLoop'
    BY <1>1, <2>3 DEF InLoop, Mode, IOModeSelect, EspiWanted
  <2>6. SetUp => SetUp'
    BY <1>1 DEF SetUp, Mode, IOModeSelect, EspiWanted
  <2> QED BY <2>1, <2>2, <2>4, <2>5, <2>6 DEF ChannelsOK
<1> QED BY <1>2, <1>3, <1>4
-----------------------------------------------------------------------------
(* What the host makes of a result                                         *)

LEMMA FirstIn ==
  ASSUME NEW S \in SUBSET Channels, S # {}
  PROVE  First(S) \in S
BY Zenon DEF First, Channels

\* The values the host puts into commands.
LEMMA ValueTypes ==
  ASSUME EspiTypes
  PROVE  /\ txhdr1 \cup IOModeSelect \in SUBSET Words /\ txhdr1 \cup {"En"} \in SUBSET Words
         /\ {} \in SUBSET Words
         /\ GET_CONFIGURATION \in 0 .. 2 /\ SET_CONFIGURATION \in 0 .. 2
BY DEF EspiTypes, IOModeSelect, Words, IoModes, GET_CONFIGURATION, SET_CONFIGURATION

LEMMA CommandFields ==
  ASSUME NEW f, NEW t, NEW a, NEW v
  PROVE  /\ Command(f, t, a, v).for = f /\ Command(f, t, a, v).type = t
         /\ Command(f, t, a, v).addr = a /\ Command(f, t, a, v).value = v
         /\ f \in Purposes /\ t \in 0 .. 2 /\ a \in Addresses /\ v \in SUBSET Words =>
              Command(f, t, a, v) \in [for : Purposes, type : 0 .. 2, addr : Addresses,
                                       value : SUBSET Words]
BY DEF Command

\* What a new command has to satisfy when the host begins with it.
LEMMA BeginsCommand ==
  ASSUME Espi, EndCommand, c' = c, epc' = "before", op'.for # "reset",
         config' \in [channels : SUBSET Channels, io : IoModes], todo' \in SUBSET Channels,
         op' \in [for : Purposes, type : 0 .. 2, addr : Addresses, value : SUBSET Words],
         OpOK',
         ~late /\ "OOB" \notin EspiWanted =>
            BeforeChannels' /\ (op'.for \in {"read", "enable", "ready"} => InLoop')
  PROVE  Espi'
<1>1. UNCHANGED <<caps, txhdr0, txhdr1, device, DxHdr0, retry, late>> /\ epc = "end"
  BY DEF EndCommand
<1>2. EspiTypes'
  BY <1>1 DEF Espi, EspiTypes, Places
<1>3. ~late => txhdr0.status = 0
  BY <1>1 DEF Espi, EspiTypes, Headers, CommandsOK, StatusOK
<1>4. CommandsOK'
  BY <1>1, <1>3 DEF CommandsOK, StatusOK, FieldsOK
<1>5. ReadyOK'
  BY <1>1 DEF Espi, ReadyOK, ChannelsOK, EspiWanted
<1> QED BY <1>2, <1>4, <1>5, SMTT(30) DEF Espi

\* The in-band reset has run: the device is blank, and its capabilities are asked for.
LEMMA AfterReset ==
  ASSUME Espi, EndCommand, c' = c, op.for = "reset"
  PROVE  Espi'
<1>1. /\ epc = "end" /\ epc' = "before"
      /\ op' = Command("caps", GET_CONFIGURATION, "general", {})
      /\ UNCHANGED <<todo, config, caps, txhdr0, txhdr1, device, DxHdr0, retry, late>>
  BY DEF EndCommand, Continue
<1>2. /\ op'.for = "caps" /\ op'.type = GET_CONFIGURATION /\ op'.addr = "general"
      /\ op' \in [for : Purposes, type : 0 .. 2, addr : Addresses, value : SUBSET Words]
  BY <1>1, CommandFields, ValueTypes DEF Espi, Purposes, Addresses
<1>3. OpOK'
  BY <1>1, <1>2, SMTT(30) DEF OpOK
<1>4. ~late /\ "OOB" \notin EspiWanted => BeforeChannels'
  BY <1>1, <1>2 DEF Espi, ReadyOK, ChannelsOK, BeforeChannels, Ran, Blank
<1>5. todo' \in SUBSET Channels /\ config' \in [channels : SUBSET Channels, io : IoModes]
  BY <1>1 DEF Espi, EspiTypes
<1> QED BY <1>1, <1>2, <1>3, <1>4, <1>5, BeginsCommand, SMTT(30)

\* The capabilities are read: the channels both sides support are to be set up, and the
\* device is told the I/O mode.
LEMMA AfterCaps ==
  ASSUME Espi, EndCommand, c' = c, op.for = "caps"
  PROVE  Espi'
<1>1. /\ epc = "end" /\ epc' = "before"
      /\ op' = Command("set", SET_CONFIGURATION, "general", txhdr1 \cup IOModeSelect)
      /\ todo' = {ch \in Channels : Supported(ch)}
      /\ UNCHANGED <<config, caps, txhdr0, txhdr1, device, DxHdr0, retry, late>>
  BY DEF EndCommand, Continue
<1>2. /\ op'.for = "set" /\ op'.type = SET_CONFIGURATION /\ op'.addr = "general"
      /\ op'.value = txhdr1 \cup IOModeSelect
      /\ op' \in [for : Purposes, type : 0 .. 2, addr : Addresses, value : SUBSET Words]
  BY <1>1, CommandFields, ValueTypes DEF Espi, Purposes, Addresses
<1>3. OpOK'
  BY <1>1, <1>2 DEF OpOK
<1>4. ASSUME ~late, "OOB" \notin EspiWanted
      PROVE  BeforeChannels'
  <2>1. Blank /\ txhdr1 = caps.device
    BY <1>1, <1>4 DEF Espi, ReadyOK, ChannelsOK, BeforeChannels, Ran
  <2>2. todo' = EspiWanted
    BY <1>1, <2>1 DEF Espi, EspiTypes, EspiCapabilities, EspiWanted, Supported
  <2>3. ~Ran'
    BY <1>1 DEF Ran
  <2> QED BY <1>1, <1>2, <2>1, <2>2, <2>3, SMTT(30) DEF BeforeChannels, Blank, EspiWanted, IOModeSelect
<1>5. todo' \in SUBSET Channels /\ config' \in [channels : SUBSET Channels, io : IoModes]
  BY <1>1 DEF Espi, EspiTypes
<1> QED BY <1>1, <1>2, <1>3, <1>4, <1>5, BeginsCommand, SMTT(30)
\* The host turns to the next channel, or is done: all that is set up by now stays.
LEMMA NextChannelStep ==
  ASSUME Espi, EndCommand, c' = c, op.for # "reset",
         NEW rest \in SUBSET Channels, NextChannel(rest),
         config' \in [channels : SUBSET Channels, io : IoModes],
         ~late /\ "OOB" \notin EspiWanted =>
            /\ rest \subseteq EspiWanted /\ config'.channels = EspiWanted \ rest
            /\ config'.channels \subseteq device.ready
            /\ device.en \subseteq config'.channels
            /\ config'.io = Mode /\ device.io = Mode
  PROVE  Espi'
<1>1. /\ UNCHANGED <<caps, txhdr0, txhdr1, device, DxHdr0, retry, late>> /\ epc = "end"
      /\ todo' = rest
  BY DEF EndCommand, NextChannel
<1>2. CASE rest = {}
  <2>1. epc' = "done" /\ op' = op
    BY <1>2 DEF NextChannel
  <2>2. EspiTypes'
    BY <1>1, <2>1 DEF Espi, EspiTypes, Places
  <2>3. CommandsOK'
    BY <1>1, <2>1 DEF Espi, EspiTypes, Headers, CommandsOK, OpOK, StatusOK, FieldsOK
  <2>4. ASSUME ~late, "OOB" \notin EspiWanted
        PROVE  ChannelsOK'
    <3>1. device.ready \subseteq device.en
      BY <2>4 DEF Espi, ReadyOK, ChannelsOK
    <3>2. SetUp'
      BY <1>1, <1>2, <2>4, <3>1, SMTT(30) DEF SetUp, Mode, IOModeSelect, EspiWanted
    <3> QED BY <1>1, <2>1, <3>1, <3>2 DEF ChannelsOK
  <2>5. ReadyOK'
    BY <1>1, <2>4 DEF ReadyOK, EspiWanted
  <2> QED BY <2>2, <2>3, <2>5 DEF Espi
<1>3. CASE rest # {}
  <2>1. epc' = "before" /\ op' = Command("read", GET_CONFIGURATION, First(rest), {})
    BY <1>3 DEF NextChannel, Continue
  <2>2. First(rest) \in rest /\ First(rest) \in Channels /\ First(rest) \in Addresses
    BY <1>3, FirstIn DEF Addresses
  <2>3. /\ op'.for = "read" /\ op'.type = GET_CONFIGURATION /\ op'.addr = First(rest)
        /\ op' \in [for : Purposes, type : 0 .. 2, addr : Addresses, value : SUBSET Words]
    BY <2>1, <2>2, CommandFields, ValueTypes, SMTT(30) DEF Espi, Purposes
  <2>4. OpOK'
    BY <2>1, <2>2, <2>3 DEF OpOK
  <2>5. BeforeChannels'
    BY <2>3 DEF BeforeChannels
  <2>6. ~late /\ "OOB" \notin EspiWanted => InLoop'
    BY <1>1, <2>2, <2>3 DEF InLoop, Mode, IOModeSelect, EspiWanted
  <2> QED BY <1>1, <2>1, <2>3, <2>4, <2>5, <2>6, BeginsCommand, ZenonT(40)
<1> QED BY <1>2, <1>3

\* The device has its I/O mode: ESPI_SECONDARY0_CONFIG gets it too, with no channel.
LEMMA AfterSet ==
  ASSUME Espi, EndCommand, c' = c, op.for = "set"
  PROVE  Espi'
<1>1. epc = "end" /\ config' = [channels |-> {}, io |-> IoOf(op.value)] /\ NextChannel(todo)
  BY DEF EndCommand
<1>2. config' \in [channels : SUBSET Channels, io : IoModes]
  BY <1>1 DEF IoOf, IoModes
<1>3. ASSUME ~late, "OOB" \notin EspiWanted
      PROVE  /\ todo \subseteq EspiWanted /\ config'.channels = EspiWanted \ todo
             /\ config'.channels \subseteq device.ready
             /\ device.en \subseteq config'.channels
             /\ config'.io = Mode /\ device.io = Mode
  <2>1. /\ Blank /\ todo = EspiWanted /\ op.value = caps.device \cup IOModeSelect
        /\ device.io = Mode
    BY <1>1, <1>3 DEF Espi, ReadyOK, ChannelsOK, BeforeChannels, Ran
  <2> QED BY <1>1, <2>1 DEF Blank, Mode
<1>4. todo \in SUBSET Channels
  BY DEF Espi, EspiTypes
<1> QED BY <1>1, <1>2, <1>3, <1>4, NextChannelStep

\* A channel's register is read, and written back with the enable bit.
LEMMA AfterRead ==
  ASSUME Espi, EndCommand, c' = c, op.for = "read"
  PROVE  Espi'
<1>1. /\ epc = "end" /\ epc' = "before"
      /\ op' = Command("enable", SET_CONFIGURATION, op.addr, txhdr1 \cup {"En"})
      /\ UNCHANGED <<todo, config, caps, txhdr0, txhdr1, device, DxHdr0, retry, late>>
  BY DEF EndCommand, Continue
<1>2. op.addr \in Addresses
  BY DEF Espi, EspiTypes
<1>3. /\ op'.for = "enable" /\ op'.type = SET_CONFIGURATION /\ op'.addr = op.addr
      /\ op'.value = txhdr1 \cup {"En"}
      /\ op' \in [for : Purposes, type : 0 .. 2, addr : Addresses, value : SUBSET Words]
  BY <1>1, <1>2, CommandFields, ValueTypes DEF Espi, Purposes
<1>4. OpOK'
  BY <1>1, <1>3 DEF Espi, CommandsOK, OpOK
<1>5. BeforeChannels'
  BY <1>3 DEF BeforeChannels
<1>6. ~late /\ "OOB" \notin EspiWanted => InLoop'
  BY <1>1, <1>3, Zenon DEF Espi, ReadyOK, ChannelsOK, InLoop, Mode, IOModeSelect, EspiWanted
<1>7. todo' \in SUBSET Channels /\ config' \in [channels : SUBSET Channels, io : IoModes]
  BY <1>1 DEF Espi, EspiTypes
<1> QED BY <1>1, <1>3, <1>4, <1>5, <1>6, <1>7, BeginsCommand

\* The register is read, again and again, for its ready bit.
LEMMA AfterEnable ==
  ASSUME Espi, EndCommand, c' = c,
         op.for = "enable" \/ (op.for = "ready" /\ ~ChannelIsReady)
  PROVE  Espi'
<1>1. /\ epc = "end" /\ epc' = "before"
      /\ op' = Command("ready", GET_CONFIGURATION, op.addr, {})
      /\ UNCHANGED <<todo, config, caps, txhdr0, txhdr1, device, DxHdr0, retry, late>>
  BY Zenon DEF EndCommand, Continue
<1>2. op.addr \in Addresses
  BY DEF Espi, EspiTypes
<1>3. /\ op'.for = "ready" /\ op'.type = GET_CONFIGURATION /\ op'.addr = op.addr
      /\ op' \in [for : Purposes, type : 0 .. 2, addr : Addresses, value : SUBSET Words]
  BY <1>1, <1>2, CommandFields, ValueTypes, SMTT(30) DEF Espi, Purposes
<1>4. OpOK'
  BY <1>1, <1>3, SMTT(30) DEF Espi, CommandsOK, OpOK
<1>5. BeforeChannels'
  BY <1>3, SMTT(30) DEF BeforeChannels
<1>6. ~late /\ "OOB" \notin EspiWanted => InLoop'
  BY <1>1, <1>3 DEF Espi, ReadyOK, ChannelsOK, InLoop, Ran, Mode, IOModeSelect, EspiWanted
<1>7. todo' \in SUBSET Channels /\ config' \in [channels : SUBSET Channels, io : IoModes]
  BY <1>1 DEF Espi, EspiTypes
<1> QED BY <1>1, <1>3, <1>4, <1>5, <1>6, <1>7, BeginsCommand, SMTT(30)

\* The channel is ready: ESPI_SECONDARY0_CONFIG gets its enable bit.
LEMMA AfterReady ==
  ASSUME Espi, EndCommand, c' = c, op.for = "ready", ChannelIsReady
  PROVE  Espi'
<1>1. /\ epc = "end" /\ config' = [config EXCEPT !.channels = @ \cup {EnableBit(op.addr)}]
      /\ NextChannel(todo \ {op.addr}) /\ late' = late
  BY DEF EndCommand
<1>2. config.channels \in SUBSET Channels /\ config.io \in IoModes /\ todo \in SUBSET Channels
  BY DEF Espi, EspiTypes
<1>3. config'.channels = config.channels \cup {EnableBit(op.addr)} /\ config'.io = config.io
  BY <1>1 DEF Espi, EspiTypes
<1>4. op.addr \in Channels
  BY DEF Espi, CommandsOK, OpOK
<1>5. config' \in [channels : SUBSET Channels, io : IoModes]
  <2>1. EnableBit(op.addr) \in Channels
    BY <1>4 DEF EnableBit, Channels
  <2> QED BY <1>1, <1>2, <2>1 DEF Espi, EspiTypes
<1>6. ASSUME ~late, "OOB" \notin EspiWanted
      PROVE  /\ todo \ {op.addr} \subseteq EspiWanted
             /\ config'.channels = EspiWanted \ (todo \ {op.addr})
             /\ config'.channels \subseteq device.ready
             /\ device.en \subseteq config'.channels
             /\ config'.io = Mode /\ device.io = Mode
  <2>1. InLoop
    BY <1>1, <1>6 DEF Espi, ReadyOK, ChannelsOK
  <2>2. op.addr \in device.ready
    BY <1>1, <2>1 DEF InLoop, Ran, ChannelIsReady
  <2>3. EnableBit(op.addr) = op.addr
    BY <1>6, <2>1 DEF InLoop, EnableBit
  <2> QED BY <1>3, <2>1, <2>2, <2>3 DEF InLoop
<1>7. todo \ {op.addr} \in SUBSET Channels
  BY <1>2
<1> QED BY <1>1, <1>5, <1>6, <1>7, NextChannelStep, SMTT(30)

LEMMA EndCommandStep ==
  ASSUME Espi, EndCommand, c' = c
  PROVE  Espi'
<1>1. op.for \in Purposes
  BY DEF Espi, EspiTypes
<1> QED BY <1>1, AfterReset, AfterCaps, AfterSet, AfterRead, AfterEnable, AfterReady, SMTT(30) DEF Purposes

\* Every step of the host.
LEMMA HostStep ==
  ASSUME Espi, FchinitHSEspiSecondary0Device, c' = c
  PROVE  Espi'
BY ResetBeginStep, ResetStrayStep, CheckBeforeStep, ReadHeaderStep, WriteSelectStep,
   WriteTypeStep, WriteAddressStep, WriteDataStep, StartStep, CheckAfterStep, EndCommandStep, SMTT(30)
   DEF FchinitHSEspiSecondary0Device
-----------------------------------------------------------------------------
(* The stages                                                              *)

\* All of it holds when time point 1 begins: no command has been started.
LEMMA InitHolds == Init => IInv
<1> SUFFICES ASSUME Init PROVE IInv
  OBVIOUS
<1>1. caps \in EspiCapabilities
  BY FchAssumption DEF Init
<1>2. EspiTypes
  <2>1. caps.entry \in SUBSET Channels
    BY <1>1, SMTT(30) DEF EspiCapabilities
  <2>2. op \in [for : Purposes, type : 0 .. 2, addr : Addresses, value : SUBSET Words]
    BY CommandFields, SMTT(30) DEF Init, EspiInit, InBandReset, Purposes, Addresses, IN_BAND_RESET
  <2>3. txhdr0 \in Headers
    BY SMTT(30) DEF Init, EspiInit, Headers, Addresses
  <2> QED BY <1>1, <2>1, <2>2, <2>3, ZenonT(40) DEF Init, EspiInit, EspiTypes, Places, IoModes
<1>3. epc = "off" /\ op = InBandReset /\ op.for = "reset" /\ config.channels = caps.entry
      /\ txhdr0.status = 0 /\ device.ready = device.en /\ ~Ran
  BY CommandFields, SMTT(30) DEF Init, EspiInit, InBandReset, Ran
<1>4. CommandsOK
  BY <1>3 DEF CommandsOK, OpOK, StatusOK, FieldsOK
<1>5. ReadyOK
  BY <1>3, SMTT(30) DEF ReadyOK, ChannelsOK, BeforeChannels
<1>6. StageOK
  BY <1>3 DEF Init, StageOK
<1> QED BY <1>2, <1>4, <1>5, <1>6 DEF IInv

LEMMA EspiKept ==
  ASSUME Espi, c' = c, UNCHANGED espiVars
  PROVE  Espi'
<1> USE DEF espiVars, hostVars
<1>1. EspiTypes'
  BY DEF Espi, EspiTypes
<1>2. CommandsOK'
  BY ZenonT(30) DEF Espi, CommandsOK, OpOK, StatusOK, FieldsOK
<1>3. ReadyOK'
  BY Zenon DEF Espi, ReadyOK, ChannelsOK, BeforeChannels, InLoop, SetUp, Blank, Ran, Mode,
         IOModeSelect, EspiWanted
<1> QED BY <1>1, <1>2, <1>3 DEF Espi

\* The stages of time point 1 and its end, and those at which nothing goes on.
Early == {"Ab", "HwAcpi", "devices", "spread", "Usb", "Spi", "Sata", "controllers", "End",
          "hung", "resetting"}

LEMMA EarlyStep ==
  ASSUME StageOK, UNCHANGED <<c, base, route, epc>>,
         stage' = stage \/ (stage' \in Early /\ stage \notin {"espi", "called"})
  PROVE  StageOK'
BY Zenon DEF StageOK, Early

\* The blocks of time point 1.
LEMMA Tp1Step ==
  ASSUME IInv,
         \/ InitializeFchHwAcpiPreliminaryTp1 \/ FchAbTp1 \/ FchInitHwAcpiPrePciCmn
         \/ FchI2cUartInit \/ AfterI2cUart \/ SpreadSpectrum
         \/ InitializeFchUsbTp1 \/ InitializeFchSpiTp1
         \/ InitializeFchSataTp1 \/ FchInitEnvProgramSata \/ FchSataGpioInitial \/ StallHangs
         \/ EndOfTp1 \/ DevicePowers \/ GpioEngine
  PROVE  IInv'
<1>1. UNCHANGED <<c, base, route, espiVars>>
  BY Zenon DEF InitializeFchHwAcpiPreliminaryTp1, FchAbTp1, FchInitHwAcpiPrePciCmn, FchI2cUartInit,
         AfterI2cUart, SpreadSpectrum, InitializeFchUsbTp1, InitializeFchSpiTp1,
         InitializeFchSataTp1, FchInitEnvProgramSata, FchSataGpioInitial, StallHangs, EndOfTp1,
         DevicePowers, GpioEngine, Block, PowerOn, multiVars
<1>2. stage' = stage \/ (stage' \in Early /\ stage \notin {"espi", "called"})
  BY Zenon DEF InitializeFchHwAcpiPreliminaryTp1, FchAbTp1, FchInitHwAcpiPrePciCmn, FchI2cUartInit,
         AfterI2cUart, SpreadSpectrum, InitializeFchUsbTp1, InitializeFchSpiTp1,
         InitializeFchSataTp1, FchInitEnvProgramSata, FchSataGpioInitial, StallHangs, EndOfTp1,
         DevicePowers, GpioEngine, Block, PowerOn, Early
<1>3. StageOK'
  BY <1>1, <1>2, EarlyStep DEF IInv, espiVars, hostVars
<1> QED BY <1>1, <1>3, EspiKept DEF IInv, Espi

\* The set-up of the second FCH.
LEMMA MultiFchStep ==
  ASSUME IInv, MultiFchInit
  PROVE  IInv'
<1>1. UNCHANGED <<c, espiVars>>
  BY DEF MultiFchInit, FchSecondaryFchMmioRelocate, EnableIoCxxOnDieN, FchSecondaryFchIORegInit,
         DisableIoCxxOnDieN, EndOfMultiFch, MultiStep
<1>2. epc' = epc /\ StageOK
  BY <1>1 DEF IInv, espiVars, hostVars
<1>3. StageOK'
  <2>1. CASE FchSecondaryFchMmioRelocate
    BY <1>1, <1>2, <2>1 DEF FchSecondaryFchMmioRelocate, MultiStep, StageOK
  <2>2. CASE EnableIoCxxOnDieN
    BY <1>1, <1>2, <2>2, SMTT(30) DEF EnableIoCxxOnDieN, MultiStep, StageOK
  <2>3. CASE FchSecondaryFchIORegInit
    BY <1>1, <1>2, <2>3, SMTT(30) DEF FchSecondaryFchIORegInit, MultiStep, StageOK
  <2>4. CASE DisableIoCxxOnDieN
    BY <1>1, <1>2, <2>4, SMTT(30) DEF DisableIoCxxOnDieN, MultiStep, StageOK
  <2>5. CASE EndOfMultiFch
    BY <1>1, <1>2, <2>5 DEF EndOfMultiFch, MultiStep, StageOK
  <2> QED BY <2>1, <2>2, <2>3, <2>4, <2>5 DEF MultiFchInit
<1> QED BY <1>1, <1>3, EspiKept, SMTT(30) DEF IInv, Espi

\* The power-up and power-down of the eSPI controller, and the other entry points.
LEMMA CallStep ==
  ASSUME IInv,
         \/ InitializeFchEspi \/ EspiPowerOn \/ EspiPowerOff \/ EndOfEspi
         \/ CallLate \/ CallUsbDisablePort \/ CallUart \/ UartPower \/ UartDone
  PROVE  IInv'
<1>1. UNCHANGED <<c, base, route, espiVars>>
  BY Zenon DEF InitializeFchEspi, EspiPowerOn, EspiPowerOff, EndOfEspi, CallLate,
         CallUsbDisablePort, CallUart, UartPower, UartDone, Block, PowerOn, multiVars
<1>2. epc' = epc /\ StageOK
  BY <1>1 DEF IInv, espiVars, hostVars
<1>3. StageOK'
  <2>1. CASE InitializeFchEspi
    BY <1>1, <1>2, <2>1, Zenon DEF InitializeFchEspi, Block, StageOK
  <2>2. CASE EspiPowerOn \/ UartPower
    <3>1. stage' = stage
      BY <2>2, Zenon DEF EspiPowerOn, UartPower, PowerOn
    <3> QED BY <1>1, <1>2, <3>1, Zenon DEF StageOK
  <2>3. CASE EspiPowerOff
    <3>1. stage = "espi off" /\ stage' \in {"espi off", "called"}
      BY <2>3, ZenonT(40) DEF EspiPowerOff
    <3> QED BY <1>1, <1>2, <3>1, Zenon DEF StageOK
  <2>4. CASE EndOfEspi
    BY <1>1, <1>2, <2>4, SMTT(30) DEF EndOfEspi, Block, StageOK
  <2>5. CASE CallLate
    BY <1>1, <1>2, <2>5, SMTT(30) DEF CallLate, Block, StageOK
  <2>6. CASE CallUsbDisablePort
    BY <1>1, <1>2, <2>6, SMTT(30) DEF CallUsbDisablePort, StageOK
  <2>7. CASE CallUart
    BY <1>1, <1>2, <2>7, SMTT(30) DEF CallUart, Block, StageOK
  <2>8. CASE UartDone
    BY <1>1, <1>2, <2>8 DEF UartDone, StageOK
  <2> QED BY <2>1, <2>2, <2>3, <2>4, <2>5, <2>6, <2>7, <2>8, SMTT(30)
<1> QED BY <1>1, <1>3, EspiKept DEF IInv, Espi

\* FchinitHSEspiEc0: the host begins with the in-band reset, or leaves the device alone.
LEMMA EspiEc0Step ==
  ASSUME IInv, EspiEc0
  PROVE  IInv'
<1>1. /\ stage = "espi on" /\ stage' = "espi"
      /\ epc' = (IF c.EspiEc0Enable THEN "reset" ELSE "done")
      /\ UNCHANGED <<c, base, route, caps, txhdr0, txhdr1, config, device, op, DxHdr0, retry,
                     todo, late>>
  BY Zenon DEF EspiEc0, multiVars
<1>2. epc = "off" /\ StageOK
  BY <1>1, Zenon DEF IInv, StageOK
<1>3. EspiTypes'
  BY <1>1, ZenonT(40) DEF IInv, EspiTypes, Places
<1>4. op.for = "reset"
  BY <1>2, CommandFields DEF IInv, CommandsOK, OpOK, InBandReset
<1>5. CommandsOK'
  BY <1>1, <1>2, <1>4, Zenon DEF IInv, CommandsOK, OpOK, StatusOK, FieldsOK
<1>6. ReadyOK'
  <2>1. ~Ran'
    BY <1>1, Zenon DEF Ran
  <2> QED BY <1>1, <1>2, <1>4, <2>1, Zenon DEF IInv, ReadyOK, ChannelsOK, BeforeChannels, EspiWanted
<1>7. StageOK'
  BY <1>1, <1>2, Zenon DEF StageOK
<1> QED BY <1>3, <1>5, <1>6, <1>7 DEF IInv

\* The steps of the host, the controller and the device.
LEMMA EspiStep ==
  ASSUME IInv, EspiHost \/ EspiController \/ \E ch \in Channels : EspiChannel(ch)
  PROVE  IInv'
<1>1. stage = "espi" /\ UNCHANGED <<c, stage, base, route>>
  BY DEF EspiHost, EspiController, EspiChannel, fchVars
<1>2. Espi'
  BY <1>1, HostStep, RunCommandStep, ChannelReadyStep
     DEF EspiHost, EspiController, EspiChannel, IInv, Espi
<1>3. epc' # "off"
  <2>1. epc # "off"
    BY <1>1 DEF IInv, StageOK
  <2>2. CASE EspiHost
    <3>1. CASE EndCommand
      <4>1. op.for \in Purposes
        BY DEF IInv, EspiTypes
      <4> QED BY <3>1, <4>1, Zenon DEF EndCommand, Purposes, Continue, NextChannel
    <3>2. CASE CheckDnCommandStatus("before", "header") \/ CheckDnCommandStatus("after", "end")
      BY <2>1, <3>2, Zenon DEF CheckDnCommandStatus
    <3> QED BY <2>2, <3>1, <3>2, Zenon
            DEF EspiHost, FchinitHSEspiSecondary0Device, ResetBegin, ResetStray, ReadHeader,
                WriteSelect, WriteType, WriteAddress, WriteData, Start, WriteField
  <2>3. CASE EspiController \/ \E ch \in Channels : EspiChannel(ch)
    BY <2>1, <2>3 DEF EspiController, EspiChannel, RunCommand, ChannelReady, hostVars
  <2> QED BY <2>2, <2>3
<1>4. StageOK'
  BY <1>1, <1>3 DEF IInv, StageOK
<1> QED BY <1>2, <1>4 DEF IInv, Espi

\* What holds of the stages, the eSPI commands and the channels stays so.
LEMMA NextKeeps == IInv /\ [Next]_vars => IInv'
<1> SUFFICES ASSUME IInv, [Next]_vars PROVE IInv'
  OBVIOUS
<1>1. CASE UNCHANGED vars
  <2>1. UNCHANGED <<c, stage, base, route, espiVars>>
    BY <1>1 DEF vars, fchVars
  <2>2. StageOK'
    BY <2>1, Zenon DEF IInv, StageOK, espiVars, hostVars
  <2> QED BY <2>1, <2>2, EspiKept DEF IInv, Espi
<1>2. CASE Next
  BY <1>2, Tp1Step, MultiFchStep, CallStep, EspiEc0Step, EspiStep, ZenonT(40) DEF Next, Code
<1> QED BY <1>1, <1>2

\* The inductive invariant: at every place of the code the header register, the host's
\* copy of it, the device and ESPI_SECONDARY0_CONFIG are as far as that place says.
THEOREM Invariant == Spec => []IInv
BY InitHolds, NextKeeps, PTL DEF Spec

-----------------------------------------------------------------------------
(* The eSPI properties                                                     *)

\* When eSPI is set up and no poll ran out, both sides have exactly the channels that
\* FchinitHSEspiSecondary0Device was to enable, and the same I/O mode.
THEOREM ChannelsReady == Spec => []EspiChannelsReady
<1>1. IInv => EspiChannelsReady
  <2> SUFFICES ASSUME IInv, EspiSetUp, ~late, "OOB" \notin EspiWanted
               PROVE  /\ config.channels = EspiWanted /\ device.ready = EspiWanted
                      /\ config.io = device.io
                      /\ config.io = (IF caps.masterIo \in caps.deviceIo THEN caps.masterIo
                                      ELSE "single")
    BY DEF EspiChannelsReady
  <2>1. epc = "done" /\ c.EspiEc0Enable
    BY DEF IInv, StageOK, EspiSetUp
  <2>2. SetUp
    BY <2>1 DEF IInv, ReadyOK, ChannelsOK
  <2>3. "quad" \notin caps.device /\ "dual" \notin caps.device /\ caps.masterIo \in IoModes
    BY DEF IInv, EspiTypes, EspiCapabilities, Channels
  <2>4. Mode = (IF caps.masterIo \in caps.deviceIo THEN caps.masterIo ELSE "single")
    BY <2>3 DEF Mode, IoOf, IOModeSelect, IoModes
  <2> QED BY <2>2, <2>4 DEF SetUp
<1> QED BY <1>1, Invariant, PTL

\* The controller runs the command the host means and no other: EspiGetConfiguration and
\* EspiSetConfiguration fill in the header field by field, with a copy that carries the
\* status bit, and it is never set early.
THEOREM CommandsWhole == Spec => EspiCommandsWhole
<1>1. ASSUME IInv, [Next]_vars
      PROVE  [EspiController /\ ~late /\ "PC" \notin caps.entry =>
                /\ epc = "after" /\ txhdr0.type = op.type
                /\ op.for # "reset" => txhdr0.addr = op.addr /\ txhdr1 = op.value]_vars
  BY <1>1 DEF IInv, CommandsOK, StatusOK, FieldsOK, EspiController, RunCommand
<1> QED BY <1>1, Invariant, PTL DEF Spec, EspiCommandsWhole

-----------------------------------------------------------------------------
(* The second FCH                                                          *)

\* Writes to the registers of one space.
Within(f, space) == \A x \in DOMAIN f : x[1] = space

LEMMA WithinOverlay ==
  ASSUME NEW f, NEW g, NEW space, Within(f, space), Within(g, space)
  PROVE  Within(Overlay(f, g), space)
BY DEF Within, Overlay

LEMMA WithinRmw8 ==
  ASSUME NEW reg, NEW mask, NEW value
  PROVE  Within(Rmw8(reg, mask, value), "mmio")
BY DEF Within, Rmw8, Rmw

\* A 16-bit write to PMIO E0h.
LEMMA PortWrite ==
  ASSUME NEW value, NEW x \in DOMAIN Put16(PMIO_BASE + \hE0, value)
  PROVE  x[1] = "mmio" /\ x[2] \div 16 = (PMIO_BASE + \hE0) \div 2
<1>1. Ones(value, 16) \subseteq 0 .. 15
  BY DEF Ones
<1>2. PICK b \in (0 .. 15) \cup Ones(value, 16) : x = <<"mmio", 8 * (PMIO_BASE + \hE0) + b>>
  BY DEF Put16, Rmw
<1>3. x[1] = "mmio" /\ x[2] = 7936 + b /\ b \in 0 .. 15
  BY <1>1, <1>2 DEF PMIO_BASE
<1>4. (7936 + b) \div 16 = 496
  BY <1>3
<1> QED BY <1>3, <1>4 DEF PMIO_BASE

\* Writes of which an FCH gets no part leave its registers as they are.
LEMMA NoPart ==
  ASSUME NEW f, NEW g, NEW fch, \A x \in DOMAIN g : x[1] \notin Reached(fch)
  PROVE  /\ DOMAIN Overlay(f, PartOf(g, fch)) = DOMAIN f
         /\ \A x \in DOMAIN f : Overlay(f, PartOf(g, fch))[x] = f[x]
BY ZenonT(40) DEF Overlay, PartOf

\* A step of MultiFchInit with memory reserved for the second FCH's registers changes
\* no register of the first one but the A-link port.
LEMMA FirstUntouched ==
  ASSUME IInv, MultiFchInit, c.reserved, NEW x \in DOMAIN regs'
  PROVE  \/ x[1] = "mmio" /\ x[2] \div 16 = (PMIO_BASE + \hE0) \div 2
         \/ x \in DOMAIN regs /\ regs'[x] = regs[x]
<1>1. CASE FchSecondaryFchIORegInit /\ c.abBlock
  <2> DEFINE writes == FchSecondaryFchInitAB(c)
             port == Put16(PMIO_BASE + \hE0, 0)
             kept == Overlay(regs, PartOf(writes, "first"))
  <2>1. regs' = Overlay(kept, port)
    BY <1>1 DEF FchSecondaryFchIORegInit
  <2>2. base = "second" /\ route = "second"
    BY <1>1 DEF IInv, StageOK, FchSecondaryFchIORegInit, MultiStep
  <2>3. Reached("first") = {}
    BY <2>2 DEF Reached
  <2> HIDE DEF writes
  <2>4. DOMAIN kept = DOMAIN regs /\ \A y \in DOMAIN regs : kept[y] = regs[y]
    BY <2>3, NoPart
  <2> HIDE DEF kept
  <2>5. CASE x \in DOMAIN port
    BY <2>5, PortWrite
  <2>6. CASE x \notin DOMAIN port
    <3> HIDE DEF port
    <3>1. x \in DOMAIN kept /\ regs'[x] = kept[x]
      BY <2>1, <2>6, SMTT(30) DEF Overlay
    <3> QED BY <2>4, <3>1, SMTT(30)
  <2> QED BY <2>5, <2>6
<1>2. CASE EndOfMultiFch
  <2> DEFINE one == Rmw8(PMIO_BASE + \hD3, \hBF, 0)
             two == Rmw8(PMIO_BASE + \hE8, \hFE, 0)
             three == Rmw8(AOAC_BASE + \h72, \hF7, 0)
             writes == Overlay(Overlay(one, two), three)
  <2>1. regs' = Overlay(regs, PartOf(writes, "first"))
    BY <1>2 DEF EndOfMultiFch
  <2>2. Within(one, "mmio") /\ Within(two, "mmio") /\ Within(three, "mmio")
    BY WithinRmw8
  <2> HIDE DEF one, two, three
  <2>3. Within(Overlay(one, two), "mmio")
    BY <2>2, WithinOverlay, SMTT(30)
  <2>4. Within(writes, "mmio")
    BY <2>2, <2>3, WithinOverlay, SMTT(30)
  <2>5. base = "second"
    BY <1>2 DEF IInv, StageOK, EndOfMultiFch, MultiStep
  <2>6. "mmio" \notin Reached("first")
    BY <2>5 DEF Reached
  <2> HIDE DEF writes
  <2>7. \A y \in DOMAIN writes : y[1] \notin Reached("first")
    BY <2>4, <2>6 DEF Within
  <2> QED BY <2>1, <2>7, NoPart, SMTT(30)
<1>3. CASE regs' = regs
  BY <1>3
<1> QED BY <1>1, <1>2, <1>3, SMTT(30)
        DEF MultiFchInit, FchSecondaryFchMmioRelocate, EnableIoCxxOnDieN,
            FchSecondaryFchIORegInit, DisableIoCxxOnDieN

\* MultiFchInit sets up the second FCH without touching the first one, except for the
\* A-link port, and gives the I/O ports back.
THEOREM SecondApart == Spec => SecondaryApart
<1>1. ASSUME IInv, MultiFchInit
      PROVE  /\ stage' = "called" => route' = "first"
             /\ c.reserved =>
                  \A x \in DOMAIN regs' :
                     \/ x[1] = "mmio" /\ x[2] \div 16 = (PMIO_BASE + \hE0) \div 2
                     \/ x \in DOMAIN regs /\ regs'[x] = regs[x]
  <2>1. stage' = "called" => route' = "first"
    BY <1>1, ZenonT(30) DEF IInv, StageOK, MultiFchInit, FchSecondaryFchMmioRelocate, EnableIoCxxOnDieN,
       FchSecondaryFchIORegInit, DisableIoCxxOnDieN, EndOfMultiFch, MultiStep
  <2> QED BY <1>1, <2>1, FirstUntouched
<1>2. ASSUME IInv
      PROVE  [MultiFchInit =>
                /\ stage' = "called" => route' = "first"
                /\ c.reserved =>
                     \A x \in DOMAIN regs' :
                        \/ x[1] = "mmio" /\ x[2] \div 16 = (PMIO_BASE + \hE0) \div 2
                        \/ x \in DOMAIN regs /\ regs'[x] = regs[x]]_vars
  BY <1>1, <1>2
<1> QED BY <1>2, Invariant, PTL DEF Spec, SecondaryApart
=============================================================================
