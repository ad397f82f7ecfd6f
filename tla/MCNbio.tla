-------------------------------- MODULE MCNbio --------------------------------
(***************************************************************************)
(* NBIO on one socket with its four root bridges.                          *)
(***************************************************************************)
EXTENDS Nbio

MCBridges == [i \in 1..4 |-> [socket |-> 0, rb |-> i - 1, bus |-> 32 * i, sb |-> i = 4]]

\* Every set of fused-off cores.  Bits 2 and 6 stand for two cores each.
MCFuses == {0 :> fused : fused \in SUBSET (0..7)}

OtherOptions ==
  {"CfgSyshubMgcgClkGating", "IoApicIdPreDefineEn", "IohcNonPCIBarInitDbg",
   "IohcNonPCIBarInitFastReg", "IohcNonPCIBarInitFastRegCtl", "IommuAvicSupport", "SevSnpSupport",
   "xApicMode", "SteppingAx"} \union {CommonStraps[k].option : k \in DOMAIN CommonStraps}

Config(on) == [on |-> on, IoApicIdBase |-> 241, NbifMgcgHysteresis |-> 0, SyshubMgcgHysteresis |-> 0]

\* Every option turned over, all on, none, and the hysteresis values.
MCConfigs ==
  {Config((DefaultOptions \ {o}) \union ({o} \ DefaultOptions)) : o \in DefaultOptions \union OtherOptions}
    \union {Config(DefaultOptions), Config(DefaultOptions \union OtherOptions), Config({}),
            [Config(DefaultOptions) EXCEPT !.NbifMgcgHysteresis = 5, !.SyshubMgcgHysteresis = 9,
                                           !.IoApicIdBase = 254]}

Ample == [i \in 1..4 |-> 6]

\* Room that runs out at each kind of reservation, in each root bridge.
MCRooms == {[Ample EXCEPT ![i] = n] : i \in 1..4, n \in 0..2}

Memory(tom2) == [tom |-> 512, tom2 |-> tom2, tom2En |-> TRUE]

\* No memory above 4 GB, and TOM2 at, below and above 1 TB.
MCMemories ==
  {[Memory(FourGB) EXCEPT !.tom2En = FALSE]}
    \union {Memory(t) : t \in {FourGB + 2, 4 * FourGB, OneTB - 2, OneTB, OneTB + 2,
                               OneTB + 4096, 2^21}}

Input(f, c, r, m) == [fuses |-> f, config |-> c, room |-> r, memory |-> m]

NoFuses == 0 :> {}

\* One thing at a time away from the ordinary.
MCInputs ==
  {Input(f, Config(DefaultOptions), Ample, Memory(4096)) : f \in MCFuses}
    \union {Input(NoFuses, c, Ample, Memory(4096)) : c \in MCConfigs}
    \union {Input(NoFuses, Config(DefaultOptions \union {"IoApicIdPreDefineEn"}), r, Memory(4096)) : r \in MCRooms}
    \union {Input(NoFuses, Config(DefaultOptions), Ample, m) : m \in MCMemories}
=============================================================================
