--------------------------- MODULE IpBlkListF19M10 --------------------------
(***************************************************************************)
(* The IP record lists of the F19M10 SoC (xSIM/SoC/F19M10), one per time   *)
(* point, in the order of the tables.  Sizes are those of the 64-bit build *)
(* with the Onyx platform configuration.  The blocks an IP creates and     *)
(* looks up and the statuses it returns come from its SetInput and         *)
(* Initialize functions.                                                   *)
(***************************************************************************)
EXTENDS Integers, Sequences

Blk(id, size) == [Id |-> id, Instance |-> 0, BlockSize |-> size]

(* A record without functions of its own. *)
Bare(id) ==
    [IpID |-> id, BlkRequestSize |-> 0, setInput |-> FALSE,
     created |-> << >>, ignoresNull |-> FALSE, initialize |-> FALSE,
     late |-> << >>, finds |-> {}, missing |-> "SilNotFound", asserts |-> {}, returns |-> {"SilPass"},
     apiInit |-> TRUE]

(* A record whose SetInput creates one block of the requested size and     *)
(* whose Initialize looks it up and returns one of ret.                    *)
Ip(id, size, ret) ==
    [Bare(id) EXCEPT !.BlkRequestSize = size, !.setInput = TRUE,
                     !.created = <<Blk(id, size)>>,
                     !.initialize = TRUE, !.finds = {id}, !.returns = ret]

Pass == {"SilPass"}
RcMgrReturns == {"SilPass", "SilAborted", "SilOutOfResources"}
CcxReturns == {"SilPass", "SilDeviceError",
               "SilResetRequestColdImm", "SilResetRequestWarmImm"}
MpioReturns == {"SilPass", "SilNotFound"}

RcManager == [Ip("RcManager", 13500, RcMgrReturns) EXCEPT !.ignoresNull = TRUE]

(* NBIO keeps a pointer to its block; its Initialize also creates the      *)
(* block of SilId_NorthBridgePcie, of PcieSize bytes.                      *)
NbioClass(PcieSize) ==
    [Ip("NbioClass", 124, {"SilPass", "SilAborted"})
       EXCEPT !.late = <<Blk("NorthBridgePcie", PcieSize)>>, !.missing = "SilAborted"]

(* Room reserved for six IOHC0 and two IOHC1 configurations; the table has *)
(* no function for it.                                                     *)
NorthBridgePcie == [Bare("NorthBridgePcie") EXCEPT !.BlkRequestSize = 25966,
                                                   !.apiInit = FALSE]

CcxClass == [Ip("CcxClass", 241, CcxReturns)
               EXCEPT !.created = <<Blk("CcxClass", 237)>>]

FchClass == [Ip("FchClass", 457, Pass) EXCEPT !.initialize = FALSE]
FchHwAcpiP == [Ip("FchHwAcpiP", 138, Pass)
                 EXCEPT !.finds = {"FchHwAcpiP", "FchClass"}]
FchHwAcpi == [Bare("FchHwAcpi") EXCEPT !.initialize = TRUE, !.apiInit = FALSE,
                                       !.finds = {"FchHwAcpiP", "FchClass"}]
NoApi(r) == [r EXCEPT !.apiInit = FALSE]
MultiFchClass == [Bare("MultiFchClass") EXCEPT !.initialize = TRUE]

MpioClass == [Ip("MpioClass", 79117, MpioReturns)
                EXCEPT !.finds = {}, !.asserts = {"MpioClass", "NorthBridgePcie"}]
SdciClass == [Ip("SdciClass", 1, Pass) EXCEPT !.asserts = {"NorthBridgePcie"}]
CxlClass == [Ip("CxlClass", 9, Pass) EXCEPT !.asserts = {"NorthBridgePcie"}]

(* The example IP: an input block and a private block under one record. *)
XmpClass == [Ip("XmpClass", 48, Pass)
               EXCEPT !.created = <<Blk("XmpClass", 24),
                                    [Blk("XmpClass", 16) EXCEPT !.Instance = 1]>>]

SocIpTblF19M10Tp1(PcieSize) ==
    << RcManager, Ip("DfClass", 42, Pass), Bare("SmuClass"),
       NbioClass(PcieSize), NorthBridgePcie, CcxClass, FchClass, FchHwAcpiP,
       NoApi(Ip("FchAb", 17, Pass)), FchHwAcpi, Ip("FchUsb", 785, Pass),
       NoApi(Ip("FchSpi", 17, Pass)), Ip("FchSata", 268, Pass),
       MultiFchClass, Bare("RasClass"), MpioClass, SdciClass, CxlClass >>

SocIpTblF19M10Tp2 ==
    << Bare("DfClass"), Bare("SmuClass"), Bare("NbioClass"), Bare("CcxClass"),
       Bare("FchClass"), Bare("FchHwAcpiP"), Bare("FchUsb"), Bare("FchSata"),
       Bare("MultiFchClass"), Bare("RasClass") >>

SocIpTblF19M10Tp3 ==
    << Bare("SmuClass"), Bare("CcxClass"), Bare("FchClass"), Bare("FchHwAcpiP"),
       Bare("FchUsb"), Bare("FchSata"), Bare("MultiFchClass"), Bare("RasClass") >>

(* The example IP is appended to the list of time point 1 when configured. *)
WithXmp(list) == Append(list, XmpClass)
=============================================================================
