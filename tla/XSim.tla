-------------------------------- MODULE XSim --------------------------------
(***************************************************************************)
(* The xSIM core (xSIM/xSIM.c) and the info-block heap it keeps in the     *)
(* memory block the host hands over: the three time points, the walk over  *)
(* the IP record list of each of them, the block allocator and its chain   *)
(* of headers, and the collection of deferred reset requests.              *)
(*                                                                         *)
(* An IP is abstracted to its record: the size it requests, the blocks its *)
(* SetInput and its Initialize create, the blocks its Initialize looks up  *)
(* and the statuses it may return.  Sizes are the program's, in bytes.     *)
(***************************************************************************)
EXTENDS Integers, Sequences

CONSTANTS
    VarsSize,       \* sizeof(SIL_BLOCK_VARIABLES)
    HdrSize,        \* sizeof(SIL_INFO_BLOCK_HEADER)
    Uint32,         \* number of values of a uint32_t
    Boundary,       \* 2 * KILOBYTE, the rounding of the total
    IpList,         \* IpList[tp]: the IP records of time point tp, in order
    HostSizes,      \* the MemorySize values a host may pass
    Need,           \* Need[k]: the running RequestTotal after k records
    SetEnd,         \* SetEnd[k]: heap end after the SetInput of k records
    LateEnd         \* LateEnd[k]: heap end after the Initialize of k records

(***************************************************************************)
(* SIL_STATUS values the core tells apart (Include/Sil-api.h).             *)
(***************************************************************************)
SilPass == "SilPass"
SilColdDef == "SilResetRequestColdDef"
SilWarmDef == "SilResetRequestWarmDef"
Deferred == {SilColdDef, SilWarmDef}
Errors == {"SilInvalidParameter", "SilAborted", "SilOutOfResources",
           "SilNotFound", "SilDeviceError"}
Statuses == {SilPass} \cup Deferred \cup Errors
              \cup {"SilResetRequestColdImm", "SilResetRequestWarmImm"}

(* A block as SilCreateInfoBlock is asked for it. *)
Block == [Id : STRING, Instance : Nat, BlockSize : Nat]

(***************************************************************************)
(* IP_RECORD.  setInput and initialize tell whether the function pointer   *)
(* is not NULL.  created are the blocks SetInput creates, at most two;     *)
(* ignoresNull holds when it does not look at what the allocator returned. *)
(* late are the blocks Initialize creates, finds and asserts the blocks it *)
(* looks up: a missing one of finds makes it return the status missing, a  *)
(* missing one of asserts fails an assertion.  returns are the statuses it *)
(* may return.                                                             *)
(***************************************************************************)
IpRecord == [IpID : STRING, BlkRequestSize : Nat, setInput : BOOLEAN,
             created : Seq(Block), ignoresNull : BOOLEAN,
             initialize : BOOLEAN, late : Seq(Block),
             finds : SUBSET STRING, missing : Errors, asserts : SUBSET STRING,
             returns : SUBSET Statuses, apiInit : BOOLEAN]

(* RoundUp: always adds, an aligned value included. *)
RoundUp(Data, RoundTo) == Data + RoundTo - (Data % RoundTo)

(* The size SilCreateInfoBlock takes for a block of BlockSize bytes. *)
RequestSize(BlockSize) == RoundUp(HdrSize + BlockSize, 4)

Tp1 == IpList[1]
N == Len(Tp1)

(* The share of one record in the total. *)
QueryShare(r) == IF r.BlkRequestSize > 0 THEN RequestSize(r.BlkRequestSize) ELSE 0

(* xSimQueryMemoryRequirements: the size a host is told to provide. *)
xSimQueryMemoryRequirements == RoundUp(Need[N], Boundary)

(* Bytes the blocks of one call take, when all of them are created. *)
Taken(s) == IF s = << >> THEN 0
            ELSE IF Len(s) = 1 THEN RequestSize(s[1].BlockSize)
            ELSE RequestSize(s[1].BlockSize) + RequestSize(s[2].BlockSize)

(* What SetInput takes: it is called only for a record that requests space. *)
SetTaken(r) == IF r.BlkRequestSize > 0 /\ r.setInput THEN Taken(r.created) ELSE 0

ASSUME SizesAssumption ==
    /\ VarsSize \in Nat \ {0}
    /\ HdrSize \in Nat \ {0}
    /\ Uint32 \in Nat
    /\ Boundary \in Nat \ {0}
    /\ HostSizes \subseteq 0 .. Uint32 - 1
    /\ VarsSize < Uint32

ASSUME ListAssumption ==
    /\ DOMAIN IpList = 1 .. 3
    /\ \A tp \in 1 .. 3 :
         /\ IpList[tp] \in Seq(IpRecord)
         /\ \A k \in 1 .. Len(IpList[tp]) :
               /\ Len(IpList[tp][k].created) \in 0 .. 2
               /\ Len(IpList[tp][k].late) \in 0 .. 1

(* Need, SetEnd and LateEnd are the running totals their names say. *)
ASSUME TotalsAssumption ==
    /\ Need \in [0 .. N -> Nat]
    /\ Need[0] = VarsSize
    /\ \A k \in 1 .. N : Need[k] = Need[k - 1] + QueryShare(Tp1[k])
    /\ SetEnd \in [0 .. N -> Nat]
    /\ SetEnd[0] = VarsSize
    /\ \A k \in 1 .. N : SetEnd[k] = SetEnd[k - 1] + SetTaken(Tp1[k])
    /\ LateEnd \in [0 .. N -> Nat]
    /\ LateEnd[0] = SetEnd[N]
    /\ \A k \in 1 .. N : LateEnd[k] = LateEnd[k - 1] + Taken(Tp1[k].late)

(* What makes the query enough: the room each record asks for covers what  *)
(* is taken before and by it, and an Initialize that creates a block is    *)
(* never called again because it deferred a reset.                         *)
ASSUME RoomAssumption ==
    /\ \A k \in 0 .. N : SetEnd[k] <= Need[N] /\ LateEnd[k] <= Need[N]
    /\ \A k \in 1 .. N : SetEnd[k - 1] + Tp1[k].BlkRequestSize <= Need[N]
    /\ \A k \in 1 .. N : Tp1[k].late # << >> => Tp1[k].returns \cap Deferred = {}
    /\ \A t \in 2 .. 3 : \A k \in 1 .. Len(IpList[t]) : IpList[t][k].late = << >>

(* A block SetInput of record k creates, or its Initialize. *)
Creates(s, id) == \E i \in 1 .. Len(s) : s[i].Id = id /\ s[i].Instance = 0

SetCreates(k, id) ==
    Tp1[k].BlkRequestSize > 0 /\ Tp1[k].setInput /\ Creates(Tp1[k].created, id)

LateCreates(k, id) == Tp1[k].initialize /\ Creates(Tp1[k].late, id)

(* What an Initialize looks up, some SetInput of time point 1 creates or   *)
(* the Initialize of a record before it.                                   *)
ASSUME LookupAssumption ==
    \A t \in 1 .. 3 : \A k \in 1 .. Len(IpList[t]) :
      IpList[t][k].initialize =>
        \A id \in IpList[t][k].finds \cup IpList[t][k].asserts :
          \/ \E j \in 1 .. N : SetCreates(j, id)
          \/ \E j \in 1 .. N : LateCreates(j, id) /\ (t = 1 => j < k)

VARIABLES
    mSilMemoryBase,     \* whether the global points at the host's block
    HostBlockSize,      \* SIL_BLOCK_VARIABLES, at the start of the block
    FreeSpaceOffset,
    FreeSpaceLeft,
    heap,               \* offset |-> the SIL_INFO_BLOCK_HEADER written there
    mDeferredResetType,
    tp,                 \* time point in progress, 0 before the first call
    pc,                 \* the routine that runs; "host" between two calls
    LclIpRecord,        \* index of the record the routine is at
    blk,                \* index of the block its IP creates next
    call,               \* the host call that returned last ...
    LclStatus,          \* ... and its status
    asked,              \* deferred resets IPs asked for since power on
    nulls               \* SilCreateInfoBlock returned NULL in this boot

memVars == <<mSilMemoryBase, HostBlockSize, FreeSpaceOffset, FreeSpaceLeft, heap>>
vars == <<mSilMemoryBase, HostBlockSize, FreeSpaceOffset, FreeSpaceLeft, heap,
          mDeferredResetType, tp, pc, LclIpRecord, blk, call, LclStatus,
          asked, nulls>>

Record == IpList[tp][LclIpRecord]
AtEnd == LclIpRecord > Len(IpList[tp])      \* the SilId_ListEnd record

Init ==
    /\ mSilMemoryBase = FALSE
    /\ HostBlockSize = 0 /\ FreeSpaceOffset = 0 /\ FreeSpaceLeft = 0
    /\ heap = << >>
    /\ mDeferredResetType = SilPass
    /\ tp = 0 /\ pc = "host" /\ LclIpRecord = 1 /\ blk = 1
    /\ call = "none" /\ LclStatus = SilPass
    /\ asked = {} /\ nulls = FALSE

Return(c, status) ==
    /\ pc' = "host"
    /\ call' = c
    /\ LclStatus' = status

-----------------------------------------------------------------------------
(***************************************************************************)
(* The block heap.                                                         *)
(***************************************************************************)

(* The offsets xUslFindStructure considers part of the chain. *)
Chained == {o \in DOMAIN heap : VarsSize <= o /\ o < FreeSpaceOffset}

(* What SilCreateInfoBlock tests before it hands out Size bytes. *)
Fits(Size) == mSilMemoryBase /\ ~ (FreeSpaceLeft <= Size)

(* Mutant of Header: the size without the header and its alignment. *)
HeaderDataOnly(b) ==
    [Id |-> b.Id, Instance |-> b.Instance, InfoBlockDataSize |-> b.BlockSize]

(* The header it writes: the chain is walked with InfoBlockDataSize. *)
Header(b) ==
    [Id |-> b.Id, Instance |-> b.Instance,
     InfoBlockDataSize |-> RequestSize(b.BlockSize)]

(* SilCreateInfoBlock: carve the block off the free space, clear it, and   *)
(* fill its header; or return NULL and change nothing.                     *)
SilCreateInfoBlock(b) ==
    LET Size == RequestSize(b.BlockSize)
        Base == FreeSpaceOffset
    IN  /\ IF Fits(Size)
           THEN /\ FreeSpaceOffset' = (FreeSpaceOffset + Size) % Uint32
                /\ FreeSpaceLeft' = (FreeSpaceLeft - Size) % Uint32
                /\ heap' = [o \in {p \in DOMAIN heap : p < Base \/ p >= Base + Size}
                                    \cup {Base} |->
                              IF o = Base THEN Header(b) ELSE heap[o]]
                /\ nulls' = nulls
           ELSE /\ nulls' = TRUE
                /\ UNCHANGED <<FreeSpaceOffset, FreeSpaceLeft, heap>>
        /\ UNCHANGED <<mSilMemoryBase, HostBlockSize>>

(* Whether xUslFindStructure finds a block: the NULL test after the lookup. *)
Found(IpId) == \E o \in Chained : heap[o].Id = IpId /\ heap[o].Instance = 0

-----------------------------------------------------------------------------
(***************************************************************************)
(* Host calls.  The host follows the documented order: it goes on to the   *)
(* next call when the last one passed, and may reset the machine whenever  *)
(* it has control.                                                         *)
(***************************************************************************)

(* Mutant of AssignMemoryTp1: the space left is computed from the offset   *)
(* that is reset only afterwards.                                          *)
AssignMemoryOldOffset(MemorySize) ==
    /\ pc = "host" /\ tp = 0
    /\ mSilMemoryBase' = TRUE
    /\ HostBlockSize' = MemorySize
    /\ FreeSpaceOffset' = VarsSize
    /\ FreeSpaceLeft' = (MemorySize - FreeSpaceOffset) % Uint32
    /\ tp' = 1 /\ pc' = "api" /\ LclIpRecord' = 1
    /\ UNCHANGED <<heap, mDeferredResetType, blk, call, LclStatus, asked, nulls>>

(* xSimAssignMemoryTp1 up to the call of xSimInitializeIpApis. *)
AssignMemoryTp1(MemorySize) ==
    /\ pc = "host" /\ tp = 0
    /\ mSilMemoryBase' = TRUE
    /\ HostBlockSize' = MemorySize
    /\ FreeSpaceOffset' = VarsSize
    /\ FreeSpaceLeft' = (MemorySize - VarsSize) % Uint32
    /\ tp' = 1 /\ pc' = "api" /\ LclIpRecord' = 1
    /\ UNCHANGED <<heap, mDeferredResetType, blk, call, LclStatus, asked, nulls>>

(* xSimAssignMemoryTp2 and Tp3: the block is kept, its variables are not   *)
(* initialised again.                                                      *)
AssignMemoryLater ==
    /\ pc = "host" /\ tp \in {1, 2}
    /\ call = "init" /\ LclStatus = SilPass
    /\ mSilMemoryBase' = TRUE
    /\ tp' = tp + 1 /\ pc' = "api" /\ LclIpRecord' = 1
    /\ UNCHANGED <<HostBlockSize, FreeSpaceOffset, FreeSpaceLeft, heap,
                   mDeferredResetType, blk, call, LclStatus, asked, nulls>>

(* InitializeSiTp1, Tp2, Tp3. *)
InitializeSi ==
    /\ pc = "host" /\ tp > 0
    /\ call = "assign" /\ LclStatus = SilPass
    /\ pc' = "init" /\ LclIpRecord' = 1 /\ blk' = 1 /\ LclStatus' = SilPass
    /\ UNCHANGED <<memVars, mDeferredResetType, tp, call, asked, nulls>>

(* The machine restarts: the globals of the image are initialised again,   *)
(* the host's memory keeps what it held.                                   *)
HostReset ==
    /\ pc \in {"host", "halted"} /\ tp > 0
    /\ mSilMemoryBase' = FALSE
    /\ mDeferredResetType' = SilPass
    /\ tp' = 0 /\ pc' = "host" /\ call' = "none" /\ LclStatus' = SilPass
    /\ asked' = {} /\ nulls' = FALSE
    /\ LclIpRecord' = 1 /\ blk' = 1
    /\ UNCHANGED <<HostBlockSize, FreeSpaceOffset, FreeSpaceLeft, heap>>

-----------------------------------------------------------------------------
(***************************************************************************)
(* xSimInitializeIpApis, one record per step.                              *)
(***************************************************************************)
ApiInit ==
    /\ pc = "api" /\ ~AtEnd
    /\ \/ /\ LclIpRecord' = LclIpRecord + 1
          /\ UNCHANGED <<pc, call, LclStatus>>
       \/ /\ Record.apiInit
          /\ Return("assign", "SilInvalidParameter")
          /\ UNCHANGED LclIpRecord
    /\ UNCHANGED <<memVars, mDeferredResetType, tp, blk, asked, nulls>>

(* Mutant of ApisDone: the assignment loop starts at the second record. *)
ApisDoneSkipsFirst ==
    /\ pc = "api" /\ AtEnd
    /\ IF tp = 1
       THEN /\ pc' = "assign" /\ LclIpRecord' = 2
            /\ UNCHANGED <<call, LclStatus>>
       ELSE /\ Return("assign", SilPass)
            /\ UNCHANGED LclIpRecord
    /\ UNCHANGED <<memVars, mDeferredResetType, tp, blk, asked, nulls>>

(* All APIs are in place: time point 1 goes on to assign the blocks. *)
ApisDone ==
    /\ pc = "api" /\ AtEnd
    /\ IF tp = 1
       THEN /\ pc' = "assign" /\ LclIpRecord' = 1
            /\ UNCHANGED <<call, LclStatus>>
       ELSE /\ Return("assign", SilPass)
            /\ UNCHANGED LclIpRecord
    /\ UNCHANGED <<memVars, mDeferredResetType, tp, blk, asked, nulls>>

-----------------------------------------------------------------------------
(***************************************************************************)
(* The loop of xSimAssignMemoryTp1.                                        *)
(***************************************************************************)

(* The record asks for nothing, or has no SetInput: on to the next one. *)
SkipRecord ==
    /\ pc = "assign" /\ ~AtEnd
    /\ \/ Record.BlkRequestSize = 0
       \/ Record.BlkRequestSize <= FreeSpaceLeft /\ ~Record.setInput
    /\ LclIpRecord' = LclIpRecord + 1
    /\ UNCHANGED <<memVars, mDeferredResetType, tp, pc, blk, call, LclStatus,
                   asked, nulls>>

OutOfResources ==
    /\ pc = "assign" /\ ~AtEnd
    /\ Record.BlkRequestSize > FreeSpaceLeft
    /\ Return("assign", "SilOutOfResources")
    /\ UNCHANGED <<memVars, mDeferredResetType, tp, LclIpRecord, blk, asked, nulls>>

CallSetInput ==
    /\ pc = "assign" /\ ~AtEnd
    /\ Record.BlkRequestSize > 0 /\ Record.BlkRequestSize <= FreeSpaceLeft
    /\ Record.setInput
    /\ pc' = "setinput" /\ blk' = 1
    /\ UNCHANGED <<memVars, mDeferredResetType, tp, LclIpRecord, call, LclStatus,
                   asked, nulls>>

(* SetInput creates its next block; a NULL makes it give up, unless the IP *)
(* does not look.                                                          *)
SetInputBlock ==
    /\ pc = "setinput" /\ blk <= Len(Record.created)
    /\ SilCreateInfoBlock(Record.created[blk])
    /\ IF Fits(RequestSize(Record.created[blk].BlockSize)) \/ Record.ignoresNull
       THEN blk' = blk + 1 /\ UNCHANGED <<pc, call, LclStatus>>
       ELSE Return("assign", "SilAborted") /\ UNCHANGED blk
    /\ UNCHANGED <<mDeferredResetType, tp, LclIpRecord, asked>>

SetInputDone ==
    /\ pc = "setinput" /\ blk > Len(Record.created)
    /\ pc' = "assign" /\ LclIpRecord' = LclIpRecord + 1
    /\ UNCHANGED <<memVars, mDeferredResetType, tp, blk, call, LclStatus, asked, nulls>>

AssignDone ==
    /\ pc = "assign" /\ AtEnd
    /\ Return("assign", SilPass)
    /\ UNCHANGED <<memVars, mDeferredResetType, tp, LclIpRecord, blk, asked, nulls>>

-----------------------------------------------------------------------------
(***************************************************************************)
(* xSimInitializeIps.                                                      *)
(***************************************************************************)

(* Mutant of SetDeferredResetType: the last request wins. *)
SetLastResetType(ResetType) == mDeferredResetType' = ResetType

(* SetDeferredResetType: a cold reset request is never downgraded. *)
SetDeferredResetType(ResetType) ==
    mDeferredResetType' =
      IF mDeferredResetType = SilColdDef THEN mDeferredResetType
      ELSE IF ResetType \in Deferred THEN ResetType ELSE SilColdDef

(* The status the loop returns: a deferred request hides any other. *)
FinalStatus(status) ==
    IF mDeferredResetType # SilPass THEN mDeferredResetType ELSE status

(* The record has no Initialize: SilPass, on to the next one. *)
NoInitialize ==
    /\ pc = "init" /\ ~AtEnd
    /\ ~Record.initialize
    /\ LclIpRecord' = LclIpRecord + 1 /\ blk' = 1
    /\ LclStatus' = SilPass
    /\ UNCHANGED <<memVars, mDeferredResetType, tp, pc, call, asked, nulls>>

(* Initialize looks its blocks up first: every block it cannot do without. *)
Located == \A id \in Record.finds \cup Record.asserts : Found(id)

(* Initialize creates a block of its own; it goes on when there is none    *)
(* left (PcieConfigurationInit).                                           *)
LateBlock ==
    /\ pc = "init" /\ ~AtEnd
    /\ Record.initialize /\ Located /\ blk <= Len(Record.late)
    /\ SilCreateInfoBlock(Record.late[blk])
    /\ blk' = blk + 1
    /\ UNCHANGED <<mDeferredResetType, tp, pc, LclIpRecord, call, LclStatus, asked>>

(* Initialize did its work and returns status. *)
Initialized(status) ==
    /\ pc = "init" /\ ~AtEnd
    /\ Record.initialize /\ Located /\ blk > Len(Record.late)
    /\ status \in Record.returns
    /\ blk' = 1

(* SilPass: on to the next record. *)
InitPass ==
    /\ Initialized(SilPass)
    /\ LclIpRecord' = LclIpRecord + 1
    /\ LclStatus' = SilPass
    /\ UNCHANGED <<memVars, mDeferredResetType, tp, pc, call, asked, nulls>>

(* A deferred reset request is recorded; the loop continues without        *)
(* advancing to the next record.                                           *)
InitDeferred ==
    \E status \in Deferred :
      /\ Initialized(status)
      /\ SetDeferredResetType(status)
      /\ LclStatus' = status
      /\ asked' = asked \cup {status}
      /\ UNCHANGED <<memVars, tp, pc, LclIpRecord, call, nulls>>

(* Anything else ends the loop. *)
InitBreak ==
    \E status \in Statuses \ (Deferred \cup {SilPass}) :
      /\ Initialized(status)
      /\ Return("init", FinalStatus(status))
      /\ UNCHANGED <<memVars, mDeferredResetType, tp, LclIpRecord, asked, nulls>>

(* A block Initialize looks up is missing. *)
InitNotFound ==
    /\ pc = "init" /\ ~AtEnd
    /\ Record.initialize
    /\ \E id \in Record.finds : ~Found(id)
    /\ Return("init", FinalStatus(Record.missing))
    /\ UNCHANGED <<memVars, mDeferredResetType, tp, LclIpRecord, blk, asked, nulls>>

(* A block Initialize asserts to be there is missing: the firmware stops. *)
InitAssert ==
    /\ pc = "init" /\ ~AtEnd
    /\ Record.initialize
    /\ \A id \in Record.finds : Found(id)
    /\ \E id \in Record.asserts : ~Found(id)
    /\ pc' = "halted"
    /\ UNCHANGED <<memVars, mDeferredResetType, tp, LclIpRecord, blk, call,
                   LclStatus, asked, nulls>>

InitDone ==
    /\ pc = "init" /\ AtEnd
    /\ Return("init", FinalStatus(LclStatus))
    /\ UNCHANGED <<memVars, mDeferredResetType, tp, LclIpRecord, blk, asked, nulls>>

-----------------------------------------------------------------------------
HostStep ==
    \/ \E MemorySize \in HostSizes : AssignMemoryTp1(MemorySize)
    \/ AssignMemoryLater
    \/ InitializeSi
    \/ HostReset

SilStep ==
    \/ ApiInit \/ ApisDone
    \/ SkipRecord \/ OutOfResources \/ CallSetInput
    \/ SetInputBlock \/ SetInputDone \/ AssignDone
    \/ NoInitialize \/ LateBlock
    \/ InitPass \/ InitDeferred \/ InitBreak
    \/ InitNotFound \/ InitAssert \/ InitDone

Next == HostStep \/ SilStep

Spec == Init /\ [][Next]_vars
-----------------------------------------------------------------------------
(***************************************************************************)
(* Properties.                                                             *)
(***************************************************************************)
HeapHeader == [Id : STRING, Instance : Nat, InfoBlockDataSize : Nat]

(* Type invariant. *)
TypeOK ==
    /\ mSilMemoryBase \in BOOLEAN
    /\ HostBlockSize \in 0 .. Uint32 - 1
    /\ FreeSpaceOffset \in 0 .. Uint32 - 1
    /\ FreeSpaceLeft \in 0 .. Uint32 - 1
    /\ DOMAIN heap \subseteq Nat
    /\ heap \in [DOMAIN heap -> HeapHeader]
    /\ mDeferredResetType \in Deferred \cup {SilPass}
    /\ tp \in 0 .. 3
    /\ pc \in {"host", "api", "assign", "setinput", "init", "halted"}
    /\ LclIpRecord \in Nat \ {0} /\ blk \in Nat \ {0}
    /\ call \in {"none", "assign", "init"}
    /\ LclStatus \in Statuses
    /\ asked \subseteq Deferred
    /\ nulls \in BOOLEAN

(* The offset and the space left always add up to the host's block, and    *)
(* every block of the chain lies inside it: what SilCreateInfoBlock hands  *)
(* out and clears is memory the host gave, across time points and resets.  *)
SpaceAccounted ==
    tp > 0 /\ HostBlockSize >= VarsSize =>
      /\ FreeSpaceOffset + FreeSpaceLeft = HostBlockSize
      /\ \A o \in Chained : o + heap[o].InfoBlockDataSize <= HostBlockSize

(* The chain of headers tiles the used part of the block: it starts behind *)
(* the private variables, each InfoBlockDataSize leads to the next header, *)
(* the last one to FreeSpaceOffset, and no header lies inside a block.     *)
(* This is what lets xUslFindStructure walk the chain; the headers an      *)
(* earlier boot left behind in the same memory are not on it.              *)
ChainTiles ==
    tp > 0 /\ HostBlockSize >= VarsSize =>
      /\ FreeSpaceOffset # VarsSize => VarsSize \in Chained
      /\ \A o \in Chained :
           LET end == o + heap[o].InfoBlockDataSize
           IN  /\ end \in Chained \cup {FreeSpaceOffset}
               /\ \A p \in Chained : p > o => p >= end

(* The info-block heap is sound: space accounted for and headers chained   *)
(* as above, at every point of SilCreateInfoBlock's use.                   *)
HeapConsistent == SpaceAccounted /\ ChainTiles

(* A host that provides what xSimQueryMemoryRequirements asks for never    *)
(* sees an allocation fail, neither in xSimAssignMemoryTp1 nor later, when *)
(* an Initialize creates the block its list reserved room for.             *)
QuerySuffices ==
    tp > 0 /\ HostBlockSize >= xSimQueryMemoryRequirements =>
      /\ ~nulls
      /\ ~ (call = "assign" /\ LclStatus = "SilOutOfResources")

(* Once the host's block is large enough no Initialize misses a block it   *)
(* looks up, its own or that of an IP initialised before it.               *)
NothingMissing ==
    tp > 0 /\ HostBlockSize >= xSimQueryMemoryRequirements =>
      /\ pc # "halted"
      /\ ~ (pc = "init" /\ ~AtEnd /\ Record.initialize /\ ~Located)

(* The reset type the host is told at the end is the highest order one any *)
(* IP asked for since power on, a cold reset before a warm one; and        *)
(* without a request no deferred reset is reported.                        *)
HighestResetReported ==
    pc = "host" /\ call = "init" =>
      /\ SilColdDef \in asked => LclStatus = SilColdDef
      /\ asked = {SilWarmDef} => LclStatus = SilWarmDef
      /\ asked = {} => LclStatus \notin Deferred
=============================================================================
