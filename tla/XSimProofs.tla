----------------------------- MODULE XSimProofs -----------------------------
(***************************************************************************)
(* Proofs about the xSIM core for every record list and every host size    *)
(* the assumptions of XSim admit.                                          *)
(***************************************************************************)
EXTENDS XSim, TLAPS

(* The remainder of a uint32_t operation. *)
LEMMA ModBounds ==
  ASSUME NEW a \in Int, NEW b \in Nat \ {0}
  PROVE  /\ a % b \in 0 .. b - 1
         /\ a \in 0 .. b - 1 => a % b = a
  OBVIOUS

(* An operation that stays in range does not wrap. *)
LEMMA ModSmall ==
  ASSUME NEW b \in Nat \ {0}, NEW a \in 0 .. b - 1
  PROVE  a % b = a
  OBVIOUS

(* A request is at least as large as the block and its header, and the     *)
(* total the host is told exceeds the sum it is rounded from.              *)
LEMMA RoundUpExceeds ==
  ASSUME NEW a \in Nat, NEW b \in Nat \ {0}
  PROVE  RoundUp(a, b) \in Nat /\ RoundUp(a, b) > a
  BY ModBounds DEF RoundUp

LEMMA RequestSizeType ==
  ASSUME NEW s \in Nat
  PROVE  RequestSize(s) \in Nat /\ RequestSize(s) > s
  <1>1. HdrSize + s \in Nat /\ HdrSize + s > s
    BY SizesAssumption
  <1>2. QED
    BY <1>1, RoundUpExceeds DEF RequestSize

(* A block SilCreateInfoBlock is called with keeps the heap well typed. *)
LEMMA CreateType ==
  ASSUME TypeOK, NEW b \in Block, SilCreateInfoBlock(b)
  PROVE  /\ FreeSpaceOffset' \in 0 .. Uint32 - 1
         /\ FreeSpaceLeft' \in 0 .. Uint32 - 1
         /\ DOMAIN heap' \subseteq Nat
         /\ heap' \in [DOMAIN heap' -> HeapHeader]
         /\ nulls' \in BOOLEAN
         /\ mSilMemoryBase' = mSilMemoryBase
         /\ HostBlockSize' = HostBlockSize
  <1> DEFINE Size == RequestSize(b.BlockSize)
  <1>1. Size \in Nat /\ b.Id \in STRING /\ b.Instance \in Nat
    BY RequestSizeType DEF Block
  <1>2. Header(b) \in HeapHeader
    BY <1>1 DEF Header, HeapHeader
  <1>3. CASE Fits(Size)
    <2>1. FreeSpaceOffset' = (FreeSpaceOffset + Size) % Uint32
          /\ FreeSpaceLeft' = (FreeSpaceLeft - Size) % Uint32
      BY <1>3 DEF SilCreateInfoBlock
    <2>2. Uint32 \in Nat \ {0}
      BY SizesAssumption
    <2>3. FreeSpaceOffset + Size \in Int /\ FreeSpaceLeft - Size \in Int
      BY <1>1 DEF TypeOK
    <2>4. FreeSpaceOffset' \in 0 .. Uint32 - 1 /\ FreeSpaceLeft' \in 0 .. Uint32 - 1
      BY <2>1, <2>2, <2>3, ModBounds, Zenon
    <2>5. heap' = [o \in {p \in DOMAIN heap : p < FreeSpaceOffset \/ p >= FreeSpaceOffset + Size}
                            \cup {FreeSpaceOffset} |->
                       IF o = FreeSpaceOffset THEN Header(b) ELSE heap[o]]
      BY <1>3 DEF SilCreateInfoBlock
    <2>6. FreeSpaceOffset \in Nat /\ DOMAIN heap \subseteq Nat
          /\ \A o \in DOMAIN heap : heap[o] \in HeapHeader
      BY DEF TypeOK
    <2>7. QED
      BY <1>2, <1>3, <2>4, <2>5, <2>6 DEF SilCreateInfoBlock, TypeOK
  <1>4. CASE ~Fits(Size)
    BY <1>4 DEF SilCreateInfoBlock, TypeOK
  <1>5. QED
    BY <1>3, <1>4

(* Where the routines can be, and that the core runs on an assigned block. *)
Control ==
    /\ pc # "host" => tp \in 1 .. 3
    /\ pc \in {"assign", "setinput"} => tp = 1
    /\ pc = "setinput" => ~AtEnd
    /\ tp > 0 => mSilMemoryBase
    /\ tp = 0 => call = "none"

(* The record the routines look at is one of the list. *)
LEMMA RecordType ==
  ASSUME TypeOK, tp \in 1 .. 3, ~AtEnd
  PROVE  /\ Record \in IpRecord
         /\ LclIpRecord \in 1 .. Len(IpList[tp])
         /\ Len(Record.created) \in 0 .. 2
         /\ Len(Record.late) \in 0 .. 1
         /\ \A i \in 1 .. Len(Record.created) : Record.created[i] \in Block
         /\ \A i \in 1 .. Len(Record.late) : Record.late[i] \in Block
         /\ Record.BlkRequestSize \in Nat
         /\ Record.returns \subseteq Statuses
         /\ Record.missing \in Errors
  <1>1. IpList[tp] \in Seq(IpRecord)
    BY ListAssumption
  <1>2. LclIpRecord \in 1 .. Len(IpList[tp])
    BY <1>1 DEF TypeOK, AtEnd
  <1>3. Record \in IpRecord
    BY <1>1, <1>2 DEF Record
  <1>4. Record.created \in Seq(Block) /\ Record.late \in Seq(Block)
        /\ Record.BlkRequestSize \in Nat /\ Record.returns \subseteq Statuses
        /\ Record.missing \in Errors
    BY <1>3 DEF IpRecord
  <1>5. Len(Record.created) \in 0 .. 2 /\ Len(Record.late) \in 0 .. 1
    BY <1>2, ListAssumption, SMTT(30) DEF Record
  <1>6. QED
    BY <1>2, <1>3, <1>4, <1>5

LEMMA TypeStep ==
  ASSUME TypeOK, Control, [Next]_vars
  PROVE  TypeOK' /\ Control'
  <1> USE DEF Control, AtEnd
  <1>1. CASE \E MemorySize \in HostSizes : AssignMemoryTp1(MemorySize)
    <2>1. PICK MemorySize \in HostSizes : AssignMemoryTp1(MemorySize)
      BY <1>1
    <2>2. MemorySize \in 0 .. Uint32 - 1 /\ VarsSize \in 0 .. Uint32 - 1
          /\ Uint32 \in Nat \ {0}
      BY SizesAssumption
    <2>3. (MemorySize - VarsSize) % Uint32 \in 0 .. Uint32 - 1
      BY <2>2, ModBounds
    <2>4. QED
      BY <2>1, <2>2, <2>3 DEF AssignMemoryTp1, TypeOK
  <1>2. CASE AssignMemoryLater
    BY <1>2 DEF AssignMemoryLater, TypeOK
  <1>3. CASE InitializeSi
    BY <1>3 DEF InitializeSi, TypeOK, memVars, Statuses
  <1>4. CASE HostReset
    <2>1. mSilMemoryBase' = FALSE /\ nulls' = FALSE /\ asked' = {}
      BY <1>4 DEF HostReset
    <2>2. HostBlockSize' = HostBlockSize /\ FreeSpaceOffset' = FreeSpaceOffset
          /\ FreeSpaceLeft' = FreeSpaceLeft /\ heap' = heap
          /\ mDeferredResetType' = SilPass /\ tp' = 0 /\ pc' = "host"
          /\ LclIpRecord' = 1 /\ blk' = 1 /\ call' = "none" /\ LclStatus' = SilPass
      BY <1>4 DEF HostReset
    <2>3. Control'
      BY <2>1, <2>2
    <2>4. mSilMemoryBase' \in BOOLEAN /\ nulls' \in BOOLEAN /\ asked' \subseteq Deferred
      BY <2>1, Zenon
    <2>5. QED
      BY <2>2, <2>3, <2>4 DEF TypeOK, Statuses
  <1>5. CASE ApiInit
    BY <1>5 DEF ApiInit, TypeOK, memVars, Return, Statuses, Errors
  <1>6. CASE ApisDone
    BY <1>6 DEF ApisDone, TypeOK, memVars, Return, Statuses
  <1>7. CASE SkipRecord
    BY <1>7 DEF SkipRecord, TypeOK, memVars
  <1>8. CASE OutOfResources
    BY <1>8 DEF OutOfResources, TypeOK, memVars, Return, Statuses, Errors
  <1>9. CASE CallSetInput
    BY <1>9 DEF CallSetInput, TypeOK, memVars
  <1>10. CASE SetInputBlock
    <2>1. Record.created[blk] \in Block
      BY <1>10, RecordType DEF SetInputBlock, TypeOK
    <2>2. SilCreateInfoBlock(Record.created[blk])
      BY <1>10 DEF SetInputBlock
    <2>3. /\ pc' \in {"setinput", "host"} /\ blk' \in Nat \ {0}
          /\ call' \in {"none", "assign", "init"} /\ LclStatus' \in Statuses
      BY <1>10 DEF SetInputBlock, TypeOK, Return, Statuses, Errors
    <2>4. /\ mDeferredResetType' = mDeferredResetType /\ tp' = tp
          /\ LclIpRecord' = LclIpRecord /\ asked' = asked
      BY <1>10 DEF SetInputBlock
    <2>5. tp = 1 /\ ~AtEnd /\ mSilMemoryBase
      BY <1>10 DEF SetInputBlock, TypeOK
    <2>6. TypeOK'
      BY <2>1, <2>2, <2>3, <2>4, CreateType DEF TypeOK
    <2>7. Control'
      <3>1. mSilMemoryBase' = mSilMemoryBase
        BY <2>1, <2>2, CreateType
      <3>2. ~AtEnd' /\ tp' = 1 /\ (tp' > 0 => mSilMemoryBase')
        BY <2>4, <2>5, <3>1
      <3>3. QED
        BY <2>3, <3>2
    <2>8. QED
      BY <2>6, <2>7
  <1>11. CASE SetInputDone
    BY <1>11 DEF SetInputDone, TypeOK, memVars
  <1>12. CASE AssignDone
    BY <1>12 DEF AssignDone, TypeOK, memVars, Return, Statuses
  <1>13. CASE NoInitialize
    BY <1>13 DEF NoInitialize, TypeOK, memVars, Statuses
  <1>14. CASE LateBlock
    <2>1. Record.late[blk] \in Block
      BY <1>14, RecordType DEF LateBlock, TypeOK
    <2>2. SilCreateInfoBlock(Record.late[blk])
      BY <1>14 DEF LateBlock
    <2>3. /\ pc' = pc /\ call' = call /\ tp' = tp /\ LclIpRecord' = LclIpRecord
          /\ LclStatus' \in Statuses /\ asked' = asked /\ blk' \in Nat \ {0}
          /\ mDeferredResetType' = mDeferredResetType
      BY <1>14 DEF LateBlock, TypeOK
    <2>4. pc = "init" /\ mSilMemoryBase' = mSilMemoryBase
      BY <1>14, <2>1, <2>2, CreateType DEF LateBlock
    <2>5. TypeOK'
      BY <2>1, <2>2, <2>3, CreateType DEF TypeOK
    <2>6. QED
      BY <2>3, <2>4, <2>5
  <1>15. CASE InitPass
    BY <1>15 DEF InitPass, Initialized, TypeOK, memVars, Statuses
  <1>16. CASE InitDeferred
    BY <1>16 DEF InitDeferred, Initialized, SetDeferredResetType, TypeOK,
                 memVars, Statuses, Deferred
  <1>17. CASE InitBreak
    BY <1>17 DEF InitBreak, Initialized, Return, FinalStatus, TypeOK, memVars,
                 Statuses, Deferred
  <1>18. CASE InitNotFound
    <2>1. Record.missing \in Statuses
      BY <1>18, RecordType DEF InitNotFound, TypeOK, Control, Statuses
    <2>2. QED
      BY <1>18, <2>1 DEF InitNotFound, Return, FinalStatus, TypeOK, memVars, Statuses, Deferred
  <1>19. CASE InitAssert
    BY <1>19 DEF InitAssert, TypeOK, memVars
  <1>20. CASE InitDone
    BY <1>20 DEF InitDone, Return, FinalStatus, TypeOK, memVars, Statuses, Deferred
  <1>21. CASE UNCHANGED vars
    BY <1>21 DEF vars, TypeOK
  <1>22. QED
    BY <1>1, <1>2, <1>3, <1>4, <1>5, <1>6, <1>7, <1>8, <1>9, <1>10, <1>11,
       <1>12, <1>13, <1>14, <1>15, <1>16, <1>17, <1>18, <1>19, <1>20, <1>21
       DEF Next, HostStep, SilStep

LEMMA TypeInit == Init => TypeOK /\ Control
  <1> SUFFICES ASSUME Init PROVE TypeOK /\ Control
    OBVIOUS
  <1>1. Control
    BY DEF Init, Control
  <1>2. mSilMemoryBase \in BOOLEAN /\ nulls \in BOOLEAN /\ asked \subseteq Deferred
    BY Zenon DEF Init
  <1>3. DOMAIN heap \subseteq Nat /\ heap \in [DOMAIN heap -> HeapHeader]
    BY DEF Init
  <1>4. QED
    BY <1>1, <1>2, <1>3, SizesAssumption DEF Init, TypeOK, Statuses

(* Every state of the core is well typed, for every record list. *)
THEOREM TypeCorrect == Spec => []TypeOK
  <1>1. TypeOK /\ Control /\ [Next]_vars => TypeOK' /\ Control'
    BY TypeStep
  <1>2. QED
    BY TypeInit, <1>1, PTL DEF Spec
-----------------------------------------------------------------------------
(***************************************************************************)
(* The heap.  The chain is inductive together with the end of each block:  *)
(* every chained block ends at or before FreeSpaceOffset, so a new block   *)
(* overwrites none of them.                                                *)
(***************************************************************************)
EndOf(o) == o + heap[o].InfoBlockDataSize

HeapInv ==
    tp > 0 /\ HostBlockSize >= VarsSize =>
      /\ FreeSpaceOffset + FreeSpaceLeft = HostBlockSize
      /\ VarsSize <= FreeSpaceOffset
      /\ \A o \in Chained : EndOf(o) <= FreeSpaceOffset
      /\ FreeSpaceOffset # VarsSize => VarsSize \in Chained
      /\ \A o \in Chained : EndOf(o) \in Chained \cup {FreeSpaceOffset}
      /\ \A o, p \in Chained : p > o => p >= EndOf(o)

LEMMA CreateHeap ==
  ASSUME TypeOK, HeapInv, tp > 0, tp' = tp,
         NEW b \in Block, SilCreateInfoBlock(b)
  PROVE  HeapInv'
  <1> DEFINE Size == RequestSize(b.BlockSize)
  <1>1. Size \in Nat /\ Size > 0
    BY RequestSizeType DEF Block
  <1>2. CASE ~Fits(Size)
    <2>1. /\ FreeSpaceOffset' = FreeSpaceOffset /\ FreeSpaceLeft' = FreeSpaceLeft
          /\ heap' = heap /\ HostBlockSize' = HostBlockSize
      BY <1>2 DEF SilCreateInfoBlock
    <2>2. QED
      BY <2>1 DEF HeapInv, Chained, EndOf
  <1>3. CASE Fits(Size)
    <2> SUFFICES ASSUME HostBlockSize >= VarsSize
                 PROVE  HeapInv'
      BY DEF HeapInv, SilCreateInfoBlock
    <2> USE SizesAssumption
    <2>1. /\ FreeSpaceOffset \in Nat /\ FreeSpaceLeft \in Nat /\ HostBlockSize \in Nat
          /\ FreeSpaceOffset + FreeSpaceLeft = HostBlockSize
          /\ HostBlockSize < Uint32 /\ FreeSpaceLeft > Size
          /\ VarsSize <= FreeSpaceOffset
      BY <1>1, <1>3 DEF HeapInv, TypeOK, Fits
    <2>2. /\ FreeSpaceOffset' = FreeSpaceOffset + Size
          /\ FreeSpaceLeft' = FreeSpaceLeft - Size
          /\ HostBlockSize' = HostBlockSize
      <3>1. FreeSpaceOffset + Size \in 0 .. Uint32 - 1
            /\ FreeSpaceLeft - Size \in 0 .. Uint32 - 1
        BY <1>1, <2>1
      <3>2. Uint32 \in Nat \ {0}
        BY <2>1
      <3>3. (FreeSpaceOffset + Size) % Uint32 = FreeSpaceOffset + Size
            /\ (FreeSpaceLeft - Size) % Uint32 = FreeSpaceLeft - Size
        BY <3>1, <3>2, ModSmall
      <3>4. QED
        BY <1>3, <3>3 DEF SilCreateInfoBlock
    <2>3. heap' = [o \in {p \in DOMAIN heap : p < FreeSpaceOffset \/ p >= FreeSpaceOffset + Size}
                            \cup {FreeSpaceOffset} |->
                       IF o = FreeSpaceOffset THEN Header(b) ELSE heap[o]]
      BY <1>3 DEF SilCreateInfoBlock
    <2>4. DOMAIN heap \subseteq Nat
      BY DEF TypeOK
    <2>5. Chained' = Chained \cup {FreeSpaceOffset}
      BY <1>1, <2>1, <2>2, <2>3, <2>4 DEF Chained
    <2>6. \A o \in Chained : o # FreeSpaceOffset /\ heap'[o] = heap[o]
      BY <2>1, <2>3, <2>4 DEF Chained
    <2>7. heap'[FreeSpaceOffset].InfoBlockDataSize = Size
      BY <2>3 DEF Header
    <2>8. /\ \A o \in Chained : EndOf(o)' = EndOf(o)
          /\ FreeSpaceOffset + heap'[FreeSpaceOffset].InfoBlockDataSize = FreeSpaceOffset'
      BY <2>2, <2>6, <2>7 DEF EndOf
    <2>9. \A o \in Chained : o \in Nat /\ o < FreeSpaceOffset /\ EndOf(o) \in Nat
                             /\ EndOf(o) <= FreeSpaceOffset
      BY <2>4 DEF Chained, EndOf, HeapInv, TypeOK, HeapHeader
    <2>10. \A o \in Chained' : o + heap'[o].InfoBlockDataSize <= FreeSpaceOffset'
      BY <1>1, <2>1, <2>2, <2>5, <2>6, <2>8, <2>9 DEF EndOf
    <2>11. \A o \in Chained' :
             o + heap'[o].InfoBlockDataSize \in Chained' \cup {FreeSpaceOffset'}
      BY <2>5, <2>6, <2>8 DEF EndOf, HeapInv
    <2>12. \A o, p \in Chained' : p > o => p >= o + heap'[o].InfoBlockDataSize
      <3> SUFFICES ASSUME NEW o \in Chained', NEW p \in Chained', p > o
                   PROVE  p >= o + heap'[o].InfoBlockDataSize
        OBVIOUS
      <3>1. o \in Chained
        BY <2>1, <2>5, <2>9
      <3>2. CASE p \in Chained
        BY <2>6, <3>1, <3>2 DEF EndOf, HeapInv
      <3>3. CASE p = FreeSpaceOffset
        BY <2>6, <2>9, <3>1, <3>3 DEF EndOf
      <3>4. QED
        BY <2>5, <3>2, <3>3
    <2>13. VarsSize \in Chained'
      BY <2>5 DEF HeapInv
    <2>14. QED
      BY <1>1, <2>1, <2>2, <2>10, <2>11, <2>12, <2>13 DEF HeapInv, EndOf
  <1>4. QED
    BY <1>2, <1>3

(* A step that leaves the memory alone keeps the heap invariant. *)
LEMMA SameHeap ==
  ASSUME HeapInv, UNCHANGED memVars, tp' > 0 => tp > 0
  PROVE  HeapInv'
  BY DEF HeapInv, Chained, EndOf, memVars

LEMMA HeapStep ==
  ASSUME TypeOK, Control, HeapInv, [Next]_vars
  PROVE  HeapInv'
  <1>1. CASE \E MemorySize \in HostSizes : AssignMemoryTp1(MemorySize)
    <2>1. PICK MemorySize \in HostSizes : AssignMemoryTp1(MemorySize)
      BY <1>1
    <2>2. MemorySize \in 0 .. Uint32 - 1 /\ VarsSize \in Nat /\ Uint32 \in Nat \ {0}
      BY SizesAssumption
    <2>3. MemorySize >= VarsSize => (MemorySize - VarsSize) % Uint32 = MemorySize - VarsSize
      <3>1. ASSUME MemorySize >= VarsSize
            PROVE  MemorySize - VarsSize \in 0 .. Uint32 - 1
        BY <2>2, <3>1
      <3>2. QED
        BY <2>2, <3>1, ModSmall
    <2>4. /\ HostBlockSize' = MemorySize /\ FreeSpaceOffset' = VarsSize
          /\ FreeSpaceLeft' = (MemorySize - VarsSize) % Uint32 /\ heap' = heap
      BY <2>1 DEF AssignMemoryTp1
    <2>5. Chained' = {}
      BY <2>2, <2>4 DEF Chained, TypeOK
    <2>6. QED
      BY <2>2, <2>3, <2>4, <2>5 DEF HeapInv
  <1>2. CASE AssignMemoryLater
    BY <1>2 DEF AssignMemoryLater, HeapInv, Chained, EndOf, TypeOK
  <1>3. CASE HostReset
    BY <1>3 DEF HostReset, HeapInv
  <1>4. CASE SetInputBlock
    <2>1. Record.created[blk] \in Block
      BY <1>4, RecordType DEF SetInputBlock, TypeOK, Control
    <2>2. SilCreateInfoBlock(Record.created[blk]) /\ tp' = tp /\ tp > 0
      BY <1>4 DEF SetInputBlock, Control
    <2>3. QED
      BY <2>1, <2>2, CreateHeap
  <1>5. CASE LateBlock
    <2>1. Record.late[blk] \in Block
      BY <1>5, RecordType, SMTT(30) DEF LateBlock, TypeOK, Control
    <2>2. SilCreateInfoBlock(Record.late[blk]) /\ tp' = tp /\ tp > 0
      BY <1>5 DEF LateBlock, Control
    <2>3. QED
      BY <2>1, <2>2, CreateHeap
  <1>6. CASE \/ InitializeSi \/ ApiInit \/ ApisDone \/ SkipRecord
             \/ OutOfResources \/ CallSetInput \/ SetInputDone \/ AssignDone
             \/ NoInitialize \/ InitPass \/ InitDeferred \/ InitBreak
             \/ InitNotFound \/ InitAssert \/ InitDone \/ UNCHANGED vars
    <2>1. UNCHANGED memVars /\ tp' = tp
      BY <1>6 DEF InitializeSi, ApiInit, ApisDone, SkipRecord, OutOfResources,
                  CallSetInput, SetInputDone, AssignDone, NoInitialize, InitPass,
                  InitDeferred, InitBreak, InitNotFound, InitAssert, InitDone,
                  vars, memVars
    <2>2. QED
      BY <2>1, SameHeap
  <1>7. QED
    BY <1>1, <1>2, <1>3, <1>4, <1>5, <1>6 DEF Next, HostStep, SilStep

LEMMA HeapInit == Init => HeapInv
  BY DEF Init, HeapInv

LEMMA HeapImplies ==
  ASSUME TypeOK, HeapInv
  PROVE  SpaceAccounted /\ ChainTiles
  <1>1. SpaceAccounted
    BY DEF HeapInv, SpaceAccounted, EndOf, TypeOK, Chained, HeapHeader
  <1>2. ChainTiles
    BY DEF HeapInv, ChainTiles, EndOf
  <1>3. QED
    BY <1>1, <1>2

(* What SilCreateInfoBlock hands out lies in the host's block and the      *)
(* header chain xUslFindStructure walks tiles the used part of it, for     *)
(* every record list, every host size of at least the private variables,   *)
(* any number of boots over the same memory.                               *)
THEOREM HeapSafe == Spec => []HeapConsistent
  <1>1. Init => TypeOK /\ Control /\ HeapInv
    BY TypeInit, HeapInit
  <1>2. TypeOK /\ Control /\ HeapInv /\ [Next]_vars => (TypeOK /\ Control /\ HeapInv)'
    BY TypeStep, HeapStep
  <1>3. TypeOK /\ HeapInv => HeapConsistent
    BY HeapImplies DEF HeapConsistent
  <1>4. QED
    BY <1>1, <1>2, <1>3, PTL DEF Spec
-----------------------------------------------------------------------------
(***************************************************************************)
(* The query.  Need is compared with the running end of the heap: SetEnd   *)
(* while SetInput functions run, LateEnd while Initialize functions do.    *)
(***************************************************************************)

(* What the first blk - 1 blocks of a SetInput take. *)
TakenSoFar(r) == IF blk = 1 THEN 0
                 ELSE IF blk = 2 THEN RequestSize(r.created[1].BlockSize)
                 ELSE Taken(r.created)

Budget ==
    /\ pc = "api" /\ tp = 1 => FreeSpaceOffset = VarsSize
    /\ pc = "assign" => /\ LclIpRecord \in 1 .. N + 1
                        /\ FreeSpaceOffset <= SetEnd[LclIpRecord - 1]
    /\ pc = "setinput" =>
         /\ Record.BlkRequestSize > 0 /\ Record.setInput
         /\ blk \in 1 .. Len(Record.created) + 1
         /\ FreeSpaceOffset <= SetEnd[LclIpRecord - 1] + TakenSoFar(Record)
    /\ pc = "host" /\ tp = 1 /\ call = "assign" /\ LclStatus = SilPass =>
         FreeSpaceOffset <= SetEnd[N]
    /\ pc = "init" /\ tp = 1 =>
         /\ LclIpRecord \in 1 .. N + 1
         /\ FreeSpaceOffset <= LateEnd[LclIpRecord - 1]
              + (IF blk = 1 THEN 0 ELSE Taken(Tp1[LclIpRecord].late))
         /\ blk # 1 => LclIpRecord <= N /\ Tp1[LclIpRecord].late # << >>

QueryInv ==
    /\ tp = 0 => ~nulls
    /\ tp > 0 /\ HostBlockSize >= xSimQueryMemoryRequirements =>
         /\ ~nulls
         /\ ~ (call = "assign" /\ LclStatus = "SilOutOfResources")
         /\ Budget

(* The queried size covers the running total, which covers the private     *)
(* variables.                                                              *)
LEMMA QueryExceeds ==
  /\ N \in Nat /\ Need[N] \in Nat /\ VarsSize <= Need[N]
  /\ xSimQueryMemoryRequirements \in Nat
  /\ xSimQueryMemoryRequirements > Need[N]
  <1>1. N \in Nat
    BY ListAssumption DEF N, Tp1
  <1>2. Need[N] \in Nat /\ VarsSize <= Need[N]
    <2>1. 0 \in 0 .. N /\ N \in 0 .. N
      BY <1>1
    <2>2. Need \in [0 .. N -> Nat] /\ SetEnd[0] = VarsSize
      BY TotalsAssumption
    <2>3. SetEnd[0] <= Need[N]
      BY <2>1, RoomAssumption
    <2>4. QED
      BY <2>1, <2>2, <2>3
  <1>3. Boundary \in Nat \ {0}
    BY SizesAssumption
  <1>4. QED
    BY <1>1, <1>2, <1>3, RoundUpExceeds DEF xSimQueryMemoryRequirements

(* A block for which there is room is created. *)
LEMMA CreateFits ==
  ASSUME TypeOK, HeapInv, tp > 0, mSilMemoryBase, HostBlockSize >= VarsSize,
         NEW b \in Block, SilCreateInfoBlock(b),
         FreeSpaceOffset + RequestSize(b.BlockSize) < HostBlockSize
  PROVE  /\ Fits(RequestSize(b.BlockSize))
         /\ FreeSpaceOffset' = FreeSpaceOffset + RequestSize(b.BlockSize)
         /\ nulls' = nulls
         /\ HostBlockSize' = HostBlockSize
  <1> DEFINE Size == RequestSize(b.BlockSize)
  <1>1. Size \in Nat
    BY RequestSizeType DEF Block
  <1>2. FreeSpaceOffset \in Nat /\ FreeSpaceLeft \in Nat /\ HostBlockSize \in 0 .. Uint32 - 1
        /\ FreeSpaceOffset + FreeSpaceLeft = HostBlockSize
    BY DEF TypeOK, HeapInv
  <1>3. FreeSpaceLeft > Size /\ FreeSpaceOffset + Size \in 0 .. Uint32 - 1
    BY <1>1, <1>2, SizesAssumption
  <1>4. Fits(Size)
    BY <1>1, <1>2, <1>3 DEF Fits
  <1>5. (FreeSpaceOffset + Size) % Uint32 = FreeSpaceOffset + Size
    <2>1. Uint32 \in Nat \ {0}
      BY <1>2, SizesAssumption
    <2>2. QED
      BY <1>3, <2>1, ModSmall
  <1>6. FreeSpaceOffset' = FreeSpaceOffset + Size /\ HostBlockSize' = HostBlockSize
    BY <1>4, <1>5 DEF SilCreateInfoBlock
  <1>7. nulls' = nulls
    BY <1>4 DEF SilCreateInfoBlock
  <1>8. QED
    BY <1>4, <1>6, <1>7

(* The records of time point 1. *)
LEMMA Tp1Type ==
  ASSUME NEW k \in 1 .. N
  PROVE  /\ Tp1[k] \in IpRecord
         /\ Tp1[k].created \in Seq(Block) /\ Len(Tp1[k].created) \in 0 .. 2
         /\ Tp1[k].late \in Seq(Block) /\ Len(Tp1[k].late) \in 0 .. 1
         /\ Taken(Tp1[k].created) \in Nat /\ Taken(Tp1[k].late) \in Nat
         /\ Tp1[k].BlkRequestSize \in Nat
  <1>1. Tp1 \in Seq(IpRecord) /\ k \in 1 .. Len(Tp1)
    BY ListAssumption DEF N, Tp1
  <1>2. Tp1[k] \in IpRecord /\ Len(Tp1[k].created) \in 0 .. 2 /\ Len(Tp1[k].late) \in 0 .. 1
    BY <1>1, ListAssumption DEF Tp1
  <1>3. Tp1[k].created \in Seq(Block) /\ Tp1[k].late \in Seq(Block)
        /\ Tp1[k].BlkRequestSize \in Nat
    BY <1>2 DEF IpRecord
  <1>4. ASSUME NEW s \in Seq(Block), Len(s) \in 0 .. 2
        PROVE  Taken(s) \in Nat
    <2>1. \A i \in 1 .. Len(s) : RequestSize(s[i].BlockSize) \in Nat
      <3>1. \A i \in 1 .. Len(s) : s[i] \in Block
        OBVIOUS
      <3>2. \A i \in 1 .. Len(s) : s[i].BlockSize \in Nat
        BY <3>1 DEF Block
      <3>3. QED
        BY <3>2, RequestSizeType
    <2>2. s # << >> => Len(s) >= 1
      OBVIOUS
    <2>3. CASE s = << >>
      BY <2>3 DEF Taken
    <2>4. CASE Len(s) = 1
      BY <2>1, <2>4 DEF Taken
    <2>5. CASE Len(s) = 2
      BY <2>1, <2>5 DEF Taken
    <2>6. QED
      BY <1>4, <2>2, <2>3, <2>4, <2>5
  <1>5. QED
    BY <1>2, <1>3, <1>4

LEMMA QueryInit == Init => QueryInv
  BY DEF Init, QueryInv

LEMMA QueryStep ==
  ASSUME TypeOK, Control, HeapInv, QueryInv, [Next]_vars
  PROVE  QueryInv'
  <1> USE QueryExceeds
  <1>0. SetEnd \in [0 .. N -> Nat] /\ LateEnd \in [0 .. N -> Nat]
    BY TotalsAssumption
  <1>1. CASE \E MemorySize \in HostSizes : AssignMemoryTp1(MemorySize)
    <2>1. PICK MemorySize \in HostSizes : AssignMemoryTp1(MemorySize)
      BY <1>1
    <2>2. ~nulls' /\ call' # "assign"
      BY <2>1 DEF AssignMemoryTp1, QueryInv, Control
    <2>3. pc' = "api" /\ tp' = 1 /\ FreeSpaceOffset' = VarsSize
      BY <2>1 DEF AssignMemoryTp1
    <2>4. QED
      BY <2>2, <2>3 DEF QueryInv, Budget
  <1>2. CASE HostReset
    BY <1>2 DEF HostReset, QueryInv
  <1>3. CASE SetInputBlock \/ LateBlock
    <2> SUFFICES ASSUME HostBlockSize >= xSimQueryMemoryRequirements
                 PROVE  QueryInv'
      BY <1>3 DEF SetInputBlock, LateBlock, SilCreateInfoBlock, QueryInv, Control
    <2>1. /\ tp \in 1 .. 3 /\ tp' = tp /\ ~AtEnd /\ mSilMemoryBase /\ HostBlockSize >= VarsSize
          /\ ~nulls /\ ~ (call = "assign" /\ LclStatus = "SilOutOfResources") /\ Budget
      <3>1. tp \in 1 .. 3 /\ tp' = tp /\ ~AtEnd
        BY <1>3 DEF SetInputBlock, LateBlock, Control
      <3>2. HostBlockSize >= VarsSize
        BY SizesAssumption DEF TypeOK
      <3>3. mSilMemoryBase
        BY <3>1 DEF Control
      <3>4. QED
        BY <3>1, <3>2, <3>3 DEF QueryInv
    <2>2. tp = 1
      <3>1. ASSUME LateBlock, tp \in 2 .. 3
            PROVE  FALSE
        <4>1. Record.late = << >> /\ blk >= 1
          BY SMTT(40), <2>1, <3>1, RecordType, RoomAssumption DEF TypeOK, Record
        <4>2. Len(Record.late) = 0 /\ blk <= Len(Record.late)
          BY <3>1, <4>1 DEF LateBlock
        <4>3. QED
          BY <4>1, <4>2 DEF TypeOK
      <3>2. QED
        BY <1>3, <2>1, <3>1 DEF SetInputBlock, Control
    <2>3. /\ LclIpRecord \in 1 .. N /\ Record = Tp1[LclIpRecord]
      BY <2>1, <2>2, RecordType DEF N, Tp1, Record
    <2> DEFINE k == LclIpRecord
               r == Tp1[LclIpRecord]
    <2>4. /\ r.created \in Seq(Block) /\ Len(r.created) \in 0 .. 2
          /\ r.late \in Seq(Block) /\ Len(r.late) \in 0 .. 1
          /\ \A i \in 1 .. Len(r.created) : RequestSize(r.created[i].BlockSize) \in Nat
          /\ \A i \in 1 .. Len(r.late) : RequestSize(r.late[i].BlockSize) \in Nat
      <3>1. /\ r.created \in Seq(Block) /\ Len(r.created) \in 0 .. 2
            /\ r.late \in Seq(Block) /\ Len(r.late) \in 0 .. 1
        BY <2>3, Tp1Type
      <3>2. /\ \A i \in 1 .. Len(r.created) : r.created[i].BlockSize \in Nat
            /\ \A i \in 1 .. Len(r.late) : r.late[i].BlockSize \in Nat
        <4>1. /\ \A i \in 1 .. Len(r.created) : r.created[i] \in Block
              /\ \A i \in 1 .. Len(r.late) : r.late[i] \in Block
          BY <3>1
        <4>2. QED
          BY <4>1 DEF Block
      <3>3. QED
        BY <3>1, <3>2, RequestSizeType, Zenon
    <2>5. FreeSpaceOffset \in Nat /\ HostBlockSize \in Nat /\ blk \in Nat \ {0} /\ k \in Nat
      BY DEF TypeOK
    <2>6. CASE SetInputBlock
      <3> DEFINE b == r.created[blk]
      <3>1. /\ b \in Block /\ SilCreateInfoBlock(b) /\ blk \in 1 .. Len(r.created)
        BY <2>3, <2>4, <2>5, <2>6 DEF SetInputBlock
      <3>2. /\ r.BlkRequestSize > 0 /\ r.setInput
            /\ FreeSpaceOffset <= SetEnd[k - 1] + TakenSoFar(r)
        BY <2>1, <2>3, <2>6, SMTT(30) DEF SetInputBlock, Budget
      <3>3. TakenSoFar(r) + RequestSize(b.BlockSize)
              = IF blk = 1 THEN RequestSize(r.created[1].BlockSize) ELSE Taken(r.created)
        BY SMTT(40), <2>4, <3>1 DEF TakenSoFar, Taken
      <3>4. TakenSoFar(r) \in Nat /\ TakenSoFar(r) + RequestSize(b.BlockSize) <= Taken(r.created)
        <4>1. CASE Len(r.created) = 1
          BY <2>4, <3>1, <4>1 DEF TakenSoFar, Taken
        <4>2. CASE Len(r.created) = 2
          BY SMTT(40), <2>4, <3>1, <4>2 DEF TakenSoFar, Taken
        <4>3. QED
          BY <2>4, <3>1, <4>1, <4>2
      <3>5. SetEnd[k] = SetEnd[k - 1] + Taken(r.created) /\ SetEnd[k] <= Need[N]
            /\ SetEnd[k - 1] \in Nat /\ SetEnd[k] \in Nat
        BY SMTT(40), <1>0, <2>3, <3>2, TotalsAssumption, RoomAssumption DEF SetTaken
      <3>6. FreeSpaceOffset + RequestSize(b.BlockSize) < HostBlockSize
        <4>1. RequestSize(b.BlockSize) \in Nat /\ Taken(r.created) \in Nat
          BY <2>3, <2>4, <3>1, Tp1Type
        <4>2. FreeSpaceOffset + RequestSize(b.BlockSize) <= SetEnd[k]
          BY <2>5, <3>2, <3>4, <3>5, <4>1
        <4>3. QED
          BY <2>5, <3>5, <4>1, <4>2
      <3>7. /\ Fits(RequestSize(b.BlockSize))
            /\ FreeSpaceOffset' = FreeSpaceOffset + RequestSize(b.BlockSize)
            /\ nulls' = nulls
        BY <2>1, <3>1, <3>6, CreateFits
      <3>8. /\ blk' = blk + 1 /\ pc' = "setinput" /\ call' = call
            /\ LclStatus' = LclStatus /\ LclIpRecord' = k
        BY <2>3, <2>6, <3>7 DEF SetInputBlock
      <3>9. TakenSoFar(r)' = TakenSoFar(r) + RequestSize(b.BlockSize)
        BY SMTT(40), <2>4, <3>1, <3>3, <3>8 DEF TakenSoFar
      <3>10. Record' = r
        BY <2>1, <2>2, <2>3, <3>8 DEF Record
      <3>11. Budget'
        <4>1. FreeSpaceOffset' <= SetEnd[k - 1] + TakenSoFar(r)'
          BY SMTT(40), <2>4, <2>5, <3>1, <3>2, <3>4, <3>5, <3>7, <3>9
        <4>2. blk' \in 1 .. Len(r.created) + 1
          BY <2>4, <3>1, <3>8
        <4>3. QED
          BY <3>2, <3>8, <3>10, <4>1, <4>2, SMTT(30) DEF Budget, TakenSoFar
      <3>12. ~nulls' /\ ~ (call' = "assign" /\ LclStatus' = "SilOutOfResources")
        BY <2>1, <3>7, <3>8
      <3>13. QED
        BY <2>1, <3>11, <3>12 DEF QueryInv
    <2>7. CASE LateBlock
      <3> DEFINE b == r.late[1]
      <3>1. blk = 1 /\ Len(r.late) = 1
        BY <2>3, <2>4, <2>5, <2>7 DEF LateBlock
      <3>2. b \in Block /\ SilCreateInfoBlock(b)
        BY <2>3, <2>4, <2>7, <3>1 DEF LateBlock
      <3>3. FreeSpaceOffset <= LateEnd[k - 1]
        BY <1>0, <2>1, <2>2, <2>3, <2>7, <3>1 DEF LateBlock, Budget
      <3>4. Taken(r.late) = RequestSize(b.BlockSize) /\ r.late # << >>
        BY <2>4, <3>1 DEF Taken
      <3>5. LateEnd[k] = LateEnd[k - 1] + RequestSize(b.BlockSize) /\ LateEnd[k] <= Need[N]
            /\ LateEnd[k - 1] \in Nat
        BY <1>0, <2>3, <3>4, TotalsAssumption, RoomAssumption
      <3>6. FreeSpaceOffset + RequestSize(b.BlockSize) < HostBlockSize
        BY <2>4, <2>5, <3>1, <3>3, <3>5
      <3>7. /\ FreeSpaceOffset' = FreeSpaceOffset + RequestSize(b.BlockSize)
            /\ nulls' = nulls
        BY <2>1, <3>2, <3>6, CreateFits
      <3>8. /\ blk' = 2 /\ pc' = "init" /\ call' = call
            /\ LclStatus' = LclStatus /\ LclIpRecord' = k
        BY <2>7, <3>1 DEF LateBlock
      <3>9. Budget'
        <4>1. k \in 1 .. N + 1 /\ k <= N
          BY <2>3, <2>5
        <4>2. FreeSpaceOffset' <= LateEnd[k - 1] + Taken(r.late)
          BY <2>4, <2>5, <3>1, <3>3, <3>4, <3>5, <3>7
        <4>3. QED
          BY <3>4, <3>8, <4>1, <4>2 DEF Budget
      <3>10. ~nulls' /\ ~ (call' = "assign" /\ LclStatus' = "SilOutOfResources")
        BY <2>1, <3>7, <3>8
      <3>11. QED
        BY <2>1, <3>9, <3>10 DEF QueryInv
    <2>8. QED
      BY <1>3, <2>6, <2>7
  <1>4. CASE \/ AssignMemoryLater \/ InitializeSi \/ ApiInit \/ ApisDone \/ SkipRecord
             \/ OutOfResources \/ CallSetInput \/ SetInputDone \/ AssignDone
             \/ NoInitialize \/ InitPass \/ InitDeferred \/ InitBreak
             \/ InitNotFound \/ InitAssert \/ InitDone \/ UNCHANGED vars
    <2>1. nulls' = nulls
      BY <1>4, ZenonT(40) DEF AssignMemoryLater, InitializeSi, ApiInit, ApisDone, SkipRecord,
                  OutOfResources, CallSetInput, SetInputDone, AssignDone, NoInitialize,
                  InitPass, InitDeferred, InitBreak, InitNotFound, InitAssert, InitDone, vars
    <2>2. /\ HostBlockSize' = HostBlockSize /\ FreeSpaceOffset' = FreeSpaceOffset
          /\ (tp' = tp \/ AssignMemoryLater)
      BY <1>4 DEF AssignMemoryLater, InitializeSi, ApiInit, ApisDone, SkipRecord,
                  OutOfResources, CallSetInput, SetInputDone, AssignDone, NoInitialize,
                  InitPass, InitDeferred, InitBreak, InitNotFound, InitAssert, InitDone,
                  vars, memVars
    <2>3. tp > 0 => tp' > 0
      BY <2>2 DEF AssignMemoryLater, TypeOK
    <2>4. tp = 0 => tp' = 0
      BY <2>2 DEF AssignMemoryLater
    <2> SUFFICES ASSUME tp > 0, HostBlockSize >= xSimQueryMemoryRequirements
                 PROVE  /\ ~ (call' = "assign" /\ LclStatus' = "SilOutOfResources")
                        /\ Budget'
      BY <2>1, <2>2, <2>3, <2>4 DEF QueryInv, TypeOK
    <2> HIDE QueryExceeds
    <2>5. ~ (call = "assign" /\ LclStatus = "SilOutOfResources") /\ Budget
      BY DEF QueryInv
    <2>6. /\ FreeSpaceOffset \in Nat /\ FreeSpaceLeft \in Nat /\ blk \in Nat \ {0}
          /\ LclIpRecord \in Nat \ {0} /\ N \in Nat
      BY QueryExceeds, SMTT(30) DEF TypeOK
    <2>7. tp = 1 /\ ~AtEnd => /\ LclIpRecord \in 1 .. N
                              /\ Record = Tp1[LclIpRecord]
      BY RecordType DEF N, Tp1, Record
    <2>8. tp = 1 /\ AtEnd => LclIpRecord > N
      BY DEF N, Tp1, AtEnd
    <2>9. \A k \in 1 .. N : /\ SetEnd[k - 1] \in Nat /\ SetEnd[k] \in Nat
                            /\ LateEnd[k - 1] \in Nat /\ LateEnd[k] \in Nat
                            /\ SetEnd[k] = SetEnd[k - 1] + SetTaken(Tp1[k])
                            /\ LateEnd[k] = LateEnd[k - 1] + Taken(Tp1[k].late)
                            /\ Taken(Tp1[k].late) \in Nat
                            /\ Taken(Tp1[k].created) \in Nat
                            /\ SetTaken(Tp1[k]) \in Nat
      <3> TAKE k \in 1 .. N
      <3>1. k - 1 \in 0 .. N /\ k \in 0 .. N
        BY <2>6
      <3>2. /\ Taken(Tp1[k].late) \in Nat /\ Taken(Tp1[k].created) \in Nat
            /\ SetTaken(Tp1[k]) \in Nat
        BY Tp1Type DEF SetTaken
      <3>3. QED
        BY <1>0, <3>1, <3>2, TotalsAssumption, ZenonT(40)
    <2>10. CASE AssignMemoryLater
      BY <2>2, <2>10 DEF AssignMemoryLater, Budget, TypeOK
    <2>11. CASE InitializeSi
      BY <1>0, <2>2, <2>5, <2>6, <2>11, TotalsAssumption, SMTT(30) DEF InitializeSi, Budget
    <2>12. CASE ApiInit
      <3>1. tp' = tp /\ pc = "api"
        BY <2>12 DEF ApiInit
      <3>2. \/ pc' = "api" /\ call' = call /\ LclStatus' = LclStatus
            \/ pc' = "host" /\ LclStatus' = "SilInvalidParameter"
        BY <2>12 DEF ApiInit, Return
      <3>3. QED
        BY <2>2, <2>5, <3>1, <3>2 DEF Budget, SilPass
    <2>13. CASE ApisDone
      <3>1. tp' = tp /\ pc = "api" /\ VarsSize = SetEnd[0] /\ VarsSize \in Nat
        BY <2>13, TotalsAssumption, SizesAssumption DEF ApisDone
      <3>2. \/ /\ tp = 1 /\ pc' = "assign" /\ LclIpRecord' = 1
               /\ call' = call /\ LclStatus' = LclStatus
            \/ tp # 1 /\ pc' = "host" /\ LclStatus' = SilPass
        BY <2>13 DEF ApisDone, Return
      <3>3. QED
        BY <2>2, <2>5, <2>6, <3>1, <3>2 DEF Budget, SilPass
    <2>14. CASE SkipRecord
      <3>1. tp = 1 /\ tp' = 1 /\ pc = "assign" /\ ~AtEnd /\ LclIpRecord' = LclIpRecord + 1
            /\ pc' = "assign" /\ call' = call /\ LclStatus' = LclStatus
        BY <2>14 DEF SkipRecord, Control
      <3>2. /\ LclIpRecord \in 1 .. N /\ FreeSpaceOffset <= SetEnd[LclIpRecord - 1]
            /\ SetEnd[LclIpRecord - 1] <= SetEnd[LclIpRecord]
        BY <2>5, <2>6, <2>7, <2>9, <3>1, SMTT(30) DEF Budget
      <3>3. /\ LclIpRecord' \in 1 .. N + 1 /\ LclIpRecord' - 1 = LclIpRecord
            /\ FreeSpaceOffset' <= SetEnd[LclIpRecord' - 1]
        BY <2>2, <2>6, <2>9, <3>1, <3>2
      <3>4. QED
        BY <2>2, <2>5, <3>1, <3>3 DEF Budget
    <2>15. CASE OutOfResources
      <3>1. tp = 1 /\ pc = "assign" /\ ~AtEnd /\ Record.BlkRequestSize > FreeSpaceLeft
        BY <2>15 DEF OutOfResources, Control
      <3>2. FreeSpaceOffset <= SetEnd[LclIpRecord - 1] /\ HostBlockSize > Need[N]
            /\ HostBlockSize \in Nat /\ HostBlockSize >= VarsSize /\ Need[N] \in Nat
        BY <2>5, <3>1, QueryExceeds, SizesAssumption DEF Budget, TypeOK
      <3>3. FreeSpaceOffset + FreeSpaceLeft = HostBlockSize
        BY <3>2 DEF HeapInv
      <3>4. SetEnd[LclIpRecord - 1] + Tp1[LclIpRecord].BlkRequestSize <= Need[N]
            /\ SetEnd[LclIpRecord - 1] \in Nat /\ Tp1[LclIpRecord].BlkRequestSize \in Nat
        BY <2>7, <2>9, <3>1, RoomAssumption, Tp1Type
      <3>5. FALSE
        BY <2>6, <2>7, <3>1, <3>2, <3>3, <3>4, SMTT(30)
      <3>6. QED
        BY <3>5
    <2>16. CASE CallSetInput
      <3>1. /\ tp = 1 /\ tp' = 1 /\ pc = "assign" /\ ~AtEnd /\ LclIpRecord' = LclIpRecord
            /\ pc' = "setinput" /\ blk' = 1 /\ call' = call /\ LclStatus' = LclStatus
            /\ Record.BlkRequestSize > 0 /\ Record.setInput
        BY <2>16 DEF CallSetInput, Control
      <3>2. Record' = Record /\ TakenSoFar(Record)' = 0
        BY <3>1 DEF Record, TakenSoFar
      <3>3. Len(Record.created) \in Nat
        BY <3>1, RecordType, SMTT(30)
      <3>4. QED
        BY <2>2, <2>5, <2>6, <2>7, <2>9, <3>1, <3>2, <3>3 DEF Budget
    <2>17. CASE SetInputDone
      <3>1. /\ tp = 1 /\ tp' = 1 /\ pc = "setinput" /\ ~AtEnd /\ LclIpRecord' = LclIpRecord + 1
            /\ pc' = "assign" /\ call' = call /\ LclStatus' = LclStatus
            /\ blk > Len(Record.created)
        BY <2>17 DEF SetInputDone, Control
      <3>2. /\ Record.BlkRequestSize > 0 /\ Record.setInput /\ blk \in 1 .. Len(Record.created) + 1
            /\ FreeSpaceOffset <= SetEnd[LclIpRecord - 1] + TakenSoFar(Record)
        BY <2>5, <3>1 DEF Budget
      <3>3. Len(Record.created) \in 0 .. 2 /\ Record.created \in Seq(Block)
        BY <2>7, <3>1, Tp1Type
      <3>4. TakenSoFar(Record) = Taken(Record.created)
        BY <2>6, <3>1, <3>2, <3>3 DEF TakenSoFar, Taken
      <3>5. SetTaken(Record) = Taken(Record.created)
        BY <3>2 DEF SetTaken
      <3>6. QED
        BY SMTT(40), <2>2, <2>5, <2>6, <2>7, <2>9, <3>1, <3>2, <3>4, <3>5 DEF Budget
    <2>18. CASE AssignDone
      <3>1. tp = 1 /\ LclIpRecord = N + 1 /\ FreeSpaceOffset <= SetEnd[N]
        BY <2>5, <2>6, <2>8, <2>18 DEF AssignDone, Budget, Control
      <3>2. QED
        BY <2>2, <2>18, <3>1 DEF AssignDone, Budget, Return, SilPass
    <2>19. CASE NoInitialize \/ InitPass
      <3>1. /\ tp' = tp /\ pc = "init" /\ pc' = "init" /\ ~AtEnd /\ blk' = 1
            /\ LclIpRecord' = LclIpRecord + 1 /\ LclStatus' = SilPass
        BY <2>19 DEF NoInitialize, InitPass, Initialized
      <3>2. ASSUME tp = 1
            PROVE  LclIpRecord + 1 \in 1 .. N + 1 /\ FreeSpaceOffset <= LateEnd[LclIpRecord]
        <4>1. LclIpRecord \in 1 .. N
              /\ FreeSpaceOffset <= LateEnd[LclIpRecord - 1] + Taken(Tp1[LclIpRecord].late)
          BY <2>5, <2>6, <2>7, <2>9, <3>1, <3>2, SMTT(30) DEF Budget
        <4>2. QED
          BY <2>6, <2>9, <4>1
      <3>3. QED
        <4>1. LclStatus' # "SilOutOfResources"
          BY <3>1 DEF SilPass
        <4>2. LclIpRecord' - 1 = LclIpRecord
          BY <2>6, <3>1
        <4>3. tp' = 1 => /\ LclIpRecord' \in 1 .. N + 1
                         /\ FreeSpaceOffset' <= LateEnd[LclIpRecord' - 1] + 0
          <5>1. tp = 1 => LateEnd[LclIpRecord] \in Nat
            BY <2>7, <2>9, <3>1
          <5>2. QED
            BY <2>2, <3>1, <3>2, <4>2, <5>1
        <4>4. QED
          BY <3>1, <4>1, <4>3 DEF Budget
    <2>20. CASE InitDeferred
      <3>1. PICK status \in Deferred :
              /\ Initialized(status) /\ LclStatus' = status
              /\ tp' = tp /\ pc' = pc /\ LclIpRecord' = LclIpRecord /\ call' = call
        BY <2>20 DEF InitDeferred
      <3>2. /\ pc = "init" /\ ~AtEnd /\ blk' = 1 /\ status \in Record.returns
            /\ LclStatus' # "SilOutOfResources"
        BY <3>1, SMTT(30) DEF Initialized, Deferred, SilColdDef, SilWarmDef
      <3>3. ASSUME tp = 1
            PROVE  FreeSpaceOffset <= LateEnd[LclIpRecord - 1]
        <4>1. Tp1[LclIpRecord].late = << >>
          BY <2>7, <3>1, <3>2, <3>3, RoomAssumption
        <4>2. QED
          BY SMTT(40), <2>5, <2>7, <2>9, <3>2, <3>3, <4>1 DEF Budget
      <3>4. QED
        BY <2>2, <2>6, <2>7, <2>9, <3>1, <3>2, <3>3 DEF Budget
    <2>21. CASE InitBreak \/ InitNotFound \/ InitAssert \/ InitDone
      <3>1. \/ pc' = "host" /\ call' = "init"
            \/ pc' = "halted" /\ call' = call /\ LclStatus' = LclStatus
        BY <2>21, SMTT(30) DEF InitBreak, InitNotFound, InitAssert, InitDone, Return
      <3>2. QED
        BY <2>5, <3>1, SMTT(30) DEF Budget
    <2>22. CASE UNCHANGED vars
      BY <2>5, <2>22, ZenonT(40) DEF Budget, vars, Record, TakenSoFar
    <2>23. QED
      BY Zenon, <1>4, <2>10, <2>11, <2>12, <2>13, <2>14, <2>15, <2>16, <2>17, <2>18,
         <2>19, <2>20, <2>21, <2>22
  <1>5. QED
    BY <1>1, <1>2, <1>3, <1>4 DEF Next, HostStep, SilStep

(* A host that provides at least xSimQueryMemoryRequirements bytes never   *)
(* sees SilCreateInfoBlock return NULL or xSimAssignMemoryTp1 run out of   *)
(* resources, for every record list whose requests cover what its SetInput *)
(* and Initialize functions create.                                        *)
THEOREM QueryEnough == Spec => []QuerySuffices
  <1>1. Init => TypeOK /\ Control /\ HeapInv /\ QueryInv
    BY TypeInit, HeapInit, QueryInit
  <1>2. TypeOK /\ Control /\ HeapInv /\ QueryInv /\ [Next]_vars
          => (TypeOK /\ Control /\ HeapInv /\ QueryInv)'
    BY TypeStep, HeapStep, QueryStep
  <1>3. QueryInv => QuerySuffices
    BY DEF QueryInv, QuerySuffices
  <1>4. QED
    BY <1>1, <1>2, <1>3, PTL DEF Spec
-----------------------------------------------------------------------------
(***************************************************************************)
(* Lookups.  With a block of the queried size nothing a SetInput or an     *)
(* Initialize creates is missing from the chain afterwards: every create   *)
(* succeeds, and none overwrites an earlier block.  The blocks on the      *)
(* chain are those of the records the loops have passed.                   *)
(***************************************************************************)
FoundUpTo(s, n) == \A i \in 1 .. n : s[i].Instance = 0 => Found(s[i].Id)

HaveSet(n) ==
    \A j \in 1 .. n : Tp1[j].BlkRequestSize > 0 /\ Tp1[j].setInput
                        => FoundUpTo(Tp1[j].created, Len(Tp1[j].created))

HaveLate(n) ==
    \A j \in 1 .. n : Tp1[j].initialize => FoundUpTo(Tp1[j].late, Len(Tp1[j].late))

Passed ==
    /\ pc = "assign" => HaveSet(LclIpRecord - 1)
    /\ pc = "setinput" => /\ HaveSet(LclIpRecord - 1)
                          /\ FoundUpTo(Tp1[LclIpRecord].created, blk - 1)
    /\ pc = "host" /\ tp = 1 /\ call = "assign" /\ LclStatus = SilPass => HaveSet(N)
    /\ pc = "init" /\ tp = 1 =>
         /\ HaveSet(N) /\ HaveLate(LclIpRecord - 1)
         /\ blk = 1 \/ FoundUpTo(Tp1[LclIpRecord].late, blk - 1)
    /\ pc = "host" /\ call = "init" /\ LclStatus = SilPass => HaveSet(N) /\ HaveLate(N)
    /\ tp \in 2 .. 3 => HaveSet(N) /\ HaveLate(N)
    /\ pc # "halted"

LookupInv == tp > 0 /\ HostBlockSize >= xSimQueryMemoryRequirements => Passed

(* A block that is created is found, and so is every block found before. *)
LEMMA CreateFinds ==
  ASSUME TypeOK, HeapInv, tp > 0, HostBlockSize >= VarsSize,
         NEW b \in Block, SilCreateInfoBlock(b), ~nulls'
  PROVE  /\ \A id : Found(id) => Found(id)'
         /\ b.Instance = 0 => Found(b.Id)'
  <1> DEFINE Size == RequestSize(b.BlockSize)
  <1>1. Size \in Nat /\ Size > 0
    BY RequestSizeType DEF Block
  <1>2. Fits(Size)
    BY DEF SilCreateInfoBlock
  <1>3. /\ FreeSpaceOffset \in Nat /\ FreeSpaceLeft \in Nat
        /\ FreeSpaceOffset + FreeSpaceLeft = HostBlockSize
        /\ HostBlockSize \in 0 .. Uint32 - 1 /\ FreeSpaceLeft > Size
        /\ VarsSize <= FreeSpaceOffset
    BY <1>1, <1>2 DEF HeapInv, TypeOK, Fits
  <1>4. FreeSpaceOffset' = FreeSpaceOffset + Size
    <2>1. FreeSpaceOffset + Size \in 0 .. Uint32 - 1 /\ Uint32 \in Nat \ {0}
      BY <1>1, <1>3, SizesAssumption
    <2>2. (FreeSpaceOffset + Size) % Uint32 = FreeSpaceOffset + Size
      BY <2>1, ModSmall
    <2>3. QED
      BY <1>2, <2>2 DEF SilCreateInfoBlock
  <1>5. heap' = [o \in {p \in DOMAIN heap : p < FreeSpaceOffset \/ p >= FreeSpaceOffset + Size}
                          \cup {FreeSpaceOffset} |->
                     IF o = FreeSpaceOffset THEN Header(b) ELSE heap[o]]
    BY <1>2 DEF SilCreateInfoBlock
  <1>6. DOMAIN heap \subseteq Nat /\ VarsSize \in Nat
    BY SizesAssumption DEF TypeOK
  <1>7. \A o \in Chained : o \in Chained' /\ heap'[o] = heap[o]
    BY <1>1, <1>3, <1>4, <1>5, <1>6 DEF Chained
  <1>8. FreeSpaceOffset \in Chained' /\ heap'[FreeSpaceOffset] = Header(b)
    BY <1>1, <1>3, <1>4, <1>5, <1>6 DEF Chained
  <1>9. ASSUME NEW id, Found(id)
        PROVE  Found(id)'
    BY <1>7, <1>9, Zenon DEF Found
  <1>10. ASSUME b.Instance = 0
         PROVE  Found(b.Id)'
    <2>1. Header(b).Id = b.Id /\ Header(b).Instance = 0
      BY <1>10 DEF Header
    <2>2. QED
      BY <1>8, <2>1, Zenon DEF Found
  <1>11. QED
    BY <1>9, <1>10

(* What the records before left on the chain stays there. *)
LEMMA HaveKept ==
  ASSUME \A id : Found(id) => Found(id)'
  PROVE  /\ \A n : HaveSet(n) => HaveSet(n)'
         /\ \A n : HaveLate(n) => HaveLate(n)'
         /\ \A s, n : FoundUpTo(s, n) => FoundUpTo(s, n)'
  BY Zenon DEF HaveSet, HaveLate, FoundUpTo

LEMMA SameFound ==
  ASSUME UNCHANGED memVars
  PROVE  \A id : Found(id) => Found(id)'
  BY DEF Found, Chained, memVars

(* One more record, or one more block. *)
LEMMA HaveNext ==
  ASSUME NEW n \in Nat \ {0}
  PROVE  /\ HaveSet(n - 1)
            /\ (Tp1[n].BlkRequestSize > 0 /\ Tp1[n].setInput
                  => FoundUpTo(Tp1[n].created, Len(Tp1[n].created)))
            => HaveSet(n)
         /\ HaveLate(n - 1)
            /\ (Tp1[n].initialize => FoundUpTo(Tp1[n].late, Len(Tp1[n].late)))
            => HaveLate(n)
         /\ \A s : FoundUpTo(s, n - 1) /\ (s[n].Instance = 0 => Found(s[n].Id))
                     => FoundUpTo(s, n)
  <1>1. \A j \in 1 .. n : j \in 1 .. n - 1 \/ j = n
    OBVIOUS
  <1>2. QED
    BY <1>1, Zenon DEF HaveSet, HaveLate, FoundUpTo

LEMMA CreateMore ==
  ASSUME TypeOK, HeapInv, tp > 0, HostBlockSize >= VarsSize, ~nulls',
         NEW s \in Seq(Block), NEW n \in 1 .. Len(s), SilCreateInfoBlock(s[n])
  PROVE  /\ \A id : Found(id) => Found(id)'
         /\ FoundUpTo(s, n - 1) => FoundUpTo(s, n)'
  <1>1. s[n] \in Block
    OBVIOUS
  <1>2. /\ \A id : Found(id) => Found(id)'
        /\ s[n].Instance = 0 => Found(s[n].Id)'
    BY <1>1, CreateFinds
  <1>3. \A i \in 1 .. n : i \in 1 .. n - 1 \/ i = n
    OBVIOUS
  <1>4. QED
    BY <1>2, <1>3, Zenon DEF FoundUpTo

(* Where the loop has passed every record a lookup needs, it succeeds. *)
LEMMA Looked ==
  ASSUME TypeOK, Control, Passed, pc = "init", ~AtEnd, Record.initialize
  PROVE  Located
  <1>1. tp \in 1 .. 3 /\ LclIpRecord \in 1 .. Len(IpList[tp]) /\ N \in Nat
    BY RecordType, QueryExceeds DEF Control
  <1>2. HaveSet(N) /\ HaveLate(IF tp = 1 THEN LclIpRecord - 1 ELSE N)
    BY <1>1 DEF Passed
  <1> SUFFICES ASSUME NEW id \in Record.finds \cup Record.asserts
               PROVE  Found(id)
    BY DEF Located
  <1>3. \/ \E j \in 1 .. N : SetCreates(j, id)
        \/ \E j \in 1 .. N : LateCreates(j, id) /\ (tp = 1 => j < LclIpRecord)
    BY <1>1, LookupAssumption DEF Record
  <1>4. CASE \E j \in 1 .. N : SetCreates(j, id)
    <2>1. PICK j \in 1 .. N : SetCreates(j, id)
      BY <1>4
    <2>2. FoundUpTo(Tp1[j].created, Len(Tp1[j].created))
      BY <1>2, <2>1, Zenon DEF HaveSet, SetCreates
    <2>3. QED
      BY <2>1, <2>2, Zenon DEF SetCreates, Creates, FoundUpTo
  <1>5. CASE \E j \in 1 .. N : LateCreates(j, id) /\ (tp = 1 => j < LclIpRecord)
    <2>1. PICK j \in 1 .. N : LateCreates(j, id) /\ (tp = 1 => j < LclIpRecord)
      BY <1>5
    <2>2. j \in 1 .. (IF tp = 1 THEN LclIpRecord - 1 ELSE N)
      BY <1>1, <2>1
    <2>3. FoundUpTo(Tp1[j].late, Len(Tp1[j].late))
      BY <1>2, <2>1, <2>2, Zenon DEF HaveLate, LateCreates
    <2>4. QED
      BY <2>1, <2>3, Zenon DEF LateCreates, Creates, FoundUpTo
  <1>6. QED
    BY <1>3, <1>4, <1>5

LEMMA LookupStep ==
  ASSUME TypeOK, Control, HeapInv, QueryInv, QueryInv', LookupInv, [Next]_vars
  PROVE  LookupInv'
  <1>1. CASE \E MemorySize \in HostSizes : AssignMemoryTp1(MemorySize)
    <2>1. pc' = "api" /\ tp' = 1
      BY <1>1 DEF AssignMemoryTp1
    <2>2. QED
      BY <2>1 DEF LookupInv, Passed
  <1>2. CASE HostReset
    BY <1>2, SMTT(30) DEF HostReset, LookupInv
  <1>3. CASE UNCHANGED vars
    <2>1. UNCHANGED memVars
      BY <1>3 DEF vars, memVars
    <2>2. QED
      BY <1>3, <2>1, SameFound, HaveKept DEF vars, LookupInv, Passed
  <1> SUFFICES ASSUME Next, ~HostReset, ~ \E MemorySize \in HostSizes : AssignMemoryTp1(MemorySize),
                      tp > 0, HostBlockSize >= xSimQueryMemoryRequirements
               PROVE  Passed'
    <2>1. ASSUME AssignMemoryLater
          PROVE  HostBlockSize' = HostBlockSize /\ tp > 0
      BY <2>1 DEF AssignMemoryLater
    <2>2. ASSUME \/ InitializeSi \/ ApiInit \/ ApisDone \/ SkipRecord \/ OutOfResources
                 \/ CallSetInput \/ SetInputDone \/ AssignDone \/ NoInitialize
                 \/ InitPass \/ InitDeferred \/ InitBreak \/ InitNotFound
                 \/ InitAssert \/ InitDone
          PROVE  HostBlockSize' = HostBlockSize /\ tp' = tp
      BY <2>2, ZenonT(40) DEF InitializeSi, ApiInit, ApisDone, SkipRecord, OutOfResources, CallSetInput,
                  SetInputDone, AssignDone, NoInitialize, InitPass, InitDeferred, InitBreak,
                  InitNotFound, InitAssert, InitDone, memVars
    <2>3. ASSUME SetInputBlock \/ LateBlock
          PROVE  HostBlockSize' = HostBlockSize /\ tp' = tp
      BY <2>3 DEF SetInputBlock, LateBlock, SilCreateInfoBlock
    <2>4. QED
      BY <1>1, <1>2, <1>3, <2>1, <2>2, <2>3 DEF LookupInv, Next, HostStep, SilStep
  <1>4. Passed
    BY DEF LookupInv
  <1>5. /\ tp \in 1 .. 3 /\ LclIpRecord \in Nat \ {0} /\ blk \in Nat \ {0} /\ N \in Nat
        /\ HostBlockSize >= VarsSize /\ Budget
    <2>1. HostBlockSize >= VarsSize
      BY QueryExceeds, SizesAssumption, SMTT(30) DEF TypeOK
    <2>2. QED
      BY <2>1, QueryExceeds DEF TypeOK, QueryInv
  <1>6. tp = 1 /\ ~AtEnd => LclIpRecord \in 1 .. N /\ Record = Tp1[LclIpRecord]
    BY RecordType DEF N, Tp1, Record
  <1>7. tp = 1 /\ AtEnd => LclIpRecord > N
    BY DEF N, Tp1, AtEnd
  <1>8. SilPass \notin Deferred /\ SilPass # "SilNotFound" /\ SilPass # "SilAborted"
        /\ SilPass # "SilInvalidParameter" /\ SilPass # "SilOutOfResources"
    BY DEF SilPass, Deferred, SilColdDef, SilWarmDef
  <1>9. CASE SetInputBlock
    <2>1. /\ pc = "setinput" /\ tp = 1 /\ tp' = 1 /\ ~AtEnd /\ LclIpRecord' = LclIpRecord
          /\ blk \in 1 .. Len(Record.created) /\ SilCreateInfoBlock(Record.created[blk])
      BY <1>5, <1>9, RecordType DEF SetInputBlock, Control
    <2>2. HostBlockSize' = HostBlockSize /\ tp > 0
      BY <2>1 DEF SilCreateInfoBlock
    <2>3. ~nulls'
      BY <1>5, <2>1, <2>2 DEF QueryInv
    <2>4. PICK s \in Seq(Block) : s = Tp1[LclIpRecord].created
      BY <1>6, <2>1, Tp1Type
    <2>5. PICK n \in 1 .. Len(s) : n = blk
      BY <1>6, <2>1, <2>4
    <2>6. /\ \A id : Found(id) => Found(id)'
          /\ FoundUpTo(s, n - 1) => FoundUpTo(s, n)'
      <3>1. SilCreateInfoBlock(s[n])
        BY <1>6, <2>1, <2>4, <2>5
      <3>2. QED
        BY <1>5, <2>2, <2>3, <3>1, CreateMore
    <2>7. \/ pc' = "setinput" /\ blk' = blk + 1
          \/ pc' = "host" /\ LclStatus' = "SilAborted"
      BY <1>9, <2>1 DEF SetInputBlock, Return
    <2>8. HaveSet(LclIpRecord - 1)' /\ FoundUpTo(s, n)'
      <3>1. HaveSet(LclIpRecord - 1) /\ FoundUpTo(s, n - 1)
        BY <1>4, <2>1, <2>4, <2>5 DEF Passed
      <3>2. QED
        BY <2>1, <2>6, <3>1, HaveKept, SMTT(30)
    <2>9. blk' = blk + 1 => FoundUpTo(Tp1[LclIpRecord].created, blk - 1)'
      <3>1. blk + 1 - 1 = n
        BY <1>5, <2>5, SMTT(30)
      <3>2. QED
        BY <2>1, <2>4, <2>8, <3>1
    <2>10. QED
      BY <1>8, <2>1, <2>7, <2>8, <2>9, SMTT(30) DEF Passed
  <1>10. CASE LateBlock
    <2>1. /\ pc = "init" /\ pc' = "init" /\ tp' = tp /\ ~AtEnd /\ LclIpRecord' = LclIpRecord
          /\ blk \in 1 .. Len(Record.late) /\ SilCreateInfoBlock(Record.late[blk])
          /\ blk' = blk + 1
      BY <1>5, <1>10, RecordType, SMTT(30) DEF LateBlock
    <2>2. HostBlockSize' = HostBlockSize /\ tp > 0
      BY <1>5, <2>1 DEF SilCreateInfoBlock
    <2>3. ~nulls'
      BY <1>5, <2>1, <2>2, SMTT(30) DEF QueryInv
    <2>4. Record.late \in Seq(Block)
      BY <1>5, <2>1, RecordType DEF IpRecord
    <2>5. PICK s \in Seq(Block) : s = Record.late
      BY <2>4
    <2>6. PICK n \in 1 .. Len(s) : n = blk
      BY <2>1, <2>5
    <2>7. /\ \A id : Found(id) => Found(id)'
          /\ FoundUpTo(s, n - 1) => FoundUpTo(s, n)'
      <3>1. SilCreateInfoBlock(s[n])
        BY <2>1, <2>5, <2>6, SMTT(30)
      <3>2. QED
        BY <1>5, <2>2, <2>3, <3>1, CreateMore
    <2>8. ASSUME tp = 1
          PROVE  FoundUpTo(Tp1[LclIpRecord].late, blk - 1)'
      <3>1. s = Tp1[LclIpRecord].late
        BY <1>6, <2>1, <2>5, <2>8
      <3>2. FoundUpTo(s, n - 1)
        <4>1. CASE blk = 1
          BY <2>6, <4>1, SMTT(30) DEF FoundUpTo
        <4>2. CASE blk # 1
          BY <1>4, <2>1, <2>6, <2>8, <3>1, <4>2 DEF Passed
        <4>3. QED
          BY <4>1, <4>2
      <3>3. blk' - 1 = n
        BY <1>5, <2>1, <2>6
      <3>4. QED
        BY <2>1, <2>7, <3>1, <3>2, <3>3
    <2>9. QED
      BY <1>4, <2>1, <2>7, <2>8, HaveKept, SMTT(30) DEF Passed
  <1>11. CASE \/ AssignMemoryLater \/ InitializeSi \/ ApiInit \/ ApisDone \/ SkipRecord
              \/ OutOfResources \/ CallSetInput \/ SetInputDone \/ AssignDone
              \/ NoInitialize \/ InitPass \/ InitDeferred \/ InitBreak
              \/ InitNotFound \/ InitAssert \/ InitDone
    <2>1. \A id : Found(id) => Found(id)'
      <3>1. FreeSpaceOffset' = FreeSpaceOffset /\ heap' = heap
        BY <1>11, Zenon DEF AssignMemoryLater, InitializeSi, ApiInit, ApisDone, SkipRecord,
                  OutOfResources, CallSetInput, SetInputDone, AssignDone, NoInitialize,
                  InitPass, InitDeferred, InitBreak, InitNotFound, InitAssert, InitDone, memVars
      <3>2. QED
        BY <3>1, Zenon DEF Found, Chained
    <2>2. /\ \A n : HaveSet(n) => HaveSet(n)'
          /\ \A n : HaveLate(n) => HaveLate(n)'
          /\ \A s, n : FoundUpTo(s, n) => FoundUpTo(s, n)'
      BY <2>1, HaveKept
    <2>3. CASE AssignMemoryLater
      <3>1. /\ pc = "host" /\ call = "init" /\ LclStatus = SilPass /\ pc' = "api" /\ tp' = tp + 1
        BY <2>3 DEF AssignMemoryLater
      <3>2. (HaveSet(N) /\ HaveLate(N))'
        BY <1>4, <2>2, <3>1, ZenonT(40) DEF Passed
      <3>3. QED
        BY <1>5, <3>1, <3>2 DEF Passed
    <2>4. CASE InitializeSi
      <3>1. /\ pc = "host" /\ call = "assign" /\ LclStatus = SilPass /\ pc' = "init" /\ tp' = tp
            /\ LclIpRecord' = 1 /\ blk' = 1
        BY <2>4 DEF InitializeSi
      <3>2. HaveLate(0)
        BY SMTT(30) DEF HaveLate
      <3>3. QED
        BY <1>4, <1>5, <2>2, <3>1, <3>2 DEF Passed
    <2>5. CASE ApiInit \/ ApisDone
      <3>1. /\ pc = "api" /\ tp' = tp
            /\ \/ pc' = "api"
               \/ pc' = "host" /\ call' = "assign" /\ LclStatus' = "SilInvalidParameter"
               \/ tp = 1 /\ pc' = "assign" /\ LclIpRecord' = 1
               \/ tp # 1 /\ pc' = "host" /\ call' = "assign"
        BY <2>5 DEF ApiInit, ApisDone, Return
      <3>2. HaveSet(0)
        BY SMTT(30) DEF HaveSet
      <3>3. QED
        BY <1>4, <1>5, <1>8, <2>2, <3>1, <3>2 DEF Passed
    <2>6. CASE SkipRecord \/ SetInputDone
      <3>1. /\ pc \in {"assign", "setinput"} /\ tp = 1 /\ tp' = 1 /\ ~AtEnd /\ pc' = "assign"
            /\ LclIpRecord' = LclIpRecord + 1
        BY <2>6, SMTT(30) DEF SkipRecord, SetInputDone, Control
      <3> DEFINE r == Tp1[LclIpRecord]
      <3>2. r.BlkRequestSize > 0 /\ r.setInput => FoundUpTo(r.created, Len(r.created))
        <4>1. CASE SkipRecord
          <5>1. r.BlkRequestSize = 0 \/ ~r.setInput
            BY <1>6, <3>1, <4>1 DEF SkipRecord
          <5>2. QED
            BY <5>1
        <4>2. CASE SetInputDone
          <5>1. FoundUpTo(r.created, blk - 1) /\ blk \in 1 .. Len(r.created) + 1
                /\ blk > Len(r.created) /\ Len(r.created) \in Nat
            BY <1>4, <1>5, <1>6, <3>1, <4>2, Tp1Type DEF SetInputDone, Passed, Budget
          <5>2. blk - 1 = Len(r.created)
            BY <5>1, SMTT(30)
          <5>3. QED
            BY <5>1, <5>2, ZenonT(40)
        <4>3. QED
          BY <2>6, <4>1, <4>2
      <3>3. HaveSet(LclIpRecord - 1)
        BY <1>4, <3>1, Zenon DEF Passed
      <3>4. HaveSet(LclIpRecord)
        BY <1>5, <3>2, <3>3, HaveNext, Zenon
      <3>5. LclIpRecord' - 1 = LclIpRecord
        BY <1>5, <3>1
      <3>6. QED
        BY <2>2, <3>1, <3>4, <3>5 DEF Passed
    <2>7. CASE OutOfResources
      <3>1. /\ pc = "assign" /\ tp = 1 /\ tp' = 1 /\ pc' = "host" /\ call' = "assign"
            /\ LclStatus' = "SilOutOfResources"
        BY <2>7, Zenon DEF OutOfResources, Control, Return
      <3>2. LclStatus' # SilPass
        BY <1>8, <3>1, Zenon
      <3>3. ~(tp' \in 2 .. 3)
        BY <3>1, SMTT(30)
      <3>4. QED
        BY <3>1, <3>2, <3>3, Zenon DEF Passed
    <2>8. CASE CallSetInput
      <3>1. pc = "assign" /\ pc' = "setinput" /\ tp = 1 /\ tp' = 1 /\ blk' = 1
            /\ LclIpRecord' = LclIpRecord
        BY <2>8 DEF CallSetInput, Control
      <3>2. \A s : FoundUpTo(s, 0)
        BY SMTT(30) DEF FoundUpTo
      <3>3. HaveSet(LclIpRecord - 1)'
        <4>1. HaveSet(LclIpRecord - 1)
          BY <1>4, <3>1, Zenon DEF Passed
        <4>2. QED
          BY <2>2, <3>1, <4>1, Zenon
      <3>4. FoundUpTo(Tp1[LclIpRecord].created, blk - 1)'
        <4>1. blk' - 1 = 0
          BY <3>1, SMTT(30)
        <4>2. FoundUpTo(Tp1[LclIpRecord].created, 0)'
          BY <2>2, <3>1, <3>2, Zenon
        <4>3. QED
          BY <4>1, <4>2, Zenon
      <3>5. tp' \notin 2 .. 3
        BY <3>1, SMTT(30)
      <3>6. QED
        BY <3>1, <3>3, <3>4, <3>5, Zenon DEF Passed
    <2>9. CASE AssignDone
      <3>1. pc = "assign" /\ pc' = "host" /\ tp = 1 /\ tp' = 1 /\ call' = "assign" /\ AtEnd
        BY <2>9 DEF AssignDone, Control, Return
      <3>2. LclIpRecord - 1 = N
        BY <1>5, <1>7, <3>1, SMTT(30) DEF Budget
      <3>3. QED
        BY <1>4, <2>2, <3>1, <3>2 DEF Passed
    <2>10. CASE NoInitialize \/ InitPass
      <3>1. /\ pc = "init" /\ pc' = "init" /\ tp' = tp /\ ~AtEnd /\ blk' = 1
            /\ LclIpRecord' = LclIpRecord + 1
        BY <2>10 DEF NoInitialize, InitPass, Initialized
      <3>2. ASSUME tp = 1
            PROVE  HaveLate(LclIpRecord)
        <4> DEFINE r == Tp1[LclIpRecord]
        <4>1. HaveLate(LclIpRecord - 1) /\ (blk = 1 \/ FoundUpTo(r.late, blk - 1))
          BY <1>4, <3>1, <3>2 DEF Passed
        <4>2. r.initialize => FoundUpTo(r.late, Len(r.late))
          <5>1. CASE NoInitialize
            BY <1>6, <3>1, <3>2, <5>1 DEF NoInitialize
          <5>2. CASE InitPass
            <6>1. blk > Len(r.late) /\ Len(r.late) \in Nat
              BY <1>6, <3>1, <3>2, <5>2, Tp1Type DEF InitPass, Initialized
            <6>2. \A i \in 1 .. Len(r.late) : i \in 1 .. blk - 1 /\ blk # 1
              BY <1>5, <6>1
            <6>3. QED
              BY <4>1, <6>2, ZenonT(40) DEF FoundUpTo
          <5>3. QED
            BY <2>10, <5>1, <5>2
        <4>3. QED
          BY <1>5, <4>1, <4>2, HaveNext, ZenonT(40)
      <3>3. LclIpRecord' - 1 = LclIpRecord
        BY <1>5, <3>1, SMTT(30)
      <3>4. QED
        BY <1>4, <2>2, <3>1, <3>2, <3>3, ZenonT(40) DEF Passed
    <2>11. CASE InitDeferred
      <3>1. pc = "init" /\ pc' = "init" /\ tp' = tp /\ blk' = 1 /\ LclIpRecord' = LclIpRecord
        BY <2>11, ZenonT(40) DEF InitDeferred, Initialized
      <3>2. QED
        BY <1>4, <2>2, <3>1 DEF Passed
    <2>12. CASE InitBreak
      <3>1. /\ pc = "init" /\ pc' = "host" /\ call' = "init" /\ tp' = tp
            /\ \E status \in Statuses \ (Deferred \cup {SilPass}) : LclStatus' = FinalStatus(status)
        BY <2>12 DEF InitBreak, Initialized, Return
      <3>2. LclStatus' # SilPass
        BY <3>1 DEF FinalStatus
      <3>3. QED
        BY <1>4, <2>2, <3>1, <3>2, SMTT(30) DEF Passed
    <2>13. CASE InitNotFound \/ InitAssert
      <3>1. pc = "init" /\ ~AtEnd /\ Record.initialize /\ ~Located
        BY <2>13, SMTT(30) DEF InitNotFound, InitAssert, Located
      <3>2. QED
        BY <1>4, <3>1, Looked, SMTT(30)
    <2>14. CASE InitDone
      <3>1. pc = "init" /\ pc' = "host" /\ call' = "init" /\ tp' = tp /\ AtEnd
        BY <2>14, SMTT(30) DEF InitDone, Return
      <3>2. tp = 1 => LclIpRecord - 1 = N
        BY <1>5, <1>7, <3>1, SMTT(30) DEF Budget
      <3>3. HaveSet(N) /\ HaveLate(N)
        BY <1>4, <1>5, <3>1, <3>2 DEF Passed
      <3>4. QED
        BY <2>2, <3>1, <3>3 DEF Passed
    <2>15. QED
      BY <1>11, <2>3, <2>4, <2>5, <2>6, <2>7, <2>8, <2>9, <2>10, <2>11, <2>12, <2>13, <2>14
  <1>12. QED
    BY <1>9, <1>10, <1>11 DEF Next, HostStep, SilStep

(* With a block of the size xSimQueryMemoryRequirements asks for, the       *)
(* lookups of every Initialize succeed at all three time points, over any  *)
(* number of boots: neither an early return nor an assertion for a block    *)
(* that an earlier step of the same boot had to create.                    *)
THEOREM LookupsSucceed == Spec => []NothingMissing
  <1> DEFINE Inv == TypeOK /\ Control /\ HeapInv /\ QueryInv /\ LookupInv
  <1>1. Init => Inv
    BY TypeInit, HeapInit, QueryInit DEF Init, LookupInv
  <1>2. Inv /\ [Next]_vars => Inv'
    <2> SUFFICES ASSUME Inv, [Next]_vars PROVE Inv'
      OBVIOUS
    <2>1. TypeOK' /\ Control' /\ HeapInv' /\ QueryInv'
      BY TypeStep, HeapStep, QueryStep
    <2>2. LookupInv'
      BY <2>1, LookupStep, SMTT(30)
    <2>3. QED
      BY <2>1, <2>2
  <1>3. Inv => NothingMissing
    <2> SUFFICES ASSUME Inv, tp > 0, HostBlockSize >= xSimQueryMemoryRequirements
                 PROVE  pc # "halted" /\ ~ (pc = "init" /\ ~AtEnd /\ Record.initialize /\ ~Located)
      BY DEF NothingMissing
    <2>1. Passed
      BY DEF LookupInv
    <2>2. QED
      BY <2>1, Looked DEF Passed
  <1>4. QED
    BY <1>1, <1>2, <1>3, PTL DEF Spec
-----------------------------------------------------------------------------
(***************************************************************************)
(* Deferred resets.                                                        *)
(***************************************************************************)
ResetInv ==
    /\ asked \subseteq Deferred
    /\ mDeferredResetType = IF SilColdDef \in asked THEN SilColdDef
                            ELSE IF SilWarmDef \in asked THEN SilWarmDef ELSE SilPass
    /\ pc = "init" /\ LclStatus \in Deferred => asked # {}
    /\ HighestResetReported

(* What the loop returns is the highest request, if there is one. *)
LEMMA FinalReports ==
  ASSUME ResetInv, NEW status \in Statuses, status \in Deferred => asked # {},
         asked' = asked, LclStatus' = FinalStatus(status), pc' = "host"
  PROVE  HighestResetReported'
  BY Zenon DEF ResetInv, HighestResetReported, FinalStatus, Deferred, SilColdDef,
         SilWarmDef, SilPass

LEMMA ResetStep ==
  ASSUME TypeOK, Control, ResetInv, [Next]_vars
  PROVE  ResetInv'
  <1> USE DEF Deferred, SilColdDef, SilWarmDef, SilPass
  <1>1. CASE \E MemorySize \in HostSizes : AssignMemoryTp1(MemorySize)
    BY <1>1 DEF AssignMemoryTp1, ResetInv, HighestResetReported
  <1>2. CASE AssignMemoryLater \/ InitializeSi \/ HostReset
    BY <1>2, Zenon DEF AssignMemoryLater, InitializeSi, HostReset, ResetInv, HighestResetReported
  <1>3. CASE ApiInit \/ ApisDone
    BY <1>3, Zenon DEF ApiInit, ApisDone, ResetInv, HighestResetReported, Return
  <1>4. CASE SkipRecord \/ OutOfResources \/ CallSetInput \/ SetInputDone \/ AssignDone
    BY <1>4, Zenon DEF SkipRecord, OutOfResources, CallSetInput, SetInputDone, AssignDone,
                ResetInv, HighestResetReported, Return
  <1>5. CASE SetInputBlock
    BY <1>5, Zenon DEF SetInputBlock, ResetInv, HighestResetReported, Return
  <1>6. CASE NoInitialize \/ InitPass
    BY <1>6, Zenon DEF NoInitialize, InitPass, Initialized, ResetInv, HighestResetReported
  <1>7. CASE LateBlock
    BY <1>7 DEF LateBlock, ResetInv, HighestResetReported
  <1>8. CASE InitDeferred
    <2>1. PICK status \in Deferred :
            /\ SetDeferredResetType(status) /\ asked' = asked \cup {status}
            /\ pc = "init" /\ pc' = "init"
      BY <1>8 DEF InitDeferred, Initialized
    <2>2. QED
      BY <2>1 DEF SetDeferredResetType, ResetInv, HighestResetReported
  <1>9. CASE InitBreak
    <2>1. PICK status \in Statuses \ (Deferred \cup {SilPass}) :
            /\ LclStatus' = FinalStatus(status) /\ pc' = "host" /\ asked' = asked
            /\ mDeferredResetType' = mDeferredResetType
      BY <1>9 DEF InitBreak, Return
    <2>2. HighestResetReported'
      BY <2>1, FinalReports
    <2>3. QED
      BY <2>1, <2>2 DEF ResetInv
  <1>10. CASE InitNotFound
    <2>1. /\ LclStatus' = FinalStatus(Record.missing) /\ pc' = "host" /\ asked' = asked
          /\ mDeferredResetType' = mDeferredResetType /\ pc = "init" /\ ~AtEnd
      BY <1>10, SMTT(30) DEF InitNotFound, Return
    <2>2. Record.missing \in Errors
      BY <2>1, RecordType DEF TypeOK, Control
    <2>3. Record.missing \in Statuses /\ Record.missing \notin Deferred
      BY <2>2 DEF Statuses, Errors
    <2>4. HighestResetReported'
      BY <2>1, <2>3, FinalReports
    <2>5. QED
      BY <2>1, <2>4, SMTT(30) DEF ResetInv
  <1>11. CASE InitDone
    <2>1. /\ LclStatus' = FinalStatus(LclStatus) /\ pc' = "host" /\ asked' = asked
          /\ mDeferredResetType' = mDeferredResetType /\ pc = "init"
      BY <1>11 DEF InitDone, Return
    <2>2. LclStatus \in Statuses /\ (LclStatus \in Deferred => asked # {})
      BY <2>1 DEF TypeOK, ResetInv
    <2>3. HighestResetReported'
      BY <2>1, <2>2, FinalReports
    <2>4. QED
      BY <2>1, <2>3 DEF ResetInv
  <1>12. CASE InitAssert \/ UNCHANGED vars
    BY <1>12, Zenon DEF InitAssert, vars, ResetInv, HighestResetReported
  <1>13. QED
    BY <1>1, <1>2, <1>3, <1>4, <1>5, <1>6, <1>7, <1>8, <1>9, <1>10, <1>11, <1>12
       DEF Next, HostStep, SilStep

LEMMA ResetInit == Init => ResetInv
  BY DEF Init, ResetInv, HighestResetReported, Deferred, SilColdDef, SilWarmDef, SilPass

(* InitializeSiTp1, Tp2 and Tp3 report the highest order deferred reset    *)
(* any IP asked for since power on, whatever came after the request.       *)
THEOREM ResetReported == Spec => []HighestResetReported
  <1>1. Init => TypeOK /\ Control /\ ResetInv
    BY TypeInit, ResetInit
  <1>2. TypeOK /\ Control /\ ResetInv /\ [Next]_vars => (TypeOK /\ Control /\ ResetInv)'
    BY TypeStep, ResetStep
  <1>3. ResetInv => HighestResetReported
    BY DEF ResetInv
  <1>4. QED
    BY <1>1, <1>2, <1>3, PTL DEF Spec
=============================================================================
