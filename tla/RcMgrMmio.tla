----------------------------- MODULE RcMgrMmio -----------------------------
(***************************************************************************)
(* The arithmetic of the DFX resource manager's MMIO set-up (xUSL/RcMgr/   *)
(* DfX): the windows of the root bridges above and below 4G, laid out from *)
(* the sizes an NV variable asks for, or evenly.                           *)
(*                                                                         *)
(* The unit of addresses and sizes is the granule of a DF MMIO pair, 64KB. *)
(* c is the part of DFX_RCMGR_INPUT_BLK and of the machine that is only    *)
(* read; m is what the set-up writes, DFX_FABRIC_MMIO_MANAGER and the DF   *)
(* MMIO pairs, with asserted set once an assert of the source failed: a    *)
(* build with assertions stops there, one without goes on as modelled.     *)
(***************************************************************************)
EXTENDS Integers, Sequences, SequencesExt

CONSTANTS
    MaxRbs,         \* DFX_MAX_HOST_BRIDGES_PER_SOCKET, DFX_MAX_RBS_PER_SOCKET
    FourG,          \* 0x100000000
    BottomOfCompat, \* BOTTOM_OF_COMPAT
    PostedStart,    \* ADDITIONAL_POSTED_REGION_UNDER_PRIMARY_RB_START
    HoleBase,       \* 0xFD00000000
    HoleEnd,        \* 0x10000000000
    Size16M,        \* the granule of SIZE_16M_ALIGN
    NonPciMaskAbove4G, \* RCMGR_NON_PCI_MMIO_ALIGN_MASK_ABOVE4G
    MinNonPciAbove4G,  \* MMIO_MIN_NON_PCI_SIZE_ABOVE4G
    Uint64          \* number of values of an address

MaxSockets == 2     \* RCMGR_MAX_SOCKETS, MAX_SOCKETS_SUPPORTED
MinSize == 1        \* RCMGR_MMIO_MIN_SIZE
NonPciMask == 0     \* RCMGR_NON_PCI_MMIO_ALIGN_MASK, the granule itself

Slots == (0 .. MaxSockets - 1) \X (0 .. MaxRbs - 1)

(* The slots in the order of the source's nested loops. *)
SlotSeq == [k \in 1 .. MaxSockets * MaxRbs |->
              << (k - 1) \div MaxRbs, (k - 1) % MaxRbs >>]
RbNumber(c) == c.SocketNumber * c.RbsPerSocket
RbAt(c, k) == << k \div c.RbsPerSocket, k % c.RbsPerSocket >>
RbSeq(c) == [k \in 1 .. RbNumber(c) |-> RbAt(c, k - 1)]
Rbs(c) == {RbAt(c, k) : k \in 0 .. RbNumber(c) - 1}

Wrap(x) == x % Uint64
AlignUp(x, mask) == ((x + mask) \div (mask + 1)) * (mask + 1)
AlignDown(x, size) == (x \div size) * size
Lesser(a, b) == IF a < b THEN a ELSE b
Greater(a, b) == IF a > b THEN a ELSE b

NoRegion == [BaseNonPci |-> 0, SizeNonPci |-> 0, UsedSizeNonPci |-> 0,
             BaseNonPrefetch |-> 0, SizeNonPrefetch |-> 0,
             BasePrefetch |-> 0, SizePrefetch |-> 0,
             AlignNonPrefetch |-> 0, AlignPrefetch |-> 0]
NoPair == [base |-> 0, limit |-> -1, rb |-> << >>]

(* The manager of a fresh input block, and the DF's pairs after reset. *)
NoMmio ==
    [MmioRegionAbove4G |-> [s \in Slots |-> NoRegion],
     MmioRegionBelow4G |-> [s \in Slots |-> NoRegion],
     AllocateMmioAbove4GOnThisRb |-> [s \in Slots |-> FALSE],
     AllocateMmioBelow4GOnThisRb |-> [s \in Slots |-> FALSE],
     PrimaryRbHas2ndMmioBelow4G |-> FALSE,
     PrimaryRb2ndMmioPairBelow4G |-> << 0, 0 >>,
     MmioPair |-> [k \in 0 .. 4 * MaxRbs - 1 |-> NoPair],
     asserted |-> FALSE]

Assert2(m, ok) == [m EXCEPT !.asserted = @ \/ ~ok]

PairBelow(c, slot) == (slot[1] * c.RbsPerSocket + slot[2]) * 2
PairAbove(c, slot) == PairBelow(c, slot) + 1

SilSetMmioReg4(m, pair, rb, base, length) ==
    [Assert2(m, length >= MinSize) EXCEPT
       !.MmioPair[pair] = [base |-> base, limit |-> base + length - 1, rb |-> rb]]

(***************************************************************************)
(* Above 4G.                                                               *)
(***************************************************************************)

(* The widest gap between TOM2, the PCIe configuration space, the hole     *)
(* below 1T and the limit.  Only the NV variant raises a limit below TOM2. *)
WindowAbove4G(c, raise) ==
    LET cfgEnd == c.PciExpressBaseAddress + c.PciCfgSpace
        b1 == Greater(c.TOM2, FourG)
        l0 == IF c.MmioAbove4GLimit < c.PhysLimit THEN c.MmioAbove4GLimit + 1
              ELSE c.PhysLimit
        l1 == IF raise /\ c.MmioAbove4GLimit < c.PhysLimit
              THEN Greater(l0, b1) ELSE l0
        high == c.PciExpressBaseAddress >= FourG
        afterCfg == high /\ Wrap(c.PciExpressBaseAddress - c.TOM2) < Wrap(l1 - cfgEnd)
        b2 == IF afterCfg THEN cfgEnd ELSE b1
        l2 == IF high /\ ~afterCfg THEN c.PciExpressBaseAddress ELSE l1
        below == IF b2 < HoleBase THEN Wrap(Lesser(l2, HoleBase) - b2) ELSE 0
        above == IF l2 > HoleEnd THEN Wrap(l2 - Greater(b2, HoleEnd)) ELSE 0
    IN  [asserts |-> high => c.PciExpressBaseAddress >= c.TOM2 /\ cfgEnd < l1,
         base |-> IF above > below THEN Greater(c.TOM2, HoleEnd) ELSE b2,
         limit |-> CASE below = 0 /\ above = 0 -> 0
                     [] above > below -> l2
                     [] OTHER -> Lesser(l2, HoleBase)]

SizeNonPciAbove4G(c) ==
    Greater(c.Above4GMmioSizePerRbForNonPciDevice, MinNonPciAbove4G)

(* One pass of the bubble sorts over the queue of three regions: exchange  *)
(* the k-th and the next if out of order.                                  *)
BigFirst(a, b) == a < b
SmallFirst(a, b) == (a > b \/ a = 0) /\ b # 0
Exchange(queue, k, mask, big) ==
    LET a == mask[queue[k]]
        b == mask[queue[k + 1]]
    IN  IF (big /\ BigFirst(a, b)) \/ (~big /\ SmallFirst(a, b))
        THEN [queue EXCEPT ![k] = queue[k + 1], ![k + 1] = queue[k]] ELSE queue
MmioQueue(mask, big) ==
    LET Ex(queue, k) == Exchange(queue, k, mask, big)
    IN  Ex(Ex(Ex(<<"NonPci", "Prefetch", "NonPrefetch">>, 1), 2), 1)

(* Mutant of Place: the regions are packed without regard to alignment. *)
PlacePacked(queue, mask, size, from) ==
    FoldLeft(LAMBDA acc, t : [base |-> [acc.base EXCEPT ![t] = acc.next],
                              next |-> acc.next + size[t]],
             [base |-> [t \in DOMAIN mask |-> 0], next |-> from], queue)
(* The bases of the three regions, one after the other in that order. *)
Place(queue, mask, size, from) ==
    FoldLeft(LAMBDA acc, t :
               LET b == AlignUp(acc.next, mask[t])
               IN  [base |-> [acc.base EXCEPT ![t] = b], next |-> b + size[t]],
             [base |-> [t \in DOMAIN mask |-> 0], next |-> from], queue)

BaseIfAny(base, size) == IF size = 0 THEN 0 ELSE base

ArrangeRbAbove4G(c, acc, rb) ==
    LET p == c.PrefetchableMmioSizeAbove4G[rb]
        np == c.NonPrefetchableMmioSizeAbove4G[rb]
        mask == [NonPci |-> NonPciMaskAbove4G, Prefetch |-> p.Alignment,
                 NonPrefetch |-> np.Alignment]
        size == [NonPci |-> SizeNonPciAbove4G(c), Prefetch |-> p.Size,
                 NonPrefetch |-> np.Size]
        at == Place(MmioQueue(mask, acc.big), mask, size, acc.next)
        enough == acc.enough /\ at.next <= acc.limit
        region == [BaseNonPci |-> at.base.NonPci, SizeNonPci |-> size.NonPci,
                   UsedSizeNonPci |-> 0,
                   BaseNonPrefetch |-> BaseIfAny(at.base.NonPrefetch, np.Size),
                   SizeNonPrefetch |-> np.Size,
                   BasePrefetch |-> BaseIfAny(at.base.Prefetch, p.Size),
                   SizePrefetch |-> p.Size,
                   AlignNonPrefetch |-> np.Alignment, AlignPrefetch |-> p.Alignment]
        set == [SilSetMmioReg4(acc.m, PairAbove(c, rb), rb, acc.next, at.next - acc.next)
                 EXCEPT !.AllocateMmioAbove4GOnThisRb[rb] = TRUE,
                        !.MmioRegionAbove4G[rb] = region]
    IN  [acc EXCEPT !.m = IF enough THEN set ELSE @, !.next = at.next,
                    !.big = ~@, !.enough = enough]

SilArrangeMmioAbove4G(c, m) ==
    LET w == WindowAbove4G(c, TRUE)
    IN  FoldLeft(LAMBDA acc, rb : ArrangeRbAbove4G(c, acc, rb),
                 [m |-> Assert2(m, w.asserts), next |-> w.base, limit |-> w.limit,
                  big |-> TRUE, enough |-> TRUE],
                 RbSeq(c))

(***************************************************************************)
(* Below 4G, from the NV variable.  A combination says for each root       *)
(* bridge whether its MMIO goes above the PCIe configuration space.        *)
(***************************************************************************)
Combinations == [0 .. MaxSockets * MaxRbs - 1 -> BOOLEAN]
IsAbove(comb, rb) == comb[rb[1] * MaxRbs + rb[2]]

HighPcieCfg(c) == c.PciExpressBaseAddress >= FourG
BaseAbovePcieCfg(c) ==
    IF HighPcieCfg(c) THEN c.BottomMmioReservedForPrimaryRb
    ELSE c.PciExpressBaseAddress + c.PciCfgSpace

(* Non primary root bridges from the last to the first, then the primary. *)
TryOrder(c) ==
    Append(SelectSeq(Reverse(RbSeq(c)), LAMBDA rb : rb # c.Primary), c.Primary)

(* The order of the three regions of a root bridge: the alignments fall or *)
(* rise in turn from one root bridge to the next.                          *)
OrderBelow4G(big, p, np) ==
    IF big
    THEN IF p.Alignment >= np.Alignment
         THEN <<"Prefetch", "NonPrefetch", "NonPci">>
         ELSE <<"NonPrefetch", "Prefetch", "NonPci">>
    ELSE IF p.Alignment <= np.Alignment
         THEN <<"NonPci", "Prefetch", "NonPrefetch">>
         ELSE <<"NonPci", "NonPrefetch", "Prefetch">>

(* A spare slot: no MMIO below 4G was given to a root bridge there. *)
SpareBelow(m) == SelectSeq(SlotSeq, LAMBDA s : ~m.AllocateMmioBelow4GOnThisRb[s])

(* The layout of one root bridge: q is the order of its regions, at where  *)
(* they were placed from an address on.  delta is what is won when the     *)
(* non-PCI region moves to the second region of the primary.               *)
Layout(p, np, nonPci, q, at, first) ==
    LET end == IF q[1] = "NonPci" THEN at.next ELSE at.base.NonPci
        (* a region extends to the base of the next one *)
        SizeOf(t) == (IF t = q[2] /\ q[1] = "NonPci" THEN at.base[q[3]]
                      ELSE IF t = q[1] THEN at.base[q[2]] ELSE end) - at.base[t]
        sizeP == SizeOf("Prefetch")
        sizeNp == SizeOf("NonPrefetch")
    IN  [ceiling |-> at.next,
         delta |-> IF q[1] = "NonPci" THEN at.base[q[2]] - first
                   ELSE at.next - at.base[q[2]]
                          - (IF q[2] = "Prefetch" THEN p.Size ELSE np.Size),
         region |-> [BaseNonPci |-> at.base.NonPci, SizeNonPci |-> nonPci,
                     UsedSizeNonPci |-> 0,
                     BaseNonPrefetch |-> BaseIfAny(at.base.NonPrefetch, sizeNp),
                     SizeNonPrefetch |-> sizeNp,
                     BasePrefetch |-> BaseIfAny(at.base.Prefetch, sizeP),
                     SizePrefetch |-> sizeP,
                     AlignNonPrefetch |-> np.Alignment, AlignPrefetch |-> p.Alignment]]
LayoutBelow4G(c, rb, big, from) ==
    LET p == c.PrefetchableMmioSizeBelow4G[rb]
        np == c.NonPrefetchableMmioSizeBelow4G[rb]
        mask == [NonPci |-> NonPciMask, Prefetch |-> p.Alignment,
                 NonPrefetch |-> np.Alignment]
        size == [NonPci |-> c.MmioSizePerRbForNonPciDevice, Prefetch |-> p.Size,
                 NonPrefetch |-> np.Size]
        q == OrderBelow4G(big, p, np)
    IN  Layout(p, np, size.NonPci, q, Place(q, mask, size, from), AlignUp(from, mask[q[2]]))

MoveNonPci(region, big, delta) ==
    [region EXCEPT !.BaseNonPci = 0, !.SizeNonPci = 0,
                   !.BaseNonPrefetch = IF big THEN @ ELSE Wrap(@ - delta),
                   !.BasePrefetch = IF big THEN @ ELSE Wrap(@ - delta)]

(* The root bridge's share of SilTryThisCombination: where its layout      *)
(* starts and leaves the two spaces, whether it fits, whether it does when *)
(* the non-PCI region of the primary moves, and what is then written.      *)
Fitted(c, acc, rb, above, lay) ==
    LET up == IF above THEN lay.ceiling ELSE acc.above
        low == IF above THEN acc.below ELSE lay.ceiling
        limitUp == c.BottomMmioReservedForPrimaryRb
        limitLow == c.PciExpressBaseAddress
        nonPci == c.MmioSizePerRbForNonPciDevice
        over == acc.over \/ (IF above THEN up > limitUp ELSE low > limitLow)
        move == over /\ rb = c.Primary /\ RbNumber(c) < MaxRbs * MaxSockets
                /\ IF above
                   THEN up - lay.delta <= limitUp /\ low <= limitLow - nonPci
                   ELSE low - lay.delta <= limitLow /\ up <= limitUp - nonPci
        less == IF move THEN lay.delta ELSE 0
    IN  [over |-> over /\ ~move, move |-> move,
         above |-> IF above THEN up - less ELSE up,
         below |-> IF above THEN low ELSE low - less]
WriteRb(c, m, rb, from, end, region) ==
    [SilSetMmioReg4(Assert2(m, BottomOfCompat >= c.BottomMmioReservedForPrimaryRb),
                    PairBelow(c, rb), rb, from, end - from)
      EXCEPT !.AllocateMmioBelow4GOnThisRb[rb] = TRUE, !.MmioRegionBelow4G[rb] = region]
(* The primary has what is left of its space, the reserved part included. *)
EndOfRb(c, primary, above, ceiling) ==
    CASE primary /\ above -> BottomOfCompat
      [] primary /\ ~above -> c.PciExpressBaseAddress
      [] OTHER -> ceiling
Placed(c, set, acc, rb, above, big, from, lay, fit) ==
    LET primary == rb = c.Primary
        end == EndOfRb(c, primary, above, lay.ceiling)
        taken == ~fit.over /\ set /\ primary
    IN  [m |-> IF ~fit.over /\ set
               THEN WriteRb(c, acc.m, rb, from, end,
                      IF fit.move THEN MoveNonPci(lay.region, big, lay.delta)
                      ELSE lay.region)
               ELSE acc.m,
         above |-> IF taken /\ above THEN end ELSE fit.above,
         below |-> IF taken /\ ~above THEN end ELSE fit.below,
         bigAbove |-> IF above THEN ~big ELSE acc.bigAbove,
         bigBelow |-> IF above THEN acc.bigBelow ELSE ~big,
         over |-> fit.over, moved |-> fit.move,
         reserved |-> acc.reserved \/ (taken /\ above)]
TryLaid(c, set, acc, rb, above, big, from, lay) ==
    Placed(c, set, acc, rb, above, big, from, lay, Fitted(c, acc, rb, above, lay))
TryFrom(c, set, acc, rb, above, big, from) ==
    TryLaid(c, set, acc, rb, above, big, from, LayoutBelow4G(c, rb, big, from))
TryRb(c, comb, set, acc, rb) ==
    IF IsAbove(comb, rb)
    THEN TryFrom(c, set, acc, rb, TRUE, acc.bigAbove, acc.above)
    ELSE TryFrom(c, set, acc, rb, FALSE, acc.bigBelow, acc.below)

(* The regions of the primary's second MMIO, from base for length granules.*)
SecondRegion(c, base, length, moved) ==
    LET nonPci == c.MmioSizePerRbForNonPciDevice
        baseNonPci == base + length - nonPci
        room == IF moved THEN baseNonPci - base ELSE length
        p == c.PrimaryRbSecondPrefetchableMmioSizeBelow4G
        np == c.PrimaryRbSecondNonPrefetchableMmioSizeBelow4G
        sizeP == CASE np.Size = 0 -> room
                   [] np.Size # 0 /\ p.Size = 0 -> 0
                   [] OTHER -> (room \div (p.Size + np.Size)) * p.Size
        baseP == IF sizeP # 0 THEN AlignUp(base, p.Alignment) ELSE base
        baseNp == AlignUp(baseP + sizeP, np.Alignment)
        sizeNp == IF room - sizeP = 0 \/ np.Size = 0 THEN 0
                  ELSE Wrap(base + room - baseNp)
    IN  [BaseNonPci |-> IF moved THEN baseNonPci ELSE 0,
         SizeNonPci |-> IF moved THEN nonPci ELSE 0,
         UsedSizeNonPci |-> 0,
         BaseNonPrefetch |-> BaseIfAny(baseNp, sizeNp), SizeNonPrefetch |-> sizeNp,
         BasePrefetch |-> BaseIfAny(baseP, sizeP), SizePrefetch |-> sizeP,
         AlignNonPrefetch |-> np.Alignment, AlignPrefetch |-> p.Alignment]

(* The primary's second MMIO goes to what is left above the configuration  *)
(* space, else to what is left below it, through the first spare pair.     *)
SecondMmio(c, acc) ==
    LET m == acc.m
        limitUp == c.BottomMmioReservedForPrimaryRb
        limitLow == c.PciExpressBaseAddress
        spare == SpareBelow(m)
        wanted == /\ \/ acc.above + MinSize <= limitUp
                     \/ acc.below + MinSize <= limitLow
                  /\ \/ c.PrimaryRbSecondNonPrefetchableMmioSizeBelow4G.Size # 0
                     \/ c.PrimaryRbSecondPrefetchableMmioSizeBelow4G.Size # 0
                     \/ acc.moved
                  /\ RbNumber(c) < MaxRbs * MaxSockets
                  /\ spare # << >>
        up == acc.above < limitUp
        base == IF up THEN acc.above ELSE acc.below
        room == (IF up THEN limitUp ELSE limitLow) - base
        end == IF up THEN BottomOfCompat ELSE limitLow
    IN  IF ~wanted THEN acc
        ELSE [acc EXCEPT
                !.reserved = @ \/ up,
                !.m = [SilSetMmioReg4(m, PairBelow(c, Head(spare)), c.Primary,
                                      base, end - base)
                        EXCEPT !.PrimaryRb2ndMmioPairBelow4G = Head(spare),
                               !.PrimaryRbHas2ndMmioBelow4G = TRUE,
                               !.MmioRegionBelow4G[Head(spare)] =
                                   SecondRegion(c, base, room, acc.moved)]]

(* A spare pair makes the posted region under the primary reachable. *)
SilAdditionalMmioSetting4(c, m, reserved) ==
    LET second(s) == m.PrimaryRbHas2ndMmioBelow4G /\ m.PrimaryRb2ndMmioPairBelow4G = s
        spare == SelectSeq(SlotSeq, LAMBDA s :
                   IF m.AllocateMmioBelow4GOnThisRb[s]
                   THEN ~m.AllocateMmioAbove4GOnThisRb[s] ELSE ~second(s))
        s == Head(spare)
        pair == IF m.AllocateMmioBelow4GOnThisRb[s] THEN PairAbove(c, s)
                ELSE PairBelow(c, s)
    IN  IF (reserved => BottomOfCompat <= PostedStart) /\ spare # << >>
        THEN SilSetMmioReg4(m, pair, c.Primary, PostedStart, 1) ELSE m

(* Returns whether everything fits; with set it also programs the pairs,   *)
(* up to the first root bridge that does not fit.  The record of the       *)
(* smallest excess, which only a caller with a SpaceStatus would read, is  *)
(* left out: InitializeResourceManagerDfXTp1 passes NULL.                  *)
WithSecond(c, acc) == SilAdditionalMmioSetting4(c, acc.m, acc.reserved)
Tried(c, set, try) ==
    [fits |-> ~try.over,
     m |-> IF ~try.over /\ set THEN WithSecond(c, SecondMmio(c, try)) ELSE try.m]
SilTryThisCombination(c, m, comb, set) ==
    Tried(c, set,
      FoldLeft(LAMBDA acc, rb :
                 IF c.PrefetchableMmioSizeBelow4G[rb].Size
                      + c.NonPrefetchableMmioSizeBelow4G[rb].Size
                      + c.MmioSizePerRbForNonPciDevice = 0
                 THEN acc ELSE TryRb(c, comb, set, acc, rb),
               [m |-> m, above |-> BaseAbovePcieCfg(c), below |-> c.TOM,
                bigAbove |-> TRUE, bigBelow |-> TRUE, over |-> FALSE,
                moved |-> FALSE, reserved |-> FALSE],
               TryOrder(c)))

(* Mutant of SilGetNextCombination: the root bridges before the one that   *)
(* moves stay where they are.                                              *)
NextWithoutReset(c, n, comb) ==
    LET reset == CHOOSE r \in 0 .. n : /\ r = n \/ comb[r]
                                       /\ \A k \in 0 .. r - 1 : ~comb[k]
        move == CHOOSE k \in reset + 1 .. RbNumber(c) - 1 :
                  ~comb[k] /\ \A j \in reset + 1 .. k - 1 : comb[j]
    IN  IF reset = n THEN << >> ELSE [comb EXCEPT ![move] = TRUE, ![move - 1] = FALSE]
(* The next way of putting n root bridges below; << >> after the last. *)
SilGetNextCombination(c, n, comb) ==
    LET reset == CHOOSE r \in 0 .. n : /\ r = n \/ comb[r]
                                       /\ \A k \in 0 .. r - 1 : ~comb[k]
        move == CHOOSE k \in reset + 1 .. RbNumber(c) - 1 :
                  ~comb[k] /\ \A j \in reset + 1 .. k - 1 : comb[j]
    IN  IF reset = n THEN << >>
        ELSE [k \in DOMAIN comb |->
                CASE k \in move - 1 - reset .. move - 1 -> FALSE
                  [] k < reset /\ k < move - 1 - reset -> TRUE
                  [] k = move -> TRUE
                  [] OTHER -> comb[k]]
(***************************************************************************)
(* The even distribution.                                                  *)
(***************************************************************************)

(* Prefetchable, non-prefetchable, non-PCI in a range below 4G, and        *)
(* non-PCI, prefetchable, non-prefetchable in a range above 4G; four fifth *)
(* of what the non-PCI region leaves is prefetchable.                      *)
FourFifth(x) == AlignDown(Wrap(x * 4) \div 5, Size16M)
EvenRegionBelow4G(c, base, length) ==
    LET nonPci == c.MmioSizePerRbForNonPciDevice
        sizeP == FourFifth(length - nonPci)
        baseNonPci == Wrap(base + length - nonPci)
    IN  [BaseNonPci |-> baseNonPci, SizeNonPci |-> nonPci, UsedSizeNonPci |-> 0,
         BaseNonPrefetch |-> base + sizeP,
         SizeNonPrefetch |-> Wrap(baseNonPci - (base + sizeP)),
         BasePrefetch |-> base, SizePrefetch |-> sizeP,
         AlignNonPrefetch |-> 0, AlignPrefetch |-> 0]
EvenRegionAbove4G(c, base, length) ==
    LET nonPci == SizeNonPciAbove4G(c)
        baseNonPci == AlignUp(base, NonPciMaskAbove4G)
        baseP == baseNonPci + nonPci
        sizeP == FourFifth(base + length - baseP)
    IN  [BaseNonPci |-> baseNonPci, SizeNonPci |-> nonPci, UsedSizeNonPci |-> 0,
         BaseNonPrefetch |-> baseP + sizeP,
         SizeNonPrefetch |-> Wrap(base + length - (baseP + sizeP)),
         BasePrefetch |-> baseP, SizePrefetch |-> sizeP,
         AlignNonPrefetch |-> 0, AlignPrefetch |-> 0]

(* The space above and below the configuration space, and which of the two *)
(* is too small to share.                                                  *)
EvenSpace(c) ==
    LET bottom == c.BottomMmioReservedForPrimaryRb
        n == RbNumber(c)
        above == IF HighPcieCfg(c) THEN 0
                 ELSE bottom - c.PciExpressBaseAddress - c.PciCfgSpace
        below == IF HighPcieCfg(c) THEN bottom - c.TOM
                 ELSE c.PciExpressBaseAddress - c.TOM
        smallAbove == n > 1 /\ above < ((below \div n) * 8) \div 10
        smallBelow == n > 1 /\ below < ((above \div n) * 8) \div 10
    IN  [above |-> above, below |-> below,
         smallAbove |-> smallAbove, smallBelow |-> smallBelow,
         total |-> (IF smallAbove THEN 0 ELSE above) + (IF smallBelow THEN 0 ELSE below),
         top |-> IF HighPcieCfg(c) THEN bottom ELSE c.PciExpressBaseAddress]

(* How many root bridges are put above the configuration space. *)
RbNumberAbovePcieCfg(c, sp) ==
    LET size == sp.total \div RbNumber(c)
        k == sp.above \div size
    IN  IF sp.smallAbove THEN 0
        ELSE Greater(1, IF sp.above - size * k > size \div 2 THEN k + 1 ELSE k)

(* Mutant of EvenRange: every range is as long as the first. *)
EvenRangeSameLength(c, sp, above, k) ==
    LET low == k >= above
        count == IF low THEN RbNumber(c) - above ELSE above
        space == IF low THEN sp.below ELSE sp.above
        first == IF low THEN above ELSE 0
        top == IF low THEN sp.top ELSE c.BottomMmioReservedForPrimaryRb
        even == AlignDown(space \div count, Size16M)
        remained == space - even * (count - 1)
    IN  [base |-> top - remained - even * (k - first), length |-> remained]
(* The range below 4G of the k-th root bridge to be served, the primary    *)
(* being the 0th: the ranges grow down from the end of each space, the     *)
(* first one takes the remainder.                                          *)
EvenRange(c, sp, above, k) ==
    LET low == k >= above
        count == IF low THEN RbNumber(c) - above ELSE above
        space == IF low THEN sp.below ELSE sp.above
        first == IF low THEN above ELSE 0
        top == IF low THEN sp.top ELSE c.BottomMmioReservedForPrimaryRb
        even == AlignDown(space \div count, Size16M)
        remained == space - even * (count - 1)
        length == IF k = first THEN remained ELSE even
    IN  [base |-> top - remained - even * (k - first), length |-> length]

EvenOrder(c) == << c.Primary >> \o SelectSeq(RbSeq(c), LAMBDA rb : rb # c.Primary)

(* MMIO below 4G of the root bridge served as the k-th; false once there   *)
(* is no space for it.                                                     *)
EvenRbBelow4G(c, sp, above, acc, k) ==
    LET rb == EvenOrder(c)[k + 1]
        marked == [acc.m EXCEPT !.AllocateMmioBelow4GOnThisRb[rb] = TRUE]
        r == EvenRange(c, sp, above, k)
        reserve == IF k = 0 /\ ~sp.smallAbove
                   THEN BottomOfCompat - c.BottomMmioReservedForPrimaryRb ELSE 0
    IN  IF ~acc.ok THEN acc
        ELSE IF k >= above /\ sp.smallBelow THEN [m |-> marked, ok |-> FALSE]
        ELSE [m |-> [SilSetMmioReg4(marked, PairBelow(c, rb), rb, r.base,
                                    r.length + reserve)
                      EXCEPT !.MmioRegionBelow4G[rb] =
                               EvenRegionBelow4G(c, r.base, r.length)],
              ok |-> TRUE]

EvenBelow4G(c, m, sp) ==
    LET above == RbNumberAbovePcieCfg(c, sp)
    IN  FoldLeft(LAMBDA acc, k : EvenRbBelow4G(c, sp, above, acc, k),
                 [m |-> m, ok |-> TRUE], [k \in 1 .. RbNumber(c) |-> k - 1])

(* The space that was too small becomes the primary's second MMIO. *)
EvenSecondMmio(c, m, sp) ==
    LET spare == SpareBelow(m)
        base == IF sp.smallAbove THEN c.PciExpressBaseAddress + c.PciCfgSpace ELSE c.TOM
        size == IF sp.smallAbove THEN sp.above ELSE sp.below
        reserve == IF sp.smallAbove
                   THEN BottomOfCompat - c.BottomMmioReservedForPrimaryRb ELSE 0
    IN  IF /\ RbNumber(c) < MaxRbs * MaxSockets
           /\ \/ sp.smallAbove /\ sp.above # 0
              \/ sp.below # 0 /\ (sp.smallBelow \/ RbNumber(c) = 1)
           /\ spare # << >>
        THEN [SilSetMmioReg4(m, PairBelow(c, Head(spare)), c.Primary, base, size + reserve)
               EXCEPT !.PrimaryRb2ndMmioPairBelow4G = Head(spare),
                      !.PrimaryRbHas2ndMmioBelow4G = TRUE,
                      !.MmioRegionBelow4G[Head(spare)] =
                         [NoRegion EXCEPT !.BasePrefetch = base, !.SizePrefetch = size]]
        ELSE m

(* Above 4G every root bridge is marked, but one whose share is below the  *)
(* minimum is passed over without a pair, a region or an advance.          *)
EvenAbove4G(c, m) ==
    LET w == WindowAbove4G(c, FALSE)
        n == RbNumber(c)
        even == AlignDown((w.limit - w.base) \div n, Size16M)
        remained == (w.limit - w.base) - even * (n - 1)
        Serve(acc, rb) ==
          LET last == rb = RbAt(c, n - 1)
              length == IF last THEN remained ELSE even
              marked == [acc.m EXCEPT !.AllocateMmioAbove4GOnThisRb[rb] = TRUE]
          IN  IF length < MinNonPciAbove4G THEN [acc EXCEPT !.m = marked]
              ELSE [m |-> [SilSetMmioReg4(marked, PairAbove(c, rb), rb, acc.base,
                              IF last THEN w.limit - acc.base ELSE even)
                            EXCEPT !.MmioRegionAbove4G[rb] =
                                     EvenRegionAbove4G(c, acc.base, length)],
                    base |-> acc.base + length]
        asserted == Assert2(m, w.asserts)
    IN  IF w.limit > w.base
        THEN FoldLeft(Serve, [m |-> asserted, base |-> w.base], RbSeq(c)).m
        ELSE asserted

SilInitMmioEqually4(c, m) ==
    LET bottom == c.BottomMmioReservedForPrimaryRb
        sane == /\ ~HighPcieCfg(c) =>
                     /\ bottom >= c.PciExpressBaseAddress + c.PciCfgSpace
                     /\ c.PciExpressBaseAddress >= c.TOM
                /\ BottomOfCompat >= bottom
        sp == EvenSpace(c)
        below == EvenBelow4G(c, m, sp)
        second == EvenSecondMmio(c, below.m, sp)
        reserved == ~sp.smallAbove \/ second # below.m
    IN  CASE ~sane -> [m |-> Assert2(m, FALSE), status |-> "SilAborted"]
          [] sane /\ \/ sp.total = 0 /\ RbNumber(c) > 1
                     \/ sp.smallAbove /\ sp.smallBelow
               -> [m |-> m, status |-> "SilOutOfResources"]
          [] sane /\ sp.total # 0 /\ ~(sp.smallAbove /\ sp.smallBelow) /\ ~below.ok
               -> [m |-> below.m, status |-> "SilOutOfResources"]
          [] OTHER
               -> [m |-> SilAdditionalMmioSetting4(c, EvenAbove4G(c, second), reserved),
                   status |-> "SilPass"]
=============================================================================
