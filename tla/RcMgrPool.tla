----------------------------- MODULE RcMgrPool -----------------------------
(***************************************************************************)
(* FabricReserveMmio (xUSL/RcMgr/DfX/FabricResourceManager.c): drivers of  *)
(* non-discoverable devices reserve MMIO from the non-PCI windows that the *)
(* resource manager's start-up left, one below and one above 4G per root   *)
(* bridge, and a second one below 4G for the primary root bridge, kept in  *)
(* the slot of a root bridge that is not there.                            *)
(***************************************************************************)
EXTENDS Integers

CONSTANTS
    Layouts,        \* what the start-up may leave, see LayoutOK
    Slots,          \* MmioRegionBelow4G and ..Above4G have an entry for each
    Buses,          \* PCI bus numbers
    Lengths,        \* the sizes and alignment bit maps of requests
    Masks

ASSUME RequestAssumption ==
    /\ Lengths \subseteq Nat
    /\ Masks \subseteq Nat
    /\ \A mask \in Masks : \E k \in 0 .. 63 : mask + 1 = 2 ^ k

Kinds == {"NON_PCI_DEVICE_BELOW_4G", "NON_PCI_DEVICE_ABOVE_4G"}
Below == "NON_PCI_DEVICE_BELOW_4G"
OtherKind == "MMIO_BELOW_4G"
NoSlot == << >>
Windows == Kinds \X Slots

Extent(base, size) == base .. base + size - 1
DisjointWindows(region) ==
    \A v, w \in Windows :
        v # w => Extent(region[v].Base, region[v].Size)
                   \cap Extent(region[w].Base, region[w].Size) = {}

(* The windows start unused and lie apart, none of them at address 0, and  *)
(* the slot of the second window is not that of a root bridge.             *)
LayoutOK(l) ==
    /\ l.region \in [Windows -> [Base : Nat, Size : Nat, Used : {0}]]
    /\ \A w \in Windows : l.region[w].Size # 0 => l.region[w].Base # 0
    /\ DisjointWindows(l.region)
    /\ l.allocate \in [Windows -> BOOLEAN]
    /\ l.second \in Slots \cup {NoSlot}
    /\ l.rbs \subseteq Slots
    /\ l.primary \in l.rbs
    /\ l.second \notin l.rbs
    /\ l.busRb \in [Buses -> l.rbs \cup {NoSlot}]

ASSUME LayoutAssumption ==
    /\ NoSlot \notin Slots
    /\ \A l \in Layouts : LayoutOK(l)

VARIABLES
    layout,         \* the layout of this machine
    region,         \* base, size and used size of the non-PCI windows
    given,          \* the reservations that were granted
    request,        \* the last call
    answer          \* and what it returned

vars == <<layout, region, given, request, answer>>

NoRequest == [kind |-> Below, rb |-> NoSlot, length |-> 0, mask |-> 0]
NoAnswer == [status |-> "SilPass", base |-> 0, length |-> 0, window |-> NoSlot]

Init ==
    /\ layout \in Layouts
    /\ region = layout.region
    /\ given = {}
    /\ request = NoRequest
    /\ answer = NoAnswer

(* What is missing to the next address that the mask allows. *)
Pad(x, mask) == (-x) % (mask + 1)
NextFree(r) == r.Base + r.Used

(* Mutant of FabricGetRemainingSizeForThisRegion: the alignment is ignored.*)
RemainingUnaligned(r, mask) == r.Size - r.Used
FabricGetRemainingSizeForThisRegion(r, mask) ==
    LET left == r.Size - r.Used
        pad == Pad(NextFree(r), mask)
    IN  IF left >= pad THEN left - pad ELSE 0

(* The base address for length units of a window; 0 when there is none. *)
FabricGetBaseAddress(r, length, mask) ==
    LET pad == Pad(NextFree(r), mask)
    IN  IF NextFree(r) # 0 /\ r.Size - r.Used # 0 /\ r.Size - r.Used >= length + pad
        THEN NextFree(r) + pad ELSE 0
(* Mutant of Take: the padding is not counted. *)
TakeNoPad(r, length, mask) == [r EXCEPT !.Used = @ + length]
Take(r, length, mask) ==
    [r EXCEPT !.Used = @ + length + Pad(NextFree(r), mask)]

(* The windows a request may be served from, the one with less room first. *)
Candidates(l, reg, kind, rb, mask) ==
    LET own == <<kind, rb>>
        other == <<Below, l.second>>
        Room(w) == FabricGetRemainingSizeForThisRegion(reg[w], mask)
    IN  IF kind # Below \/ l.second = NoSlot \/ rb # l.primary
        THEN [a |-> own, sizeA |-> Room(own), b |-> NoSlot, sizeB |-> 0]
        ELSE IF Room(own) > Room(other) /\ Room(other) # 0
        THEN [a |-> other, sizeA |-> Room(other), b |-> own, sizeB |-> Room(own)]
        ELSE [a |-> own, sizeA |-> Room(own), b |-> other, sizeB |-> Room(other)]

(* What FabricReserveMmio returns for a root bridge, and the window used. *)
Outcome(l, reg, kind, rb, length, mask) ==
    LET cand == Candidates(l, reg, kind, rb, mask)
        w == IF cand.sizeA >= length THEN cand.a
             ELSE IF cand.sizeB >= length THEN cand.b ELSE NoSlot
        base == IF w = NoSlot THEN 0 ELSE FabricGetBaseAddress(reg[w], length, mask)
    IN  IF base = 0
        THEN [status |-> "SilOutOfResources", base |-> 0,
              length |-> IF cand.sizeA > cand.sizeB THEN cand.sizeA ELSE cand.sizeB,
              window |-> NoSlot]
        ELSE [status |-> "SilPass", base |-> base, length |-> length, window |-> w]

(* The early returns: nothing asked for, a kind that is not served, a bus  *)
(* no root bridge decodes, a root bridge without MMIO of that kind.        *)
Served(kind, rb, length) ==
    /\ length # 0
    /\ kind \in Kinds
    /\ rb # NoSlot
    /\ layout.allocate[<<kind, rb>>]
EarlyAnswer(length) ==
    [NoAnswer EXCEPT !.status = IF length = 0 THEN "SilPass" ELSE "SilAborted"]

Reserve(kind, rb, length, mask) ==
    LET out == Outcome(layout, region, kind, rb, length, mask)
    IN  /\ request' = [kind |-> kind, rb |-> rb, length |-> length, mask |-> mask]
        /\ UNCHANGED layout
        /\ \/ /\ ~Served(kind, rb, length)
              /\ answer' = EarlyAnswer(length)
              /\ UNCHANGED <<region, given>>
           \/ /\ Served(kind, rb, length)
              /\ out.status # "SilPass"
              /\ answer' = out
              /\ UNCHANGED <<region, given>>
           \/ /\ Served(kind, rb, length)
              /\ out.status = "SilPass"
              /\ answer' = out
              /\ region' = [region EXCEPT ![out.window] = Take(@, length, mask)]
              /\ given' = given \cup {[window |-> out.window, base |-> out.base,
                                       length |-> length, mask |-> mask]}

(* Target.TgtType is a root bridge: a number beyond the socket's last one  *)
(* stands for the last one.                                                *)
ReserveForRb ==
    \E kind \in Kinds \cup {OtherKind}, rb \in Slots, length \in Lengths, mask \in Masks :
        Reserve(kind, rb, length, mask)

(* Target.TgtType is TARGET_PCI_BUS: the root bridge whose range of the    *)
(* configuration address map holds the bus.                                *)
ReserveForBus ==
    \E kind \in Kinds, bus \in Buses, length \in Lengths, mask \in Masks :
        Reserve(kind, layout.busRb[bus], length, mask)

FabricReserveMmio == ReserveForRb \/ ReserveForBus
Next == FabricReserveMmio
Spec == Init /\ [][Next]_vars

-----------------------------------------------------------------------------
(* Field types, and no window is used beyond its size. *)
TypeOK ==
    /\ layout \in Layouts
    /\ region \in [Windows -> [Base : Nat, Size : Nat, Used : Nat]]
    /\ \A w \in Windows : region[w].Used <= region[w].Size
    /\ given \subseteq [window : Windows, base : Nat, length : Nat, mask : Nat]
    /\ answer \in [status : {"SilPass", "SilAborted", "SilOutOfResources"},
                   base : Nat, length : Nat, window : Windows \cup {NoSlot}]

(* No two devices are ever given the same address, whichever root bridges  *)
(* and windows FabricReserveMmio served them from.                         *)
ReservationsDisjoint ==
    \A g, h \in given :
        g # h => Extent(g.base, g.length) \cap Extent(h.base, h.length) = {}

(* What FabricReserveMmio hands out starts at a multiple of the alignment  *)
(* the caller asked for, above address 0, and lies in the window.          *)
ReservationsFit ==
    \A g \in given :
        /\ g.base # 0
        /\ g.base % (g.mask + 1) = 0
        /\ g.base >= layout.region[g.window].Base
        /\ g.base + g.length <= layout.region[g.window].Base
                                 + layout.region[g.window].Size

(* Every grant of FabricReserveMmio is its caller's alone, and is what the *)
(* caller asked for.                                                       *)
ReservationsSound == ReservationsDisjoint /\ ReservationsFit

(* The length FabricReserveMmio returns with SilOutOfResources ("the       *)
(* biggest MMIO size is") is less than what was asked for, and asking for  *)
(* it instead succeeds.                                                    *)
BiggestSizeIsGranted ==
    answer.status = "SilOutOfResources" =>
        /\ answer.length < request.length
        /\ answer.length # 0 =>
             Outcome(layout, region, request.kind, request.rb, answer.length,
                     request.mask).status = "SilPass"

=============================================================================
