-------------------------- MODULE RcMgrPoolProofs --------------------------
(* What FabricReserveMmio promises, for every layout of the windows and    *)
(* every sequence of requests.                                             *)
EXTENDS RcMgrPool, TLAPS

(* The padding that (Base + AlignMask) & ~AlignMask adds. *)
LEMMA PadProperty ==
    ASSUME NEW x \in Nat, NEW mask \in Nat
    PROVE  /\ Pad(x, mask) \in Nat
           /\ Pad(x, mask) <= mask
           /\ (x + Pad(x, mask)) % (mask + 1) = 0
  <1> DEFINE d == mask + 1
             q == (-x) \div d
             r == (-x) % d
  <1>1. d \in Nat /\ d > 0
    OBVIOUS
  <1>2. q \in Int /\ r \in 0 .. mask /\ -x = d * q + r
    BY <1>1, Z3
  <1>3. (x + r) = d * (-q)
    BY <1>1, <1>2, Z3
  <1>4. (d * (-q)) % d = 0
    BY <1>1, <1>2, Z3
  <1>5. QED
    BY <1>2, <1>3, <1>4 DEF Pad

Region == [Base : Nat, Size : Nat, Used : Nat]
Sound(r) == r \in Region /\ r.Used <= r.Size /\ (r.Size # 0 => r.Base # 0)

(* A window with room for a request, by FabricGetRemainingSizeForThis-     *)
(* Region, is never turned down by FabricGetBaseAddress.                   *)
LEMMA RoomIsGranted ==
    ASSUME NEW r \in Region, Sound(r), NEW mask \in Nat, NEW length \in Nat \ {0}
    PROVE  /\ FabricGetRemainingSizeForThisRegion(r, mask) \in Nat
           /\ FabricGetRemainingSizeForThisRegion(r, mask) >= length =>
                FabricGetBaseAddress(r, length, mask) # 0
           /\ FabricGetBaseAddress(r, length, mask) # 0 =>
                /\ FabricGetBaseAddress(r, length, mask)
                     = r.Base + r.Used + Pad(r.Base + r.Used, mask)
                /\ r.Size - r.Used >= length + Pad(r.Base + r.Used, mask)
  <1>1. r.Base \in Nat /\ r.Size \in Nat /\ r.Used \in Nat /\ r.Used <= r.Size
    BY DEF Sound, Region
  <1>2. r.Base + r.Used \in Nat
    BY <1>1
  <1>3. Pad(r.Base + r.Used, mask) \in Nat
    BY <1>2, PadProperty, Zenon
  <1>4. QED
    BY <1>1, <1>3 DEF FabricGetRemainingSizeForThisRegion, FabricGetBaseAddress,
                      NextFree, Sound

(* The candidates are windows, each with its room. *)
LEMMA CandidatesProperty ==
    ASSUME NEW l, NEW reg, NEW kind \in Kinds, NEW rb \in Slots, NEW mask,
           l.second \in Slots \cup {NoSlot}
    PROVE  LET cand == Candidates(l, reg, kind, rb, mask)
           IN  /\ cand.a \in Windows
               /\ cand.sizeA = FabricGetRemainingSizeForThisRegion(reg[cand.a], mask)
               /\ \/ cand.b = NoSlot /\ cand.sizeB = 0
                  \/ /\ cand.b \in Windows
                     /\ cand.sizeB = FabricGetRemainingSizeForThisRegion(reg[cand.b], mask)
  <1> DEFINE own == <<kind, rb>>
             other == <<Below, l.second>>
             Room(w) == FabricGetRemainingSizeForThisRegion(reg[w], mask)
             alone == kind # Below \/ l.second = NoSlot \/ rb # l.primary
             swap == Room(own) > Room(other) /\ Room(other) # 0
  <1>1. own \in Windows
    BY DEF Windows
  <1>2. CASE alone
    <2>1. Candidates(l, reg, kind, rb, mask)
            = [a |-> own, sizeA |-> Room(own), b |-> NoSlot, sizeB |-> 0]
      BY <1>2 DEF Candidates
    <2>2. QED
      BY <1>1, <2>1
  <1>3. CASE ~alone
    <2>1. other \in Windows
      BY <1>3 DEF Windows, Below, Kinds
    <2>2. CASE swap
      <3>1. Candidates(l, reg, kind, rb, mask)
              = [a |-> other, sizeA |-> Room(other), b |-> own, sizeB |-> Room(own)]
        BY <1>3, <2>2 DEF Candidates
      <3>2. QED
        BY <1>1, <2>1, <3>1
    <2>3. CASE ~swap
      <3>1. Candidates(l, reg, kind, rb, mask)
              = [a |-> own, sizeA |-> Room(own), b |-> other, sizeB |-> Room(other)]
        BY <1>3, <2>3 DEF Candidates
      <3>2. QED
        BY <1>1, <2>1, <3>1
    <2>4. QED
      BY <2>2, <2>3
  <1>4. QED
    BY <1>2, <1>3

(* What FabricReserveMmio returns: either room in one of the windows, or   *)
(* the most that a request with this alignment could get.                  *)
LEMMA OutcomeProperty ==
    ASSUME NEW l, NEW reg \in [Windows -> Region], \A w \in Windows : Sound(reg[w]),
           NoSlot \notin Windows, l.second \in Slots \cup {NoSlot},
           NEW kind \in Kinds, NEW rb \in Slots, NEW mask \in Nat,
           NEW length \in Nat \ {0}
    PROVE  LET out == Outcome(l, reg, kind, rb, length, mask)
               cand == Candidates(l, reg, kind, rb, mask)
               most == IF cand.sizeA > cand.sizeB THEN cand.sizeA ELSE cand.sizeB
           IN  /\ most \in Nat
               /\ \/ /\ length <= most
                     /\ out.status = "SilPass"
                     /\ out.length = length
                     /\ out.window \in Windows
                     /\ out.base # 0
                     /\ out.base = FabricGetBaseAddress(reg[out.window], length, mask)
                  \/ /\ most < length
                     /\ out = [status |-> "SilOutOfResources", base |-> 0,
                               length |-> most, window |-> NoSlot]
  <1> DEFINE cand == Candidates(l, reg, kind, rb, mask)
             out == Outcome(l, reg, kind, rb, length, mask)
             most == IF cand.sizeA > cand.sizeB THEN cand.sizeA ELSE cand.sizeB
             w == IF cand.sizeA >= length THEN cand.a
                  ELSE IF cand.sizeB >= length THEN cand.b ELSE NoSlot
             base == IF w = NoSlot THEN 0 ELSE FabricGetBaseAddress(reg[w], length, mask)
  <1>1. /\ cand.a \in Windows
        /\ cand.sizeA = FabricGetRemainingSizeForThisRegion(reg[cand.a], mask)
        /\ \/ cand.b = NoSlot /\ cand.sizeB = 0
           \/ /\ cand.b \in Windows
              /\ cand.sizeB = FabricGetRemainingSizeForThisRegion(reg[cand.b], mask)
    BY CandidatesProperty
  <1>2. ASSUME NEW v \in Windows
        PROVE  /\ FabricGetRemainingSizeForThisRegion(reg[v], mask) \in Nat
               /\ FabricGetRemainingSizeForThisRegion(reg[v], mask) >= length =>
                    FabricGetBaseAddress(reg[v], length, mask) # 0
    BY RoomIsGranted
  <1>3. cand.sizeA \in Nat /\ cand.sizeB \in Nat
    BY <1>1, <1>2
  <1>4. out = IF base = 0
              THEN [status |-> "SilOutOfResources", base |-> 0, length |-> most,
                    window |-> NoSlot]
              ELSE [status |-> "SilPass", base |-> base, length |-> length, window |-> w]
    BY DEF Outcome
  <1>5. most \in Nat /\ (length <= most <=> cand.sizeA >= length \/ cand.sizeB >= length)
    BY <1>3
  <1> SUFFICES \/ /\ length <= most
                  /\ out.status = "SilPass"
                  /\ out.length = length
                  /\ out.window \in Windows
                  /\ out.base # 0
                  /\ out.base = FabricGetBaseAddress(reg[out.window], length, mask)
               \/ /\ most < length
                  /\ out = [status |-> "SilOutOfResources", base |-> 0,
                            length |-> most, window |-> NoSlot]
    BY <1>5
  <1>6. ASSUME NEW v \in Windows, w = v, length <= most,
               FabricGetRemainingSizeForThisRegion(reg[v], mask) >= length
        PROVE  /\ out.status = "SilPass"
               /\ out.length = length
               /\ out.window \in Windows
               /\ out.base # 0
               /\ out.base = FabricGetBaseAddress(reg[out.window], length, mask)
    <2>1. base # 0 /\ base = FabricGetBaseAddress(reg[v], length, mask)
      BY <1>2, <1>6
    <2>2. out = [status |-> "SilPass", base |-> base, length |-> length, window |-> w]
      BY <1>4, <2>1
    <2> HIDE DEF out, cand, base, w
    <2>3. QED
      BY <1>6, <2>1, <2>2
  <1>7. CASE cand.sizeA >= length
    <2>1. w = cand.a
      BY <1>7
    <2> HIDE DEF out, cand, most, w
    <2>2. QED
      BY <1>1, <1>5, <1>6, <1>7, <2>1
  <1>8. CASE cand.sizeA < length /\ cand.sizeB >= length
    <2>1. w = cand.b
      BY <1>3, <1>8
    <2>2. /\ cand.b \in Windows
          /\ cand.sizeB = FabricGetRemainingSizeForThisRegion(reg[cand.b], mask)
      BY <1>1, <1>8
    <2> HIDE DEF out, cand, most, w
    <2>3. QED
      BY <1>5, <1>6, <1>8, <2>1, <2>2
  <1>9. CASE cand.sizeA < length /\ cand.sizeB < length
    <2>1. base = 0 /\ most < length
      BY <1>3, <1>9
    <2> HIDE DEF cand, base, w
    <2>2. QED
      BY <1>4, <2>1
  <1> HIDE DEF out, cand, most
  <1>10. QED
    BY <1>3, <1>7, <1>8, <1>9

-----------------------------------------------------------------------------
(* The start-up's layout stays: bases and sizes never change, and every    *)
(* reservation lies in the used part of its window.                        *)
WindowsKept ==
    \A w \in Windows : /\ region[w].Base = layout.region[w].Base
                       /\ region[w].Size = layout.region[w].Size
GivenUsed ==
    \A g \in given :
        /\ g.length # 0
        /\ g.base >= region[g.window].Base
        /\ g.base + g.length <= region[g.window].Base + region[g.window].Used
GivenAligned == \A g \in given : g.base # 0 /\ g.base % (g.mask + 1) = 0
Inv == TypeOK /\ WindowsKept /\ GivenUsed /\ GivenAligned /\ ReservationsDisjoint

LEMMA NoSlotIsNoWindow == NoSlot \notin Windows
  BY DEF NoSlot, Windows

LEMMA InvSound ==
    ASSUME TypeOK, WindowsKept
    PROVE  /\ region \in [Windows -> Region]
           /\ \A w \in Windows : Sound(region[w])
           /\ layout.second \in Slots \cup {NoSlot}
           /\ layout \in Layouts
           /\ DisjointWindows(layout.region)
  <1>1. layout \in Layouts /\ LayoutOK(layout)
    BY LayoutAssumption DEF TypeOK
  <1>2. region \in [Windows -> Region]
    BY DEF TypeOK, Region
  <1>3. ASSUME NEW w \in Windows PROVE Sound(region[w])
    BY <1>1, <1>2, <1>3 DEF TypeOK, WindowsKept, Sound, LayoutOK
  <1>4. QED
    BY <1>1, <1>2, <1>3 DEF LayoutOK

LEMMA InitInv == Init => Inv
  <1> SUFFICES ASSUME Init PROVE Inv
    OBVIOUS
  <1>1. layout \in Layouts /\ LayoutOK(layout)
    BY LayoutAssumption DEF Init
  <1>2. region = layout.region /\ region \in [Windows -> [Base : Nat, Size : Nat, Used : {0}]]
    BY <1>1 DEF Init, LayoutOK
  <1>3. ASSUME NEW w \in Windows
        PROVE  region[w] \in [Base : Nat, Size : Nat, Used : Nat] /\ region[w].Used <= region[w].Size
    BY <1>2
  <1>4. region \in [Windows -> [Base : Nat, Size : Nat, Used : Nat]]
    BY <1>2, <1>3
  <1>5. TypeOK
    BY <1>1, <1>3, <1>4 DEF Init, TypeOK, NoAnswer
  <1>6. QED
    BY <1>2, <1>5 DEF Init, Inv, WindowsKept, GivenUsed, GivenAligned, ReservationsDisjoint

(* One call of FabricReserveMmio, for a root bridge, none (a bus that no   *)
(* root bridge decodes) or a slot without one.                             *)
LEMMA ReserveInv ==
    ASSUME Inv, NEW kind, NEW rb \in Slots \cup {NoSlot}, NEW length \in Nat,
           NEW mask \in Nat, Reserve(kind, rb, length, mask)
    PROVE  /\ Inv' /\ BiggestSizeIsGranted'
           /\ answer'.status = "SilPass" /\ length # 0 =>
                \A g \in given : Extent(g.base, g.length) \cap Extent(answer'.base, length) = {}
  <1> DEFINE out == Outcome(layout, region, kind, rb, length, mask)
             new == [window |-> out.window, base |-> out.base, length |-> length,
                     mask |-> mask]
  <1>1. UNCHANGED layout
    BY DEF Reserve
  <1>2. TypeOK /\ WindowsKept /\ GivenUsed /\ GivenAligned /\ ReservationsDisjoint
    BY DEF Inv
  <1>3. /\ region \in [Windows -> Region]
        /\ \A w \in Windows : Sound(region[w])
        /\ layout.second \in Slots \cup {NoSlot}
        /\ layout \in Layouts
        /\ DisjointWindows(layout.region)
    BY <1>2, InvSound
  <1>4. ASSUME UNCHANGED <<region, given>>,
               answer' \in [status : {"SilPass", "SilAborted", "SilOutOfResources"},
                            base : Nat, length : Nat, window : Windows \cup {NoSlot}]
        PROVE  Inv'
    BY <1>1, <1>2, <1>4, Zenon DEF Inv, TypeOK, WindowsKept, GivenUsed, GivenAligned,
                            ReservationsDisjoint
  <1>5. CASE ~Served(kind, rb, length)
    <2>1. /\ answer' = EarlyAnswer(length)
          /\ UNCHANGED <<region, given>>
      BY <1>5 DEF Reserve
    <2>2. /\ answer' \in [status : {"SilPass", "SilAborted", "SilOutOfResources"},
                          base : Nat, length : Nat, window : Windows \cup {NoSlot}]
          /\ answer'.status # "SilOutOfResources"
          /\ answer'.status = "SilPass" => length = 0
      BY <2>1 DEF EarlyAnswer, NoAnswer
    <2>3. QED
      BY <1>4, <2>1, <2>2 DEF BiggestSizeIsGranted
  <1>6. ASSUME Served(kind, rb, length)
        PROVE  kind \in Kinds /\ rb \in Slots /\ length \in Nat \ {0}
    BY <1>6 DEF Served
  <1>7. CASE Served(kind, rb, length) /\ out.status # "SilPass"
    <2> DEFINE cand == Candidates(layout, region, kind, rb, mask)
               most == IF cand.sizeA > cand.sizeB THEN cand.sizeA ELSE cand.sizeB
    <2>1. kind \in Kinds /\ rb \in Slots /\ length \in Nat \ {0}
      BY <1>6, <1>7
    <2>2. /\ answer' = out
          /\ request' = [kind |-> kind, rb |-> rb, length |-> length, mask |-> mask]
          /\ UNCHANGED <<region, given>>
      BY <1>7, SMTT(30) DEF Reserve
    <2>3. /\ most \in Nat
          /\ most < length
          /\ out = [status |-> "SilOutOfResources", base |-> 0,
                    length |-> most, window |-> NoSlot]
      BY <1>3, <1>7, <2>1, OutcomeProperty, NoSlotIsNoWindow
    <2>4. Inv'
      <3>1. answer' \in [status : {"SilPass", "SilAborted", "SilOutOfResources"},
                         base : Nat, length : Nat, window : Windows \cup {NoSlot}]
        BY <2>2, <2>3, SMTT(30)
      <3>2. QED
        BY <1>4, <2>2, <3>1
    <2>5. ASSUME most # 0
          PROVE  Outcome(layout, region, kind, rb, most, mask).status = "SilPass"
      <3>1. most \in Nat \ {0}
        BY <2>3, <2>5
      <3>2. QED
        BY <1>3, <2>1, <3>1, OutcomeProperty, NoSlotIsNoWindow
    <2>6. /\ answer'.length = most /\ request'.kind = kind /\ request'.rb = rb
          /\ request'.length = length /\ request'.mask = mask /\ region' = region
      BY <2>2, <2>3
    <2>7. (Outcome(layout, region, request.kind, request.rb, answer.length, request.mask))'
            = Outcome(layout, region, kind, rb, most, mask)
      BY <1>1, <2>6
    <2>8. BiggestSizeIsGranted'
      BY <2>3, <2>5, <2>6, <2>7, SMTT(30) DEF BiggestSizeIsGranted
    <2>9. QED
      BY <1>7, <2>2, <2>4, <2>8
  <1>8. CASE Served(kind, rb, length) /\ out.status = "SilPass"
    <2> DEFINE w == out.window
               r == region[w]
               pad == Pad(r.Base + r.Used, mask)
    <2>1. kind \in Kinds /\ rb \in Slots /\ length \in Nat \ {0}
      BY <1>6, <1>8
    <2>2. /\ answer' = out
          /\ region' = [region EXCEPT ![w] = Take(region[w], length, mask)]
          /\ given' = given \cup {new}
      BY <1>8 DEF Reserve
    <2>3. /\ w \in Windows
          /\ out.length = length
          /\ out.base # 0
          /\ out.base = FabricGetBaseAddress(r, length, mask)
      BY <1>3, <1>8, <2>1, OutcomeProperty, NoSlotIsNoWindow
    <2>4. r \in Region /\ Sound(r)
      BY <1>3, <2>3
    <2>5. r.Base \in Nat /\ r.Size \in Nat /\ r.Used \in Nat /\ r.Base + r.Used \in Nat
      BY <2>4 DEF Region
    <2>6. /\ pad \in Nat
          /\ (r.Base + r.Used + pad) % (mask + 1) = 0
      BY <2>5, PadProperty, Zenon
    <2>7. /\ out.base = r.Base + r.Used + pad
          /\ r.Size - r.Used >= length + pad
      BY <2>1, <2>3, <2>4, RoomIsGranted
    <2>8. region'[w] = [r EXCEPT !.Used = r.Used + length + pad]
      BY <1>3, <2>2, <2>3 DEF Take, NextFree
    <2>9. /\ region'[w] \in Region
          /\ region'[w].Base = r.Base /\ region'[w].Size = r.Size
          /\ region'[w].Used = r.Used + length + pad
      BY <2>1, <2>4, <2>5, <2>6, <2>8 DEF Region
    <2>10. \A v \in Windows : v # w => region'[v] = region[v]
      BY <1>3, <2>2
    <2>11. region' \in [Windows -> Region]
      BY <1>3, <2>2, <2>3, <2>9
    <2> HIDE DEF w, r, pad, out
    <2>12. new \in [window : Windows, base : Nat, length : Nat, mask : Nat]
      BY <2>1, <2>3, <2>5, <2>6, <2>7 DEF w
    <2>13. TypeOK'
      <3>1. \A v \in Windows : region'[v].Used <= region'[v].Size
        BY <1>2, <2>1, <2>5, <2>6, <2>7, <2>9, <2>10 DEF TypeOK
      <3>2. answer' \in [status : {"SilPass", "SilAborted", "SilOutOfResources"},
                         base : Nat, length : Nat, window : Windows \cup {NoSlot}]
        <4>1. answer' = [status |-> "SilPass", base |-> out.base,
                         length |-> out.length, window |-> out.window]
          BY <1>8, <2>2, Zenon DEF Outcome, out
        <4>2. out.base \in Nat /\ out.length \in Nat /\ out.window \in Windows
          BY <2>1, <2>3, <2>5, <2>6, <2>7 DEF w
        <4>3. QED
          BY <4>1, <4>2
      <3>3. given' \subseteq [window : Windows, base : Nat, length : Nat, mask : Nat]
        BY <1>2, <2>2, <2>12 DEF TypeOK
      <3>4. QED
        BY <1>1, <1>3, <2>11, <3>1, <3>2, <3>3 DEF TypeOK, Region
    <2>14. WindowsKept'
      BY <1>1, <1>2, <2>9, <2>10 DEF WindowsKept, r
    <2>15. \A g \in given : g \in [window : Windows, base : Nat, length : Nat, mask : Nat]
      BY <1>2 DEF TypeOK
    <2>16. /\ new.window = w /\ new.base = r.Base + r.Used + pad
           /\ new.length = length /\ new.mask = mask
      BY <2>7 DEF w
    <2>17. GivenUsed'
      <3>1. ASSUME NEW g \in given
            PROVE  /\ g.length # 0
                   /\ g.base >= region'[g.window].Base
                   /\ g.base + g.length <= region'[g.window].Base + region'[g.window].Used
        <4>1. /\ g.length # 0
              /\ g.base >= region[g.window].Base
              /\ g.base + g.length <= region[g.window].Base + region[g.window].Used
          BY <1>2 DEF GivenUsed
        <4>2. g.window \in Windows /\ g.base \in Nat /\ g.length \in Nat
          BY <2>15
        <4>3. CASE g.window = w
          BY <4>1, <4>2, <4>3, <2>1, <2>5, <2>6, <2>9 DEF r
        <4>4. CASE g.window # w
          BY <4>1, <4>2, <4>4, <2>10
        <4>5. QED
          BY <4>3, <4>4
      <3>2. /\ new.length # 0
            /\ new.base >= region'[new.window].Base
            /\ new.base + new.length <= region'[new.window].Base + region'[new.window].Used
        BY <2>1, <2>5, <2>6, <2>9, <2>16
      <3>3. QED
        BY <2>2, <3>1, <3>2 DEF GivenUsed
    <2>18. GivenAligned'
      BY <1>2, <2>2, <2>3, <2>6, <2>7, <2>16, SMTT(30) DEF GivenAligned
    <2>19. ASSUME NEW g \in given
           PROVE  Extent(g.base, g.length) \cap Extent(new.base, new.length) = {}
      <3>1. /\ g.base >= region[g.window].Base
            /\ g.base + g.length <= region[g.window].Base + region[g.window].Used
        BY <1>2 DEF GivenUsed
      <3>2. g.window \in Windows /\ g.base \in Nat /\ g.length \in Nat
        BY <2>15
      <3>3. CASE g.window = w
        BY <3>1, <3>2, <3>3, <2>1, <2>5, <2>6, <2>16 DEF Extent, r
      <3>4. CASE g.window # w
        <4> DEFINE old == region[g.window]
        <4>1. /\ old.Base \in Nat /\ old.Size \in Nat /\ old.Used \in Nat
              /\ old.Used <= old.Size
          BY <1>3, <3>2 DEF Sound, Region
        <4>2. Extent(old.Base, old.Size) \cap Extent(r.Base, r.Size) = {}
          BY <1>2, <1>3, <2>3, <3>2, <3>4, Zenon DEF DisjointWindows, WindowsKept, r
        <4>3. \A x \in Extent(g.base, g.length) : x \in Extent(old.Base, old.Size)
          BY <3>1, <3>2, <4>1 DEF Extent
        <4>4. \A x \in Extent(new.base, new.length) : x \in Extent(r.Base, r.Size)
          BY <2>1, <2>5, <2>6, <2>7, <2>16 DEF Extent
        <4>5. QED
          BY <4>2, <4>3, <4>4
      <3>5. QED
        BY <3>3, <3>4
    <2>20. ReservationsDisjoint'
      BY <1>2, <2>2, <2>19 DEF ReservationsDisjoint
    <2>21. BiggestSizeIsGranted'
      BY <1>8, <2>2 DEF BiggestSizeIsGranted, out
    <2>22. \A g \in given : Extent(g.base, g.length) \cap Extent(answer'.base, length) = {}
      BY <2>2, <2>19
    <2>23. QED
      BY <2>13, <2>14, <2>17, <2>18, <2>20, <2>21, <2>22 DEF Inv
  <1>9. QED
    BY <1>5, <1>7, <1>8

LEMMA NextInv == Inv /\ [Next]_vars => Inv'
  <1> SUFFICES ASSUME Inv, [Next]_vars PROVE Inv'
    OBVIOUS
  <1>1. layout \in Layouts /\ LayoutOK(layout)
    BY LayoutAssumption DEF Inv, TypeOK
  <1>2. CASE ReserveForRb
    BY <1>2, ReserveInv, RequestAssumption DEF ReserveForRb
  <1>3. CASE ReserveForBus
    <2>1. PICK kind \in Kinds, bus \in Buses, length \in Lengths, mask \in Masks :
            Reserve(kind, layout.busRb[bus], length, mask)
      BY <1>3 DEF ReserveForBus
    <2>2. layout.busRb[bus] \in Slots \cup {NoSlot}
      BY <1>1 DEF LayoutOK
    <2>3. QED
      BY <2>1, <2>2, ReserveInv, RequestAssumption
  <1>4. CASE UNCHANGED vars
    BY <1>4, Zenon DEF vars, Inv, TypeOK, WindowsKept, GivenUsed, GivenAligned,
                ReservationsDisjoint
  <1>5. QED
    BY <1>2, <1>3, <1>4 DEF Next, FabricReserveMmio

LEMMA SpecInv == Spec => []Inv
  <1>1. Init => Inv
    BY InitInv
  <1>2. Inv /\ [Next]_vars => Inv'
    BY NextInv
  <1>3. QED
    BY <1>1, <1>2, PTL DEF Spec

(* Whatever the layout and the requests, no two grants of                  *)
(* FabricReserveMmio share an address.                                     *)
THEOREM PoolDisjoint == Spec => []ReservationsDisjoint
  <1>1. Inv => ReservationsDisjoint
    BY DEF Inv
  <1>2. QED
    BY SpecInv, <1>1, PTL

LEMMA InvFits == ASSUME Inv PROVE ReservationsFit
  <1> SUFFICES ASSUME NEW g \in given
               PROVE  /\ g.base # 0
                      /\ g.base % (g.mask + 1) = 0
                      /\ g.base >= layout.region[g.window].Base
                      /\ g.base + g.length <= layout.region[g.window].Base
                                               + layout.region[g.window].Size
    BY DEF ReservationsFit
  <1>1. g.window \in Windows /\ g.base \in Nat /\ g.length \in Nat
    BY DEF Inv, TypeOK
  <1>2. /\ region[g.window] \in Region
        /\ region[g.window].Used <= region[g.window].Size
    BY <1>1 DEF Inv, TypeOK, Region
  <1>3. /\ region[g.window].Base = layout.region[g.window].Base
        /\ region[g.window].Size = layout.region[g.window].Size
    BY <1>1 DEF Inv, WindowsKept
  <1>4. /\ g.base >= region[g.window].Base
        /\ g.base + g.length <= region[g.window].Base + region[g.window].Used
    BY DEF Inv, GivenUsed
  <1>5. g.base # 0 /\ g.base % (g.mask + 1) = 0
    BY DEF Inv, GivenAligned
  <1>6. QED
    BY <1>1, <1>2, <1>3, <1>4, <1>5 DEF Region

(* Every grant of FabricReserveMmio is aligned as asked, is not at address *)
(* 0 and lies in one of the start-up's windows.                            *)
THEOREM PoolFits == Spec => []ReservationsFit
  <1>1. Inv => ReservationsFit
    BY InvFits
  <1>2. QED
    BY SpecInv, <1>1, PTL

(* No two grants of FabricReserveMmio share an address, and each is        *)
(* aligned and inside a window, for every layout and request sequence.     *)
THEOREM PoolSound == Spec => []ReservationsSound
  <1>1. ReservationsDisjoint /\ ReservationsFit => ReservationsSound
    BY DEF ReservationsSound
  <1>2. QED
    BY <1>1, PoolDisjoint, PoolFits, PTL

LEMMA NextBiggest == Inv /\ BiggestSizeIsGranted /\ [Next]_vars => BiggestSizeIsGranted'
  <1> SUFFICES ASSUME Inv, BiggestSizeIsGranted, [Next]_vars PROVE BiggestSizeIsGranted'
    OBVIOUS
  <1>1. layout \in Layouts /\ LayoutOK(layout)
    BY LayoutAssumption DEF Inv, TypeOK
  <1>2. CASE ReserveForRb
    BY <1>2, ReserveInv, RequestAssumption DEF ReserveForRb
  <1>3. CASE ReserveForBus
    <2>1. PICK kind \in Kinds, bus \in Buses, length \in Lengths, mask \in Masks :
            Reserve(kind, layout.busRb[bus], length, mask)
      BY <1>3 DEF ReserveForBus
    <2>2. layout.busRb[bus] \in Slots \cup {NoSlot}
      BY <1>1 DEF LayoutOK
    <2>3. QED
      BY <2>1, <2>2, ReserveInv, RequestAssumption
  <1>4. CASE UNCHANGED vars
    BY <1>4 DEF vars, BiggestSizeIsGranted
  <1>5. QED
    BY <1>2, <1>3, <1>4 DEF Next, FabricReserveMmio

(* The size that FabricReserveMmio names when it fails is smaller than     *)
(* what was asked for, and a retry with that size succeeds.                *)
THEOREM PoolRetry == Spec => []BiggestSizeIsGranted
  <1>1. Init => BiggestSizeIsGranted
    BY DEF Init, NoAnswer, BiggestSizeIsGranted
  <1>2. Inv /\ BiggestSizeIsGranted /\ [Next]_vars => BiggestSizeIsGranted'
    BY NextBiggest
  <1>3. QED
    BY <1>1, <1>2, SpecInv, PTL DEF Spec
=============================================================================
