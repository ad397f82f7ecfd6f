------------------------------ MODULE CxlProofs ------------------------------
(* What the start of CXL ports does with the MMIO, for every machine: root *)
(* bridges, engines, devices and windows, and whatever other drivers       *)
(* reserve before and after.                                               *)
EXTENDS Cxl, RcMgrPoolProofs

(* The root bridges whose windows serve a request for one. *)
Routed(l, rb) == {rb} \cup (IF rb = l.primary THEN {l.second} ELSE {})

(* A request is served from a window of its root bridge. *)
LEMMA WindowRouted ==
    ASSUME NEW l, NEW reg, NEW kind \in Kinds, NEW rb, NEW length, NEW mask,
           Outcome(l, reg, kind, rb, length, mask).status = "SilPass"
    PROVE  /\ Outcome(l, reg, kind, rb, length, mask).window
                \in {<<kind, rb>>} \cup (IF rb = l.primary THEN {<<Below, l.second>>} ELSE {})
           /\ Outcome(l, reg, kind, rb, length, mask).base # 0
  <1> DEFINE cand == Candidates(l, reg, kind, rb, mask)
             w == IF cand.sizeA >= length THEN cand.a
                  ELSE IF cand.sizeB >= length THEN cand.b ELSE NoSlot
             base == IF w = NoSlot THEN 0 ELSE FabricGetBaseAddress(reg[w], length, mask)
             most == IF cand.sizeA > cand.sizeB THEN cand.sizeA ELSE cand.sizeB
             out == Outcome(l, reg, kind, rb, length, mask)
  <1>1. out = IF base = 0
              THEN [status |-> "SilOutOfResources", base |-> 0, length |-> most,
                    window |-> NoSlot]
              ELSE [status |-> "SilPass", base |-> base, length |-> length, window |-> w]
    BY DEF Outcome
  <1>2. \/ cand.a = <<kind, rb>> /\ cand.b = NoSlot
        \/ rb = l.primary /\ cand.a = <<kind, rb>> /\ cand.b = <<Below, l.second>>
        \/ rb = l.primary /\ cand.b = <<kind, rb>> /\ cand.a = <<Below, l.second>>
    BY DEF Candidates
  <1> HIDE DEF cand, base, most, out
  <1>3. base # 0 /\ out.window = w /\ out.base = base
    BY <1>1 DEF out
  <1>4. w # NoSlot
    BY <1>3 DEF base
  <1>5. w \in {cand.a, cand.b} \ {NoSlot}
    BY <1>4 DEF w
  <1>6. QED
    BY <1>2, <1>3, <1>5, SMTT(30) DEF out

(* A new grant, on top of those there are. *)
Granted(w, base, length, mask) ==
    /\ w \in Windows
    /\ base \in Nat \ {0}
    /\ \A g \in given : g.base # base
    /\ given' = given \cup {[window |-> w, base |-> base, length |-> length, mask |-> mask]}

(* FabricReserveMmio: a call that fails leaves everything as it was, one   *)
(* that succeeds grants what is new, and routed to the root bridge.        *)
LEMMA ReserveGrants ==
    ASSUME Inv, NEW rb \in Slots \cup {NoSlot}, NEW kind \in Kinds, NEW size \in Nat,
           NEW mask \in Nat, Reserve(kind, rb, size, mask)
    PROVE  /\ Inv' /\ layout' = layout
           /\ \/ given' = given /\ (size # 0 => answer'.status # "SilPass")
              \/ /\ answer'.status = "SilPass"
                 /\ \E w \in Windows : /\ w[2] \in Routed(layout, rb)
                                       /\ Granted(w, answer'.base, size, mask)
  <1> DEFINE out == Outcome(layout, region, kind, rb, size, mask)
  <1>1. /\ Inv'
        /\ answer'.status = "SilPass" /\ size # 0 =>
             \A g \in given : Extent(g.base, g.length) \cap Extent(answer'.base, size) = {}
    BY ReserveInv, Zenon
  <1>2. layout' = layout
    BY DEF Reserve
  <1>3. answer'.base \in Nat
    BY <1>1 DEF Inv, TypeOK
  <1>4. CASE ~Served(kind, rb, size)
    <2>1. answer' = EarlyAnswer(size) /\ given' = given
      BY <1>4 DEF Reserve
    <2>2. size # 0 => answer'.status = "SilAborted"
      BY <2>1 DEF EarlyAnswer, NoAnswer
    <2>3. QED
      BY <1>1, <1>2, <2>1, <2>2
  <1>5. CASE Served(kind, rb, size) /\ out.status # "SilPass"
    BY <1>1, <1>2, <1>5 DEF Reserve
  <1>6. CASE Served(kind, rb, size) /\ out.status = "SilPass"
    <2>1. size # 0
      BY <1>6 DEF Served
    <2>2. /\ answer' = out
          /\ given' = given \cup {[window |-> out.window, base |-> out.base,
                                   length |-> size, mask |-> mask]}
      BY <1>6 DEF Reserve
    <2>3. /\ out.window \in {<<kind, rb>>} \cup
                              (IF rb = layout.primary THEN {<<Below, layout.second>>} ELSE {})
          /\ out.base # 0
      BY <1>6, WindowRouted
    <2>4. \A g \in given' : g.window \in Windows
      BY <1>1 DEF Inv, TypeOK
    <2>5. out.window \in Windows
      <3> DEFINE new == [window |-> out.window, base |-> out.base, length |-> size,
                         mask |-> mask]
      <3>1. new \in given' /\ new.window = out.window
        BY <2>2
      <3>2. QED
        BY <2>4, <3>1
    <2>6. out.window[2] \in Routed(layout, rb)
      <3> HIDE DEF out
      <3>1. QED
        BY <2>3 DEF Routed
    <2>7. answer'.status = "SilPass"
      BY <1>6, <2>2 DEF out
    <2>8. ASSUME NEW g \in given PROVE g.base # answer'.base
      <3>1. g.base \in Nat /\ g.length \in Nat /\ g.length # 0
        BY DEF Inv, TypeOK, GivenUsed
      <3>2. g.base \in Extent(g.base, g.length)
        BY <3>1 DEF Extent
      <3>3. answer'.base \in Extent(answer'.base, size)
        BY <1>3, <2>1 DEF Extent
      <3>4. QED
        BY <1>1, <2>1, <2>7, <3>2, <3>3
    <2> HIDE DEF out
    <2>9. answer'.base \in Nat \ {0}
      BY <1>3, <2>2, <2>3
    <2>10. given' = given \cup {[window |-> out.window, base |-> answer'.base,
                                length |-> size, mask |-> mask]}
      BY <2>2
    <2>11. Granted(out.window, answer'.base, size, mask)
      BY <2>5, <2>8, <2>9, <2>10, SMTT(30) DEF Granted
    <2>12. QED
      BY <1>1, <1>2, <2>5, <2>6, <2>7, <2>11
  <1>7. QED
    BY <1>4, <1>5, <1>6

-----------------------------------------------------------------------------
(* The machine's facts the proofs use. *)
LEMMA MachineFacts ==
    ASSUME Inv, machine \in Machines, machine.layout = layout
    PROVE  /\ LayoutOK(layout)
           /\ layout.rbs \subseteq Slots
           /\ Engines \subseteq Nat
           /\ \A e \in Engines : Owner(e) \in layout.rbs
           /\ \A rb \in layout.rbs : layout.busRb[machine.base[rb]] = rb
  BY LayoutAssumption, MachineAssumption, SMTT(30)
     DEF Inv, TypeOK, MachineOK, LayoutOK, Engines, Owner

(* The composition with the pool: no step of CXL or of another driver      *)
(* reserves but through FabricReserveMmio.                                 *)
MachineInv == machine \in Machines /\ machine.layout = layout
AtInv ==
    /\ at \in Nat
    /\ phase \in {"Before", "FindPorts", "Assign", "AssignBar0", "Asserted", "Done"}
    /\ phase = "AssignBar0" => at \in Engines

(* The callback of CxlAssignResources goes on with an engine that is there. *)
LEMMA NextAt == AtInv /\ [CxlNext]_allVars => AtInv'
  <1> SUFFICES ASSUME AtInv, [CxlNext]_allVars PROVE AtInv'
    OBVIOUS
  <1>1. machine' = machine
    BY Zenon DEF CxlNext, OtherDriver, CxlPortInit, CxlFindPorts, BusLimits, AssignSkipped,
           CxlAssignResources, AssignBar0, CxlDevListGenerate, cxlVars, allVars
  <1>2. CASE OtherDriver \/ UNCHANGED allVars
    BY <1>2 DEF AtInv, OtherDriver, cxlVars, allVars, Engines
  <1>3. CASE CxlPortInit
    BY <1>3 DEF AtInv, CxlPortInit
  <1>4. CASE CxlFindPorts
    <2>1. at' = at + 1 /\ phase' = phase /\ phase = "FindPorts"
      BY <1>4, Zenon DEF CxlFindPorts
    <2>2. QED
      BY <2>1 DEF AtInv
  <1>5. CASE BusLimits
    BY <1>5 DEF AtInv, BusLimits
  <1>6. CASE AssignSkipped
    BY <1>6 DEF AtInv, AssignSkipped, NextEngine
  <1>7. CASE CxlAssignResources
    <2>1. at \in Engines
      BY <1>7 DEF CxlAssignResources
    <2>2. \/ NextEngine
          \/ phase' \in {"Asserted", "AssignBar0"} /\ at' = at
      BY <1>7 DEF CxlAssignResources
    <2>3. QED
      BY <1>1, <2>1, <2>2 DEF AtInv, NextEngine, Engines
  <1>8. CASE AssignBar0
    BY <1>8 DEF AtInv, AssignBar0, NextEngine
  <1>9. CASE CxlDevListGenerate
    BY <1>9 DEF AtInv, CxlDevListGenerate
  <1>10. QED
    BY <1>2, <1>3, <1>4, <1>5, <1>6, <1>7, <1>8, <1>9 DEF CxlNext

(* The first states. *)
LEMMA InitPool == CxlInit => Inv /\ MachineInv /\ AtInv
  BY InitInv DEF CxlInit, MachineInv, AtInv

(* Every step of CxlNext keeps the windows and what is granted consistent. *)
LEMMA NextPool == Inv /\ MachineInv /\ AtInv /\ [CxlNext]_allVars => Inv' /\ MachineInv'
  <1> SUFFICES ASSUME Inv, MachineInv, AtInv, [CxlNext]_allVars PROVE Inv' /\ MachineInv'
    OBVIOUS
  <1>1. machine \in Machines /\ machine.layout = layout
    BY DEF MachineInv
  <1>2. CASE OtherDriver
    <2>1. [Next]_vars /\ machine' = machine
      BY <1>2 DEF OtherDriver, Next, FabricReserveMmio, cxlVars
    <2>2. layout' = layout
      BY <1>2 DEF OtherDriver, ReserveForBus, Reserve
    <2>3. QED
      BY <1>1, <2>1, <2>2, NextInv DEF MachineInv
  <1>3. ASSUME NEW e \in Engines, NEW kind \in Kinds, NEW size \in Nat,
               CxlMmioAlloc(Owner(e), size, kind), machine' = machine
        PROVE  Inv' /\ MachineInv'
    <2>1. layout.busRb[machine.base[Owner(e)]] \in Slots
      BY <1>1, MachineFacts
    <2>2. ALIGN_1M \in Nat
      BY DEF ALIGN_1M
    <2>3. Reserve(kind, layout.busRb[machine.base[Owner(e)]], size, ALIGN_1M)
      BY <1>3 DEF CxlMmioAlloc
    <2>4. QED
      BY <1>1, <1>3, <2>1, <2>2, <2>3, ReserveGrants DEF MachineInv
  <1>4. CASE CxlAssignResources
    <2>1. at \in Engines /\ CxlMmioAlloc(Owner(at), RcrbSize, Below) /\ machine' = machine
      BY <1>4 DEF CxlAssignResources, Owner
    <2>2. RcrbSize \in Nat /\ Below \in Kinds
      BY DEF RcrbSize, Below, Kinds
    <2>3. QED
      BY <1>3, <2>1, <2>2, SMTT(30)
  <1>5. CASE AssignBar0
    <2>1. CxlMmioAlloc(Owner(at), MEM_BAR0_SIZE, Above) /\ machine' = machine
      BY <1>5 DEF AssignBar0, Owner
    <2>2. MEM_BAR0_SIZE \in Nat /\ Above \in Kinds
      BY DEF MEM_BAR0_SIZE, Above, Kinds
    <2>3. at \in Engines
      BY <1>5 DEF AssignBar0, AtInv
    <2>4. QED
      BY <1>3, <2>1, <2>2, <2>3
  <1>6. CASE UNCHANGED <<layout, poolVars, machine>>
    <2>1. UNCHANGED vars
      BY <1>6 DEF vars, poolVars
    <2>2. QED
      BY <1>6, <2>1, NextInv DEF MachineInv
  <1>7. QED
    BY <1>2, <1>4, <1>5, <1>6, Zenon
       DEF CxlNext, allVars, cxlVars, CxlPortInit, CxlFindPorts, BusLimits, AssignSkipped,
           CxlDevListGenerate

-----------------------------------------------------------------------------
(* The fields of an engine the ownership of MMIO rests on. *)
Keys == {"type", "DsRcrb", "UsRcrb", "bar0", "bus"}
Shaped(r) == Keys \subseteq DOMAIN r
SameMmio(r, s) ==
    s.DsRcrb = r.DsRcrb /\ s.UsRcrb = r.UsRcrb /\ s.bar0 = r.bar0 /\ s.bus = r.bus

(* What the steps on an engine descriptor leave alone. *)
LEMMA PortOptionsKeeps ==
    ASSUME NEW r, Shaped(r), NEW in
    PROVE  Shaped(PortOptions(r, in)) /\ SameMmio(r, PortOptions(r, in))
           /\ PortOptions(r, in).type = r.type
  BY DEF Shaped, SameMmio, PortOptions, Keys

LEMMA MakeCxlKeeps ==
    ASSUME NEW r, Shaped(r)
    PROVE  Shaped(MakeCxl(r)) /\ SameMmio(r, MakeCxl(r)) /\ MakeCxl(r).type = "CXL"
  BY DEF Shaped, SameMmio, MakeCxl, Keys

LEMMA WithRcrbSets ==
    ASSUME NEW r, Shaped(r), NEW base, NEW bus
    PROVE  LET s == WithRcrb(r, base, bus)
           IN  /\ Shaped(s) /\ s.type = r.type /\ s.bar0 = r.bar0
               /\ s.DsRcrb = base /\ s.UsRcrb = base + 1 /\ s.bus = bus
  BY DEF Shaped, WithRcrb, Keys, SIL_RESERVED_14

LEMMA LocatedKeeps ==
    ASSUME NEW r, Shaped(r), NEW d
    PROVE  LET s == Located(r, d)
           IN  /\ Shaped(s) /\ s.type = r.type /\ s.bar0 = r.bar0
               /\ s.DsRcrb = r.DsRcrb /\ s.UsRcrb \in {0, r.UsRcrb} /\ s.bus = r.bus
  BY DEF Shaped, Located, Keys

LEMMA SizedKeeps ==
    ASSUME NEW r, Shaped(r), NEW d, NEW s
    PROVE  LET t == AllocateForCxlIo(WithType(r, d), s)
           IN  Shaped(t) /\ SameMmio(r, t) /\ t.type = r.type
  BY DEF Shaped, SameMmio, AllocateForCxlIo, WithType, Keys

-----------------------------------------------------------------------------
(* The steps of CxlNext as the proofs see them: one that grants nothing,   *)
(* a grant to another driver, to the RCRB of a port and to its BAR0.       *)
Pending(ph, n, e) ==
    \/ ph \in {"Before", "FindPorts"}
    \/ ph = "Assign" /\ e >= n
    \/ ph = "AssignBar0" /\ e > n
Early == {"Before", "FindPorts"}
Frame == machine' = machine /\ layout' = layout /\ DOMAIN engine' = DOMAIN engine

QuietStep ==
    /\ Frame
    /\ given' = given
    /\ \A e \in Engines : /\ Shaped(engine'[e]) /\ SameMmio(engine[e], engine'[e])
                          /\ engine'[e].type \in {engine[e].type, "CXL"}
                          /\ Pending(phase', at', e) => Pending(phase, at, e)
    /\ phase' # "AssignBar0"
    /\ \/ phase' \in Early /\ busLimits' = busLimits
       \/ BusLimits
       \/ phase \notin Early /\ busLimits' = busLimits

OtherStep ==
    /\ UNCHANGED cxlVars
    /\ layout' = layout
    /\ phase # "AssignBar0"
    /\ \E w \in Windows, base \in Nat, length \in Lengths, mask \in Masks :
         Granted(w, base, length, mask)

RcrbStep ==
    /\ Frame
    /\ phase = "Assign" /\ at \in Engines /\ engine[at].type = "CXL"
    /\ \E w \in Windows :
         w[2] \in RoutedTo(at) /\ Granted(w, answer'.base, RcrbSize, ALIGN_1M)
    /\ \A e \in Engines \ {at} : engine'[e] = engine[e]
    /\ Shaped(engine'[at])
    /\ engine'[at].type = "CXL"
    /\ engine'[at].DsRcrb = answer'.base
    /\ engine'[at].UsRcrb \in {0, answer'.base + 1}
    /\ engine'[at].bar0 = engine[at].bar0
    /\ engine'[at].bus = busLimits[BusIndex(Owner(at))]
    /\ busLimits' = CxlAssignBus(Owner(at))
    /\ \/ phase' = "Assign" /\ at' = at + 1
       \/ phase' \in {"AssignBar0", "Asserted"} /\ at' = at

Bar0Step ==
    /\ Frame
    /\ phase = "AssignBar0" /\ at \in Engines
    /\ \E w \in Windows :
         w[2] \in RoutedTo(at) /\ Granted(w, answer'.base, MEM_BAR0_SIZE, ALIGN_1M)
    /\ \A e \in Engines \ {at} : engine'[e] = engine[e]
    /\ engine'[at] = [engine[at] EXCEPT !.bar0 = answer'.base]
    /\ busLimits' = busLimits
    /\ phase' = "Assign" /\ at' = at + 1

(* An engine that CxlAssignResources has still to reach has no MMIO, and no *)
(* engine has a BAR0 without an RCRB.                                       *)
EngineInv ==
    /\ DOMAIN engine = Engines
    /\ \A e \in Engines :
         /\ Shaped(engine[e])
         /\ engine[e].DsRcrb \in Nat /\ engine[e].bar0 \in Nat
         /\ engine[e].DsRcrb # 0 => engine[e].type = "CXL"
         /\ engine[e].DsRcrb = 0 => engine[e].bar0 = 0
         /\ Pending(phase, at, e) => engine[e].DsRcrb = 0
    /\ phase = "AssignBar0" => engine[at].DsRcrb # 0 /\ engine[at].bar0 = 0

(* CxlMmioAlloc grants a port what is new, from a window of its own root bridge. *)
LEMMA AllocGrants ==
    ASSUME Inv, MachineInv, NEW e \in Engines, NEW kind \in Kinds, NEW size \in Nat \ {0},
           CxlMmioAlloc(Owner(e), size, kind)
    PROVE  /\ layout' = layout
           /\ \/ given' = given /\ answer'.status # "SilPass"
              \/ /\ answer'.status = "SilPass"
                 /\ \E w \in Windows : /\ w[2] \in RoutedTo(e)
                                       /\ Granted(w, answer'.base, size, ALIGN_1M)
  <1>1. machine \in Machines /\ machine.layout = layout
    BY DEF MachineInv
  <1>2. layout.busRb[machine.base[Owner(e)]] = Owner(e) /\ Owner(e) \in Slots
    BY <1>1, MachineFacts
  <1>3. Reserve(kind, Owner(e), size, ALIGN_1M)
    BY <1>2 DEF CxlMmioAlloc
  <1>4. ALIGN_1M \in Nat
    BY DEF ALIGN_1M
  <1>5. Routed(layout, Owner(e)) = RoutedTo(e)
    BY DEF Routed, RoutedTo
  <1>6. QED
    BY <1>2, <1>3, <1>4, <1>5, ReserveGrants

(* Every step of CxlNext is one of the four. *)
LEMMA QuietSame ==
    ASSUME EngineInv, NEW e \in Engines
    PROVE  Shaped(engine[e]) /\ SameMmio(engine[e], engine[e])
  BY DEF EngineInv, SameMmio

LEMMA OtherDriverSteps ==
    ASSUME Inv, EngineInv, OtherDriver
    PROVE  QuietStep \/ OtherStep
  <1>1. PICK kind \in Kinds, bus \in Buses, length \in Lengths, mask \in Masks :
          Reserve(kind, layout.busRb[bus], length, mask)
    BY DEF OtherDriver, ReserveForBus
  <1>2. layout.busRb[bus] \in Slots \cup {NoSlot}
    BY LayoutAssumption DEF Inv, TypeOK, LayoutOK
  <1>3. length \in Nat /\ mask \in Nat
    BY RequestAssumption
  <1>4. /\ layout' = layout
        /\ given' = given \/ \E w \in Windows : Granted(w, answer'.base, length, mask)
    BY <1>1, <1>2, <1>3, ReserveGrants
  <1>5. UNCHANGED cxlVars /\ phase \in {"Before", "Done"}
    BY DEF OtherDriver
  <1>6. CASE given' = given
    <2>1. Frame
      BY <1>4, <1>5, SMTT(30) DEF Frame, cxlVars
    <2>2. QED
      BY <1>5, <1>6, <2>1, QuietSame DEF QuietStep, cxlVars, Early
  <1>7. CASE \E w \in Windows : Granted(w, answer'.base, length, mask)
    BY <1>4, <1>5, <1>7 DEF OtherStep, Granted
  <1>8. QED
    BY <1>4, <1>6, <1>7

LEMMA FindPortsSteps ==
    ASSUME EngineInv, AtInv, CxlFindPorts
    PROVE  QuietStep
  <1> DEFINE g == machine.engines[at]
             in == machine.options
             runs == g.allocated /\ g.trained
             option == IF runs /\ g.CxlControl THEN PortOptions(engine[at], in) ELSE engine[at]
             found == runs /\ g.negotiated
             new == IF found THEN MakeCxl(option) ELSE option
  <1>1. engine' = [engine EXCEPT ![at] = new]
    BY Zenon DEF CxlFindPorts
  <1>2. /\ phase = "FindPorts" /\ phase' = phase /\ at \in Engines
        /\ UNCHANGED <<layout, poolVars, machine, busLimits>>
    BY Zenon DEF CxlFindPorts
  <1>3. Shaped(engine[at]) /\ DOMAIN engine = Engines
    BY <1>2, SMTT(30) DEF EngineInv
  <1>4. Shaped(option) /\ SameMmio(engine[at], option) /\ option.type = engine[at].type
    <2>1. CASE option = engine[at]
      BY <1>3, <2>1, SMTT(30) DEF SameMmio
    <2>2. CASE option = PortOptions(engine[at], in)
      BY <1>3, <2>2, PortOptionsKeeps
    <2>3. QED
      BY <2>1, <2>2, SMTT(30)
  <1>5. Shaped(new) /\ SameMmio(engine[at], new) /\ new.type \in {engine[at].type, "CXL"}
    <2> HIDE DEF option, found
    <2>1. CASE new = option
      BY <1>4, <2>1
    <2>2. CASE new = MakeCxl(option)
      BY <1>4, <2>2, MakeCxlKeeps DEF SameMmio
    <2>3. QED
      BY <2>1, <2>2 DEF new
  <1> HIDE DEF new
  <1>6. \A e \in Engines : /\ Shaped(engine'[e]) /\ SameMmio(engine[e], engine'[e])
                           /\ engine'[e].type \in {engine[e].type, "CXL"}
    BY <1>1, <1>3, <1>5, QuietSame
  <1>7. DOMAIN engine' = DOMAIN engine
    BY <1>1
  <1>8. QED
    BY <1>2, <1>6, <1>7 DEF QuietStep, Frame, poolVars, Pending, Early

LEMMA AssignSteps ==
    ASSUME Inv, MachineInv, AtInv, EngineInv, CxlAssignResources
    PROVE  QuietStep \/ RcrbStep
  <1> DEFINE bus == busLimits[BusIndex(Owner(at))]
             r == WithRcrb(engine[at], answer'.base, bus)
  <1>1. /\ phase = "Assign" /\ at \in Engines /\ engine[at].type = "CXL" /\ at \in Nat
        /\ machine' = machine
        /\ CxlMmioAlloc(Owner(at), RcrbSize, Below)
    BY ZenonT(40) DEF CxlAssignResources, Owner, AtInv
  <1>2. Shaped(engine[at]) /\ DOMAIN engine = Engines
    BY <1>1 DEF EngineInv
  <1>3. RcrbSize \in Nat \ {0} /\ Below \in Kinds
    BY DEF RcrbSize, Below, Kinds
  <1>4. /\ layout' = layout
        /\ \/ given' = given /\ answer'.status # "SilPass"
           \/ /\ answer'.status = "SilPass"
              /\ \E w \in Windows : /\ w[2] \in RoutedTo(at)
                                    /\ Granted(w, answer'.base, RcrbSize, ALIGN_1M)
    BY <1>1, <1>3, AllocGrants
  <1>5. CASE answer'.status # "SilPass"
    <2>1. UNCHANGED <<engine, busLimits>> /\ phase' = "Assign" /\ at' = at + 1
      <3>1. NextEngine /\ UNCHANGED <<engine, busLimits, bars>>
        BY <1>5, ZenonT(40) DEF CxlAssignResources
      <3>2. QED
        BY <1>1, <3>1 DEF NextEngine
    <2>2. Frame /\ given' = given
      BY <1>1, <1>4, <1>5, <2>1 DEF Frame
    <2>3. \A e \in Engines : Pending(phase', at', e) => Pending(phase, at, e)
      <3>1. Engines \subseteq Nat
        BY MachineFacts, SMTT(30) DEF MachineInv
      <3>2. QED
        BY <1>1, <2>1, <3>1 DEF Pending
    <2>4. QED
      BY <1>1, <2>1, <2>2, <2>3, QuietSame, SMTT(30) DEF QuietStep, Early
  <1>6. CASE answer'.status = "SilPass"
    <2>1. /\ busLimits' = CxlAssignBus(Owner(at))
          /\ \E d \in {machine.engines[at].device, NoDevice} :
               LET s == Aggregate(d, bars[at])
               IN  \/ engine' = [engine EXCEPT ![at] = r] /\ NextEngine
                   \/ /\ engine' = [engine EXCEPT ![at] = Located(r, d)]
                      /\ phase' = "Asserted" /\ at' = at
                   \/ /\ engine' = [engine EXCEPT ![at] =
                                      AllocateForCxlIo(WithType(Located(r, d), d), s)]
                      /\ phase' = "AssignBar0" /\ at' = at
      BY <1>6, ZenonT(60) DEF CxlAssignResources, Owner
    <2>2. PICK d, s :
               \/ engine' = [engine EXCEPT ![at] = r] /\ NextEngine
               \/ /\ engine' = [engine EXCEPT ![at] = Located(r, d)]
                  /\ phase' = "Asserted" /\ at' = at
               \/ /\ engine' = [engine EXCEPT ![at] =
                                  AllocateForCxlIo(WithType(Located(r, d), d), s)]
                  /\ phase' = "AssignBar0" /\ at' = at
      BY <2>1, SMTT(30)
    <2>3. /\ Shaped(r) /\ r.type = "CXL" /\ r.bar0 = engine[at].bar0
          /\ r.DsRcrb = answer'.base /\ r.UsRcrb = answer'.base + 1 /\ r.bus = bus
      BY <1>1, <1>2, WithRcrbSets
    <2> HIDE DEF r, bus
    <2>4. PICK n : /\ engine' = [engine EXCEPT ![at] = n]
                   /\ Shaped(n) /\ n.type = "CXL" /\ n.bar0 = engine[at].bar0
                   /\ n.DsRcrb = answer'.base /\ n.UsRcrb \in {0, answer'.base + 1}
                   /\ n.bus = bus
      <3> DEFINE l == Located(r, d)
                 z == AllocateForCxlIo(WithType(l, d), s)
      <3>1. /\ Shaped(l) /\ l.type = "CXL" /\ l.bar0 = engine[at].bar0
            /\ l.DsRcrb = answer'.base /\ l.UsRcrb \in {0, answer'.base + 1} /\ l.bus = bus
        BY <2>3, LocatedKeeps, SMTT(30)
      <3>2. /\ Shaped(z) /\ z.type = "CXL" /\ z.bar0 = engine[at].bar0
            /\ z.DsRcrb = answer'.base /\ z.UsRcrb \in {0, answer'.base + 1} /\ z.bus = bus
        <4> HIDE DEF l
        <4>1. QED
          BY <3>1, SizedKeeps DEF SameMmio
      <3> HIDE DEF l, z
      <3>3. \E n \in {r, l, z} : engine' = [engine EXCEPT ![at] = n]
        BY <2>2 DEF l, z
      <3>4. QED
        BY <2>3, <3>1, <3>2, <3>3, ZenonT(40)
    <2>5. \/ phase' = "Assign" /\ at' = at + 1
          \/ phase' \in {"AssignBar0", "Asserted"} /\ at' = at
      BY <2>2 DEF NextEngine
    <2>6. /\ DOMAIN engine' = DOMAIN engine
          /\ engine'[at] = n
          /\ \A e \in Engines \ {at} : engine'[e] = engine[e]
      BY <1>1, <1>2, <2>4
    <2>7. Frame
      BY <1>1, <1>4, <2>6 DEF Frame
    <2>8. \E w \in Windows : /\ w[2] \in RoutedTo(at)
                             /\ Granted(w, answer'.base, RcrbSize, ALIGN_1M)
      BY <1>4, <1>6
    <2>9. busLimits' = CxlAssignBus(Owner(at))
      BY <2>1
    <2>10. QED
      BY <1>1, <2>4, <2>5, <2>6, <2>7, <2>8, <2>9, SMTT(30) DEF RcrbStep, bus
  <1>7. QED
    BY <1>5, <1>6, Zenon

LEMMA Bar0Steps ==
    ASSUME Inv, MachineInv, AtInv, EngineInv, AssignBar0
    PROVE  QuietStep \/ Bar0Step
  <1>1. /\ phase = "AssignBar0" /\ at \in Engines /\ at \in Nat
        /\ machine' = machine /\ busLimits' = busLimits
        /\ phase' = "Assign" /\ at' = at + 1
        /\ CxlMmioAlloc(Owner(at), MEM_BAR0_SIZE, Above)
    BY DEF AssignBar0, Owner, AtInv, NextEngine
  <1>2. Shaped(engine[at]) /\ DOMAIN engine = Engines
    BY <1>1 DEF EngineInv
  <1>3. MEM_BAR0_SIZE \in Nat \ {0} /\ Above \in Kinds
    BY DEF MEM_BAR0_SIZE, Above, Kinds
  <1>4. /\ layout' = layout
        /\ \/ given' = given /\ answer'.status # "SilPass"
           \/ /\ answer'.status = "SilPass"
              /\ \E w \in Windows : /\ w[2] \in RoutedTo(at)
                                    /\ Granted(w, answer'.base, MEM_BAR0_SIZE, ALIGN_1M)
    BY <1>1, <1>3, AllocGrants
  <1>5. CASE answer'.status # "SilPass"
    <2>1. engine' = engine
      BY <1>5 DEF AssignBar0
    <2>2. Frame /\ given' = given
      BY <1>1, <1>4, <1>5, <2>1 DEF Frame
    <2>3. \A e \in Engines : Pending(phase', at', e) => Pending(phase, at, e)
      <3>1. Engines \subseteq Nat
        BY MachineFacts DEF MachineInv
      <3>2. QED
        BY <1>1, <3>1 DEF Pending
    <2>4. QED
      BY <1>1, <2>1, <2>2, <2>3, QuietSame DEF QuietStep, Early
  <1>6. CASE answer'.status = "SilPass"
    <2>1. engine' = [engine EXCEPT ![at].bar0 = answer'.base]
      BY <1>6 DEF AssignBar0
    <2>2. /\ DOMAIN engine' = DOMAIN engine
          /\ engine'[at] = [engine[at] EXCEPT !.bar0 = answer'.base]
          /\ \A e \in Engines \ {at} : engine'[e] = engine[e]
      BY <1>1, <1>2, <2>1
    <2>3. Frame
      BY <1>1, <1>4, <2>2 DEF Frame
    <2>4. QED
      BY <1>1, <1>4, <1>6, <2>2, <2>3 DEF Bar0Step
  <1>7. QED
    BY <1>5, <1>6

LEMMA Steps ==
    ASSUME Inv, MachineInv, AtInv, EngineInv, CxlNext
    PROVE  QuietStep \/ OtherStep \/ RcrbStep \/ Bar0Step
  <1>1. Engines \subseteq Nat
    BY MachineFacts DEF MachineInv
  <1>2. CASE CxlPortInit
    BY <1>2, QuietSame DEF CxlPortInit, QuietStep, Frame, poolVars, Pending, Early
  <1>3. CASE BusLimits
    <2>1. /\ phase = "FindPorts" /\ phase' = "Assign"
          /\ UNCHANGED <<layout, poolVars, machine, engine>>
      BY <1>3 DEF BusLimits
    <2>2. QED
      BY <1>3, <2>1, QuietSame DEF QuietStep, Frame, poolVars, Pending, Early
  <1>4. CASE AssignSkipped
    BY <1>1, <1>4, QuietSame
       DEF AssignSkipped, NextEngine, AtInv, QuietStep, Frame, poolVars, Pending, Early
  <1>5. CASE CxlDevListGenerate
    <2>1. /\ phase = "Assign" /\ phase' = "Done"
          /\ UNCHANGED <<layout, poolVars, machine, engine, busLimits>>
      BY <1>5, SMTT(30) DEF CxlDevListGenerate
    <2>2. QED
      BY <2>1, QuietSame DEF QuietStep, Frame, poolVars, Pending, Early
  <1>6. QED
    BY <1>2, <1>3, <1>4, <1>5, OtherDriverSteps, FindPortsSteps, AssignSteps, Bar0Steps, SMTT(30)
       DEF CxlNext

(* And keeps EngineInv. *)
LEMMA InitEngine == CxlInit => EngineInv
  BY DEF CxlInit, EngineInv, NewEngine, Shaped, Keys

LEMMA NextEngineInv ==
    Inv /\ MachineInv /\ AtInv /\ EngineInv /\ [CxlNext]_allVars => EngineInv'
  <1> SUFFICES ASSUME Inv, MachineInv, AtInv, EngineInv, [CxlNext]_allVars PROVE EngineInv'
    OBVIOUS
  <1>1. Engines \subseteq Nat
    BY MachineFacts, SMTT(30) DEF MachineInv
  <1>2. CASE UNCHANGED allVars
    BY <1>2, SMTT(30) DEF allVars, cxlVars, EngineInv, Engines
  <1>3. CASE QuietStep
    <2>1. Engines' = Engines /\ DOMAIN engine' = Engines /\ phase' # "AssignBar0"
      BY <1>3 DEF QuietStep, Frame, EngineInv, Engines
    <2>2. ASSUME NEW e \in Engines
          PROVE  /\ Shaped(engine'[e])
                 /\ engine'[e].DsRcrb \in Nat /\ engine'[e].bar0 \in Nat
                 /\ engine'[e].DsRcrb # 0 => engine'[e].type = "CXL"
                 /\ engine'[e].DsRcrb = 0 => engine'[e].bar0 = 0
                 /\ Pending(phase', at', e) => engine'[e].DsRcrb = 0
      <3>1. /\ Shaped(engine'[e]) /\ SameMmio(engine[e], engine'[e])
            /\ engine'[e].type \in {engine[e].type, "CXL"}
            /\ Pending(phase', at', e) => Pending(phase, at, e)
        BY <1>3, Zenon DEF QuietStep
      <3>2. /\ engine[e].DsRcrb \in Nat /\ engine[e].bar0 \in Nat
            /\ engine[e].DsRcrb # 0 => engine[e].type = "CXL"
            /\ engine[e].DsRcrb = 0 => engine[e].bar0 = 0
            /\ Pending(phase, at, e) => engine[e].DsRcrb = 0
        BY ZenonT(40) DEF EngineInv
      <3>3. QED
        BY <3>1, <3>2, ZenonT(40) DEF SameMmio
    <2>3. QED
      BY <2>1, <2>2, ZenonT(40) DEF EngineInv, Pending
  <1>4. CASE OtherStep
    <2>1. UNCHANGED <<machine, engine, phase, at>>
      BY <1>4, SMTT(30) DEF OtherStep, cxlVars
    <2>2. QED
      BY <2>1 DEF EngineInv, Engines
  <1>5. CASE RcrbStep
    <2>1. answer'.base \in Nat \ {0} /\ Engines' = Engines
      BY <1>5, ZenonT(40) DEF RcrbStep, Frame, Granted, Engines
    <2>2. at \in Nat /\ phase = "Assign" /\ at \in Engines
      BY <1>5 DEF AtInv, RcrbStep
    <2>3. engine[at].DsRcrb = 0 /\ engine[at].bar0 = 0
      BY <2>2, SMTT(30) DEF EngineInv, Pending
    <2>4. ASSUME NEW e \in Engines, Pending(phase', at', e)
          PROVE  e # at /\ Pending(phase, at, e)
      <3>1. \/ phase' = "Assign" /\ at' = at + 1
            \/ phase' \in {"AssignBar0", "Asserted"} /\ at' = at
        BY <1>5, Zenon DEF RcrbStep
      <3>2. e \in Nat
        BY <1>1, Zenon
      <3>3. QED
        BY <2>2, <2>4, <3>1, <3>2 DEF Pending
    <2>5. /\ DOMAIN engine' = DOMAIN engine
          /\ \A e \in Engines \ {at} : engine'[e] = engine[e]
          /\ Shaped(engine'[at]) /\ engine'[at].type = "CXL"
          /\ engine'[at].DsRcrb = answer'.base /\ engine'[at].bar0 = 0
          /\ phase' = "AssignBar0" => at' = at
      BY <1>5, <2>3, ZenonT(40) DEF RcrbStep, Frame
    <2>6. QED
      BY <2>1, <2>2, <2>4, <2>5, SMTT(30) DEF EngineInv
  <1>6. CASE Bar0Step
    <2>1. answer'.base \in Nat \ {0} /\ Engines' = Engines
      BY <1>6 DEF Bar0Step, Frame, Granted, Engines
    <2>2. at \in Nat /\ phase = "AssignBar0" /\ at \in Engines /\ phase' = "Assign"
      BY <1>6 DEF AtInv, Bar0Step
    <2>3. /\ Shaped(engine'[at]) /\ engine'[at].bar0 = answer'.base
          /\ engine'[at].DsRcrb = engine[at].DsRcrb /\ engine'[at].type = engine[at].type
      BY <1>6, <2>2 DEF Bar0Step, EngineInv, Shaped, Keys
    <2>4. ASSUME NEW e \in Engines, Pending(phase', at', e)
          PROVE  e # at /\ Pending(phase, at, e)
      BY <1>1, <1>6, <2>2, <2>4 DEF Bar0Step, Pending
    <2>5. /\ DOMAIN engine' = DOMAIN engine /\ engine[at].DsRcrb # 0
          /\ \A e \in Engines \ {at} : engine'[e] = engine[e]
      BY <1>6, <2>2 DEF Bar0Step, Frame, EngineInv
    <2>6. QED
      BY <2>1, <2>2, <2>3, <2>4, <2>5 DEF EngineInv
  <1>7. QED
    BY <1>2, <1>3, <1>4, <1>5, <1>6, Steps

-----------------------------------------------------------------------------
(* The MMIO of CXL is what its engines hold, and nobody else's. *)
Ds(e) == engine[e].DsRcrb
Bar0(e) == engine[e].bar0
IsCxls(g, size) == g.mask = ALIGN_1M /\ g.length = size

RcrbsKnown ==
    \A g \in given : IsCxls(g, RcrbSize) => \E e \in Engines : Ds(e) = g.base
Bar0sKnown ==
    \A g \in given : IsCxls(g, MEM_BAR0_SIZE) => \E e \in Engines : Bar0(e) = g.base
RcrbsGranted ==
    \A e \in Engines : Ds(e) # 0 =>
        \E g \in given : IsCxls(g, RcrbSize) /\ g.base = Ds(e)
Bar0sGranted ==
    \A e \in Engines : Bar0(e) # 0 =>
        \E g \in given : IsCxls(g, MEM_BAR0_SIZE) /\ g.base = Bar0(e)
RcrbsApart ==
    \A e \in Engines : Ds(e) # 0 =>
        /\ engine[e].UsRcrb \in {0, Ds(e) + 1}
        /\ \A f \in Engines : Ds(f) = Ds(e) => f = e
GrantsRouted ==
    \A e \in Engines, g \in given :
        g.base \in {Ds(e), Bar0(e)} => g.window[2] \in RoutedTo(e)
OwnInv ==
    RcrbsKnown /\ Bar0sKnown /\ RcrbsGranted /\ Bar0sGranted /\ RcrbsApart /\ GrantsRouted

(* No grant is at address 0. *)
LEMMA GivenNotZero == ASSUME Inv PROVE \A g \in given : g.base \in Nat \ {0}
  BY SMTT(30) DEF Inv, TypeOK, GivenUsed, GivenAligned

LEMMA InitOwn == CxlInit => OwnInv
  <1> SUFFICES ASSUME CxlInit PROVE OwnInv
    OBVIOUS
  <1>1. given = {}
    BY Zenon DEF CxlInit, Init
  <1>2. engine = [e \in Engines |-> NewEngine]
    BY Zenon DEF CxlInit
  <1>3. ASSUME NEW e \in Engines
        PROVE  Ds(e) = 0 /\ Bar0(e) = 0
    BY <1>2, <1>3 DEF Ds, Bar0, NewEngine
  <1>4. QED
    BY <1>1, <1>3, Zenon DEF OwnInv, RcrbsKnown, Bar0sKnown, RcrbsGranted, Bar0sGranted,
                             RcrbsApart, GrantsRouted

(* The four steps keep the ownership. *)
LEMMA QuietOwn ==
    ASSUME OwnInv, Frame, given' = given,
           \A e \in Engines : SameMmio(engine[e], engine'[e])
    PROVE  OwnInv'
  <1>1. /\ Engines' = Engines
        /\ \A e \in Engines : /\ engine'[e].DsRcrb = Ds(e) /\ engine'[e].bar0 = Bar0(e)
                              /\ engine'[e].UsRcrb = engine[e].UsRcrb
                              /\ RoutedTo(e)' = RoutedTo(e)
    BY DEF Frame, Engines, SameMmio, Ds, Bar0, RoutedTo, Owner
  <1>2. (RcrbsKnown /\ Bar0sKnown)'
    BY <1>1, SMTT(30) DEF OwnInv, IsCxls, Ds, Bar0, RcrbsKnown, Bar0sKnown
  <1>3. (RcrbsGranted /\ Bar0sGranted)'
    BY <1>1, SMTT(30) DEF OwnInv, IsCxls, Ds, Bar0, RcrbsGranted, Bar0sGranted
  <1>4. (RcrbsApart /\ GrantsRouted)'
    BY <1>1 DEF OwnInv, Ds, Bar0, RcrbsApart, GrantsRouted
  <1>5. QED
    BY <1>2, <1>3, <1>4, SMTT(30) DEF OwnInv

(* A grant is told from what the engines hold by its address. *)
LEMMA GrantIsNew ==
    ASSUME EngineInv, OwnInv, NEW w \in Windows, NEW base, NEW length, NEW mask,
           Granted(w, base, length, mask)
    PROVE  /\ base # 0
           /\ \A g \in given : g \in given' /\ g.base # base
           /\ \A e \in Engines : Ds(e) # base /\ Bar0(e) # base
           /\ \E new \in given' :
                /\ new.window = w /\ new.base = base /\ new.length = length /\ new.mask = mask
                /\ \A g \in given' : g \in given \/ g = new
  <1>1. /\ base # 0 /\ \A g \in given : g.base # base
        /\ given' = given \cup {[window |-> w, base |-> base, length |-> length, mask |-> mask]}
    BY DEF Granted
  <1>2. \A e \in Engines : Ds(e) # base /\ Bar0(e) # base
    BY <1>1 DEF OwnInv, RcrbsGranted, Bar0sGranted
  <1>3. QED
    BY <1>1, <1>2, Zenon

LEMMA OtherOwn ==
    ASSUME EngineInv, OwnInv, OtherStep
    PROVE  OwnInv'
  <1>1. PICK w \in Windows, base \in Nat, length \in Lengths, mask \in Masks :
          Granted(w, base, length, mask)
    BY DEF OtherStep
  <1>2. PICK new \in given' :
          /\ new.window = w /\ new.base = base /\ new.length = length /\ new.mask = mask
          /\ \A g \in given' : g \in given \/ g = new
    BY <1>1, GrantIsNew
  <1>3. \A g \in given : g \in given'
    BY <1>1, GrantIsNew
  <1>4. \A e \in Engines : Ds(e) # new.base /\ Bar0(e) # new.base
    BY <1>1, <1>2, GrantIsNew
  <1>5. ~IsCxls(new, RcrbSize) /\ ~IsCxls(new, MEM_BAR0_SIZE)
    BY <1>2, OthersAssumption DEF IsCxls
  <1>6. /\ Engines' = Engines /\ engine' = engine
        /\ \A e \in Engines : RoutedTo(e)' = RoutedTo(e)
    BY DEF OtherStep, cxlVars, Engines, RoutedTo, Owner
  <1>7. (RcrbsKnown /\ Bar0sKnown)'
    BY <1>2, <1>5, <1>6, SMTT(30) DEF OwnInv, IsCxls, Ds, Bar0, RcrbsKnown, Bar0sKnown
  <1>8. (RcrbsGranted /\ Bar0sGranted)'
    BY <1>3, <1>6, SMTT(30) DEF OwnInv, IsCxls, Ds, Bar0, RcrbsGranted, Bar0sGranted
  <1>9. RcrbsApart'
    BY <1>6 DEF OwnInv, Ds, RcrbsApart
  <1>10. GrantsRouted'
    BY <1>2, <1>4, <1>6 DEF OwnInv, Ds, Bar0, GrantsRouted
  <1>11. QED
    BY <1>7, <1>8, <1>9, <1>10 DEF OwnInv

LEMMA RcrbOwn ==
    ASSUME Inv, AtInv, EngineInv, OwnInv, RcrbStep
    PROVE  OwnInv'
  <1> DEFINE base == answer'.base
  <1>1. PICK w \in Windows :
          w[2] \in RoutedTo(at) /\ Granted(w, base, RcrbSize, ALIGN_1M)
    BY SMTT(30) DEF RcrbStep
  <1>2. PICK new \in given' :
          /\ new.window = w /\ new.base = base /\ new.length = RcrbSize /\ new.mask = ALIGN_1M
          /\ \A g \in given' : g \in given \/ g = new
    BY <1>1, GrantIsNew, SMTT(30)
  <1>3. base # 0 /\ \A g \in given : g \in given' /\ g.base # base
    BY <1>1, GrantIsNew, SMTT(30)
  <1>4. \A e \in Engines : Ds(e) # base /\ Bar0(e) # base
    BY <1>1, GrantIsNew
  <1>5. IsCxls(new, RcrbSize) /\ ~IsCxls(new, MEM_BAR0_SIZE)
    BY <1>2, SMTT(30) DEF IsCxls, RcrbSize, MEM_BAR0_SIZE
  <1>6. at \in Engines /\ Ds(at) = 0 /\ Bar0(at) = 0
    BY SMTT(30) DEF RcrbStep, AtInv, EngineInv, Pending, Ds, Bar0
  <1>7. /\ Engines' = Engines
        /\ \A e \in Engines : RoutedTo(e)' = RoutedTo(e)
        /\ \A e \in Engines \ {at} : engine'[e] = engine[e]
        /\ engine'[at].DsRcrb = base /\ engine'[at].UsRcrb \in {0, base + 1}
        /\ engine'[at].bar0 = 0
    BY <1>6, Zenon DEF RcrbStep, Frame, Engines, RoutedTo, Owner, Bar0
  <1> HIDE DEF base
  <1>8. \A g \in given : g.base # 0
    BY GivenNotZero, SMTT(30)
  <1>9. RcrbsKnown'
    BY <1>2, <1>5, <1>6, <1>7, <1>8, SMTT(30) DEF OwnInv, RcrbsKnown, IsCxls, Ds
  <1>10. Bar0sKnown'
    BY <1>2, <1>5, <1>6, <1>7, <1>8, SMTT(30) DEF OwnInv, Bar0sKnown, IsCxls, Bar0
  <1>11. RcrbsGranted'
    BY <1>2, <1>3, <1>5, <1>7 DEF OwnInv, RcrbsGranted, IsCxls, Ds
  <1>12. Bar0sGranted'
    BY <1>3, <1>7, SMTT(30) DEF OwnInv, Bar0sGranted, IsCxls, Bar0
  <1>13. RcrbsApart'
    BY <1>4, <1>7, SMTT(30) DEF OwnInv, RcrbsApart, Ds
  <1>14. GrantsRouted'
    BY <1>1, <1>2, <1>3, <1>4, <1>6, <1>7, <1>8 DEF OwnInv, GrantsRouted, Ds, Bar0
  <1>15. QED
    BY <1>9, <1>10, <1>11, <1>12, <1>13, <1>14, ZenonT(40) DEF OwnInv

LEMMA Bar0Own ==
    ASSUME Inv, EngineInv, OwnInv, Bar0Step
    PROVE  OwnInv'
  <1> DEFINE base == answer'.base
  <1>1. PICK w \in Windows :
          w[2] \in RoutedTo(at) /\ Granted(w, base, MEM_BAR0_SIZE, ALIGN_1M)
    BY SMTT(30) DEF Bar0Step
  <1>2. PICK new \in given' :
          /\ new.window = w /\ new.base = base
          /\ new.length = MEM_BAR0_SIZE /\ new.mask = ALIGN_1M
          /\ \A g \in given' : g \in given \/ g = new
    BY <1>1, GrantIsNew
  <1>3. base # 0 /\ \A g \in given : g \in given' /\ g.base # base
    BY <1>1, GrantIsNew, SMTT(30)
  <1>4. \A e \in Engines : Ds(e) # base /\ Bar0(e) # base
    BY <1>1, GrantIsNew
  <1>5. IsCxls(new, MEM_BAR0_SIZE) /\ ~IsCxls(new, RcrbSize)
    BY <1>2 DEF IsCxls, RcrbSize, MEM_BAR0_SIZE
  <1>6. at \in Engines /\ Bar0(at) = 0 /\ Shaped(engine[at])
    BY DEF Bar0Step, EngineInv, Bar0
  <1>7. /\ Engines' = Engines
        /\ \A e \in Engines : RoutedTo(e)' = RoutedTo(e)
        /\ \A e \in Engines \ {at} : engine'[e] = engine[e]
    BY DEF Bar0Step, Frame, Engines, RoutedTo, Owner
  <1>8. /\ engine'[at].bar0 = base
        /\ engine'[at].DsRcrb = engine[at].DsRcrb /\ engine'[at].UsRcrb = engine[at].UsRcrb
    BY <1>6 DEF Bar0Step, Shaped, Keys
  <1>9. \A e \in Engines : Ds(e)' = Ds(e) /\ engine'[e].UsRcrb = engine[e].UsRcrb
    BY <1>6, <1>7, <1>8 DEF Ds
  <1> HIDE DEF base
  <1>10. \A g \in given : g.base # 0
    BY GivenNotZero
  <1>11. RcrbsKnown'
    BY <1>2, <1>5, <1>7, <1>9, SMTT(30) DEF OwnInv, RcrbsKnown, IsCxls, Ds
  <1>12. Bar0sKnown'
    BY <1>2, <1>5, <1>6, <1>7, <1>8, <1>10, SMTT(30) DEF OwnInv, Bar0sKnown, IsCxls, Bar0
  <1>13. RcrbsGranted'
    BY <1>3, <1>7, <1>9, SMTT(30) DEF OwnInv, RcrbsGranted, IsCxls, Ds
  <1>14. Bar0sGranted'
    BY <1>2, <1>3, <1>5, <1>7, <1>8, SMTT(30) DEF OwnInv, Bar0sGranted, IsCxls, Bar0
  <1>15. RcrbsApart'
    BY <1>7, <1>9, SMTT(30) DEF OwnInv, RcrbsApart, Ds
  <1>16. GrantsRouted'
    BY <1>1, <1>2, <1>3, <1>4, <1>6, <1>7, <1>8, <1>10 DEF OwnInv, GrantsRouted, Ds, Bar0
  <1>17. QED
    BY <1>11, <1>12, <1>13, <1>14, <1>15, <1>16 DEF OwnInv

LEMMA NextOwn ==
    Inv /\ MachineInv /\ AtInv /\ EngineInv /\ OwnInv /\ [CxlNext]_allVars => OwnInv'
  <1> SUFFICES ASSUME Inv, MachineInv, AtInv, EngineInv, OwnInv, [CxlNext]_allVars
               PROVE  OwnInv'
    OBVIOUS
  <1>1. CASE UNCHANGED allVars
    <2>1. Frame /\ given' = given /\ \A e \in Engines : SameMmio(engine[e], engine'[e])
      BY <1>1, SMTT(30) DEF allVars, cxlVars, poolVars, Frame, SameMmio
    <2>2. QED
      BY <2>1, QuietOwn
  <1>2. CASE QuietStep
    BY <1>2, QuietOwn DEF QuietStep
  <1>3. QED
    BY <1>1, <1>2, Steps, OtherOwn, RcrbOwn, Bar0Own

CxlInv == Inv /\ MachineInv /\ AtInv /\ EngineInv /\ OwnInv

(* The inductive invariant of the ownership. *)
LEMMA CxlSpecInv == CxlSpec => []CxlInv
  <1>1. CxlInit => CxlInv
    BY InitPool, InitEngine, InitOwn DEF CxlInv
  <1>2. CxlInv /\ [CxlNext]_allVars => CxlInv'
    BY NextPool, NextAt, NextEngineInv, NextOwn DEF CxlInv
  <1>3. QED
    BY <1>1, <1>2, PTL DEF CxlSpec

(* The grants stay disjoint and inside the windows while the start of CXL  *)
(* ports and other drivers take turns at FabricReserveMmio.                *)
THEOREM CxlPoolSound == CxlSpec => []ReservationsSound
  <1>1. CxlInv => ReservationsSound
    BY InvFits DEF CxlInv, Inv, ReservationsSound
  <1>2. QED
    BY <1>1, CxlSpecInv, PTL

(* On every machine the MMIO that CxlAssignResources reserved and what its *)
(* ports hold are the same, each RCRB one port's own, from a window of the *)
(* port's root bridge.                                                     *)
THEOREM CxlRcrbsOwned == CxlSpec => []RcrbsOwned
  <1>1. ASSUME CxlInv PROVE RcrbsOwned
    <2> USE <1>1 DEF CxlInv
    <2>1. \A e \in Engines : e \in Assigned <=> Ds(e) # 0
      BY SMTT(30) DEF Assigned, CxlEngines, EngineInv, Ds
    <2>2. Assigned \subseteq Engines
      BY DEF Assigned, CxlEngines
    <2>3. \A g \in given : g.base \in Nat \ {0}
      BY GivenNotZero
    <2>4. {g.base : g \in CxlGiven(RcrbSize)} = Rcrbs
      BY <2>1, <2>2, <2>3 DEF CxlGiven, Rcrbs, OwnInv, RcrbsKnown, RcrbsGranted, IsCxls, Ds
    <2>5. {g.base : g \in CxlGiven(MEM_BAR0_SIZE)} = Bar0s
      <3>1. \A e \in Engines : Bar0(e) # 0 => e \in Assigned
        BY <2>1 DEF EngineInv, Ds, Bar0
      <3>2. QED
        BY <2>2, <2>3, <3>1, SMTT(30) DEF CxlGiven, Bar0s, OwnInv, Bar0sKnown, Bar0sGranted, IsCxls, Bar0
    <2>6. \A e, f \in Assigned : engine[e].DsRcrb = engine[f].DsRcrb => e = f
      BY <2>1, <2>2, SMTT(30) DEF OwnInv, RcrbsApart, Ds
    <2>7. \A e \in Assigned :
            /\ engine[e].UsRcrb \in {0, engine[e].DsRcrb + 1}
            /\ \A g \in given :
                 g.base \in {engine[e].DsRcrb, engine[e].bar0} => g.window[2] \in RoutedTo(e)
      BY <2>1, <2>2 DEF OwnInv, RcrbsApart, GrantsRouted, Ds, Bar0
    <2>8. QED
      BY <2>4, <2>5, <2>6, <2>7, SMTT(30) DEF RcrbsOwned
  <1>2. QED
    BY <1>1, CxlSpecInv, PTL
=============================================================================
