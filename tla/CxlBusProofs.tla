------------------------------ MODULE CxlBusProofs ---------------------------
(* The buses that the start of CXL ports hands out, for every machine: a   *)
(* root bridge has given out as many as it has ports with an RCRB, from    *)
(* its last one down.                                                      *)
EXTENDS CxlProofs, FiniteSetTheorems

Held(rb) == {e \in Engines : Owner(e) = rb /\ Ds(e) # 0}
Ports(rb) == {e \in Engines : Owner(e) = rb}
Left(rb) == busLimits[BusIndex(rb)]
BusRange(rb) == machine.base[rb] + 1 .. machine.limit[rb]

LeftCounted ==
    \A rb \in layout.rbs : Left(rb) = machine.limit[rb] - Cardinality(Held(rb))
BusesDecoded ==
    \A e \in Engines : Ds(e) # 0 =>
        engine[e].bus \in BusRange(Owner(e)) /\ engine[e].bus > Left(Owner(e))
BusesDiffer ==
    \A e, f \in Engines : e # f /\ Ds(e) # 0 /\ Ds(f) # 0 => engine[e].bus # engine[f].bus
BusInv ==
    /\ DOMAIN busLimits = 0 .. MaxInstances - 1
    /\ phase \notin Early /\ EnoughBuses => LeftCounted /\ BusesDecoded /\ BusesDiffer

(* A root bridge with a bus for each of k ports has one more after c < k. *)
LEMMA Room ==
    ASSUME NEW b \in 0 .. 255, NEW l \in 0 .. 255, NEW k \in Nat, NEW c \in Nat,
           l - b >= k, c + 1 <= k
    PROVE  c + 1 <= l - b
  BY SMTT(20)

(* The root bridges have entries of their own in BusLimits ... *)
LEMMA IndexFacts ==
    ASSUME MachineInv
    PROVE  /\ \A rb \in layout.rbs : BusIndex(rb) \in 0 .. MaxInstances - 1
           /\ \A rb, other \in layout.rbs : BusIndex(rb) = BusIndex(other) => rb = other
  <1>1. MachineOK(machine) /\ machine.layout = layout
    BY MachineAssumption, SMTT(30) DEF MachineInv
  <1>2. /\ DOMAIN machine.rbs = 1 .. Len(machine.rbs) /\ Len(machine.rbs) \in 1 .. MaxInstances
        /\ {machine.rbs[i] : i \in DOMAIN machine.rbs} = layout.rbs
    BY <1>1 DEF MachineOK
  <1>3. ASSUME NEW rb \in layout.rbs
        PROVE  /\ machine.rbs[InstanceId(rb) + 1] = rb
               /\ InstanceId(rb) \in 0 .. MaxInstances - 1
    <2> DEFINE i == CHOOSE j \in DOMAIN machine.rbs : machine.rbs[j] = rb
    <2>1. \E j \in DOMAIN machine.rbs : machine.rbs[j] = rb
      BY <1>2
    <2>2. i \in DOMAIN machine.rbs /\ machine.rbs[i] = rb
      BY <2>1
    <2>3. InstanceId(rb) = i - 1
      BY DEF InstanceId
    <2> HIDE DEF i
    <2>4. PICK n \in 1 .. 16 : i \in 1 .. n
      BY <1>2, <2>2, Zenon DEF MaxInstances
    <2>5. InstanceId(rb) + 1 = i /\ InstanceId(rb) \in 0 .. 16 - 1
      BY <2>3, <2>4, SMTT(20)
    <2>6. QED
      BY <2>2, <2>5 DEF MaxInstances
  <1>4. QED
    BY <1>3, Zenon DEF BusIndex

(* ... and buses of their own. *)
LEMMA RangeFacts ==
    ASSUME MachineInv, NEW rb \in layout.rbs
    PROVE  /\ machine.base[rb] \in 0 .. 255 /\ machine.limit[rb] \in 0 .. 255
           /\ machine.base[rb] <= machine.limit[rb]
  <1>1. MachineOK(machine) /\ rb \in machine.layout.rbs
    BY MachineAssumption DEF MachineInv
  <1>2. QED
    BY <1>1, ZenonT(30) DEF MachineOK

LEMMA RangesApart ==
    ASSUME MachineInv, NEW rb \in layout.rbs, NEW other \in layout.rbs, rb # other
    PROVE  BusRange(rb) \cap BusRange(other) = {}
  <1>1. MachineOK(machine) /\ rb \in machine.layout.rbs /\ other \in machine.layout.rbs
    BY MachineAssumption DEF MachineInv
  <1>2. machine.base[rb] .. machine.limit[rb]
          \cap machine.base[other] .. machine.limit[other] = {}
    <2>1. \A r, s \in machine.layout.rbs : r # s =>
            machine.base[r] .. machine.limit[r] \cap machine.base[s] .. machine.limit[s] = {}
      BY <1>1, ZenonT(30) DEF MachineOK
    <2>2. QED
      BY <1>1, <2>1, Zenon
  <1>3. \A b, l \in 0 .. 255 : b + 1 .. l \subseteq b .. l
    BY SMTT(20)
  <1>4. /\ BusRange(rb) \subseteq machine.base[rb] .. machine.limit[rb]
        /\ BusRange(other) \subseteq machine.base[other] .. machine.limit[other]
    BY <1>3, RangeFacts, ZenonT(30) DEF BusRange
  <1>5. QED
    BY <1>2, <1>4, Zenon

LEMMA OwnerFacts ==
    ASSUME MachineInv, NEW e \in Engines
    PROVE  Owner(e) \in layout.rbs
  BY MachineAssumption, ZenonT(40) DEF MachineInv, MachineOK, Engines, Owner

(* The ports of a root bridge can be counted. *)
LEMMA PortsFinite ==
    ASSUME MachineInv, NEW rb
    PROVE  IsFiniteSet(Ports(rb)) /\ Cardinality(Ports(rb)) \in Nat
  <1>1. Engines = 1 .. Len(machine.engines) /\ Len(machine.engines) \in Nat
    BY MachineAssumption, ZenonT(40) DEF MachineInv, MachineOK, Engines
  <1>2. IsFiniteSet(Engines)
    BY <1>1, FS_Interval
  <1>3. Ports(rb) \in SUBSET Engines
    BY DEF Ports
  <1>4. QED
    BY <1>2, <1>3, FS_Subset, FS_CardinalityType, Zenon

(* What only depends on the machine stays. *)
LEMMA FrameKeeps ==
    ASSUME Frame, MachineInv
    PROVE  /\ Engines' = Engines /\ EnoughBuses' = EnoughBuses
           /\ \A e \in Engines : Owner(e)' = Owner(e)
           /\ \A rb \in layout.rbs : /\ Left(rb)' = busLimits'[BusIndex(rb)]
                                     /\ BusRange(rb)' = BusRange(rb)
  BY DEF Frame, Engines, EnoughBuses, Owner, BusIndex, InstanceId, Left, BusRange

(* BusInv after a step, in terms of the machine before it. *)
LEMMA BusIntro ==
    ASSUME MachineInv, Frame, DOMAIN busLimits' = 0 .. MaxInstances - 1,
           EnoughBuses =>
             /\ \A rb \in layout.rbs : busLimits'[BusIndex(rb)] = machine.limit[rb]
                  - Cardinality({e \in Engines : Owner(e) = rb /\ engine'[e].DsRcrb # 0})
             /\ \A e \in Engines : engine'[e].DsRcrb # 0 =>
                  /\ engine'[e].bus \in BusRange(Owner(e))
                  /\ engine'[e].bus > busLimits'[BusIndex(Owner(e))]
             /\ \A e, f \in Engines :
                  e # f /\ engine'[e].DsRcrb # 0 /\ engine'[f].DsRcrb # 0 =>
                    engine'[e].bus # engine'[f].bus
    PROVE  BusInv'
  <1>1. machine' = machine /\ layout' = layout
    BY DEF Frame
  <1>2. Engines' = Engines /\ EnoughBuses' = EnoughBuses
    BY FrameKeeps
  <1>3. \A e \in Engines : Ds(e)' = engine'[e].DsRcrb
    BY DEF Ds
  <1>4. ASSUME EnoughBuses PROVE LeftCounted'
    <2>1. \A rb \in layout.rbs :
            Held(rb)' = {e \in Engines : Owner(e) = rb /\ engine'[e].DsRcrb # 0}
      BY <1>2, <1>3, FrameKeeps DEF Held
    <2>2. QED
      BY <1>1, <1>4, <2>1, FrameKeeps, ZenonT(40) DEF LeftCounted
  <1>5. ASSUME EnoughBuses PROVE BusesDecoded'
    <2>1. \A e \in Engines : /\ BusRange(Owner(e))' = BusRange(Owner(e))
                             /\ Left(Owner(e))' = busLimits'[BusIndex(Owner(e))]
      BY <1>1 DEF BusRange, Left, Owner, BusIndex, InstanceId
    <2>2. QED
      BY <1>2, <1>3, <1>5, <2>1, ZenonT(40) DEF BusesDecoded
  <1>6. ASSUME EnoughBuses PROVE BusesDiffer'
    BY <1>2, <1>3, <1>6, ZenonT(40) DEF BusesDiffer
  <1>7. QED
    BY <1>2, <1>4, <1>5, <1>6, Zenon DEF BusInv

(* A step that leaves RCRBs, buses and limits alone. *)
LEMMA BusKeep ==
    ASSUME MachineInv, BusInv, phase \notin Early, Frame, busLimits' = busLimits,
           \A e \in Engines : engine'[e].DsRcrb = Ds(e) /\ engine'[e].bus = engine[e].bus
    PROVE  BusInv'
  <1>1. DOMAIN busLimits' = 0 .. MaxInstances - 1
    BY Zenon DEF BusInv
  <1>2. ASSUME EnoughBuses PROVE LeftCounted /\ BusesDecoded /\ BusesDiffer
    BY <1>2, Zenon DEF BusInv
  <1>3. \A rb \in layout.rbs :
          {e \in Engines : Owner(e) = rb /\ engine'[e].DsRcrb # 0} = Held(rb)
    BY Zenon DEF Held
  <1>4. EnoughBuses => \A rb \in layout.rbs :
          busLimits'[BusIndex(rb)] = machine.limit[rb]
            - Cardinality({e \in Engines : Owner(e) = rb /\ engine'[e].DsRcrb # 0})
    BY <1>2, <1>3, Zenon DEF LeftCounted, Left
  <1>5. EnoughBuses => \A e \in Engines : engine'[e].DsRcrb # 0 =>
          /\ engine'[e].bus \in BusRange(Owner(e))
          /\ engine'[e].bus > busLimits'[BusIndex(Owner(e))]
    BY <1>2, Zenon DEF BusesDecoded, Left
  <1>6. EnoughBuses => \A e, f \in Engines :
          e # f /\ engine'[e].DsRcrb # 0 /\ engine'[f].DsRcrb # 0 =>
            engine'[e].bus # engine'[f].bus
    BY <1>2, ZenonT(40) DEF BusesDiffer
  <1>7. QED
    BY <1>1, <1>4, <1>5, <1>6, BusIntro, Zenon

(* CxlPortInit has just read the last bus of every root bridge. *)
LEMMA BusStart ==
    ASSUME MachineInv, EngineInv, BusInv, BusLimits
    PROVE  BusInv'
  <1>1. /\ phase = "FindPorts"
        /\ UNCHANGED <<layout, machine, engine>>
        /\ busLimits' = [i \in DOMAIN busLimits |->
                            IF {rb \in layout.rbs : BusIndex(rb) = i} = {} THEN 0
                            ELSE machine.limit[CHOOSE rb \in {x \in layout.rbs :
                                                               BusIndex(x) = i} : TRUE]]
    BY DEF BusLimits
  <1>2. \A e \in Engines : engine'[e].DsRcrb = 0
    BY <1>1 DEF EngineInv, Pending
  <1>3. Frame
    BY <1>1 DEF Frame
  <1>4. ASSUME NEW rb \in layout.rbs
        PROVE  busLimits'[BusIndex(rb)] = machine.limit[rb]
                 - Cardinality({e \in Engines : Owner(e) = rb /\ engine'[e].DsRcrb # 0})
    <2> DEFINE rbs == {x \in layout.rbs : BusIndex(x) = BusIndex(rb)}
    <2>1. BusIndex(rb) \in DOMAIN busLimits
      BY IndexFacts, Zenon DEF BusInv
    <2>2. rbs = {rb}
      BY IndexFacts, Zenon
    <2>3. (CHOOSE x \in rbs : TRUE) = rb
      <3> HIDE DEF rbs
      <3>1. \E x \in rbs : TRUE
        BY <2>2
      <3>2. (CHOOSE x \in rbs : TRUE) \in rbs
        BY <3>1
      <3>3. QED
        BY <2>2, <3>2
    <2>4. busLimits'[BusIndex(rb)] = machine.limit[rb]
      BY <1>1, <2>1, <2>2, <2>3
    <2>5. {e \in Engines : Owner(e) = rb /\ engine'[e].DsRcrb # 0} = {}
      BY <1>2
    <2>6. Cardinality({e \in Engines : Owner(e) = rb /\ engine'[e].DsRcrb # 0}) = 0
      BY <2>5, FS_EmptySet, ZenonT(40)
    <2>7. machine.limit[rb] - 0 = machine.limit[rb]
      BY RangeFacts, SMTT(30)
    <2>8. QED
      BY <2>4, <2>6, <2>7, Zenon
  <1>5. DOMAIN busLimits' = 0 .. MaxInstances - 1
    BY <1>1 DEF BusInv
  <1>6. QED
    BY <1>2, <1>3, <1>4, <1>5, BusIntro, Zenon

(* A port takes the last bus that its root bridge has left. *)
LEMMA RcrbBus ==
    ASSUME MachineInv, AtInv, EngineInv, BusInv, RcrbStep
    PROVE  BusInv'
  <1>1. phase = "Assign" /\ at \in Engines /\ phase \notin Early
    BY Zenon DEF RcrbStep, Early
  <1>2. PICK own \in layout.rbs, p \in Engines, n \in {Left(Owner(at))} :
          own = Owner(at) /\ p = at /\ n = Left(own)
    BY <1>1, OwnerFacts, Zenon
  <1>3. Ds(p) = 0
    BY <1>1, <1>2 DEF EngineInv, Pending, AtInv, Ds
  <1>4. /\ Frame
        /\ \A e \in Engines \ {p} : engine'[e] = engine[e]
        /\ engine'[p].DsRcrb # 0 /\ engine'[p].bus = n
        /\ busLimits' = [busLimits EXCEPT ![BusIndex(own)] = (@ - 1) % 256]
    <2>1. answer'.base # 0
      BY Zenon DEF RcrbStep, Granted
    <2>2. QED
      BY <1>2, <2>1, Zenon DEF RcrbStep, CxlAssignBus, Left
  <1>5. DOMAIN busLimits = 0 .. MaxInstances - 1 /\ DOMAIN busLimits' = DOMAIN busLimits
    BY <1>4 DEF BusInv
  <1>6. SUFFICES ASSUME EnoughBuses
                 PROVE  /\ \A rb \in layout.rbs : busLimits'[BusIndex(rb)] = machine.limit[rb]
                             - Cardinality({e \in Engines : Owner(e) = rb /\ engine'[e].DsRcrb # 0})
                        /\ \A e \in Engines : engine'[e].DsRcrb # 0 =>
                             /\ engine'[e].bus \in BusRange(Owner(e))
                             /\ engine'[e].bus > busLimits'[BusIndex(Owner(e))]
                        /\ \A e, f \in Engines :
                             e # f /\ engine'[e].DsRcrb # 0 /\ engine'[f].DsRcrb # 0 =>
                               engine'[e].bus # engine'[f].bus
    BY <1>4, <1>5, BusIntro, Zenon
  <1>7. LeftCounted /\ BusesDecoded /\ BusesDiffer
    BY <1>1, <1>6, Zenon DEF BusInv
  <1>8. PICK b \in 0 .. 255, l \in 0 .. 255 : b = machine.base[own] /\ l = machine.limit[own]
    BY RangeFacts, ZenonT(40)
  <1>9. PICK h \in Nat : /\ h = Cardinality(Held(own))
                         /\ Cardinality(Held(own) \cup {p}) = h + 1
                         /\ h + 1 <= l - b
    <2>1. IsFiniteSet(Ports(own))
      BY PortsFinite, Zenon
    <2>2. Held(own) \in SUBSET Ports(own) /\ Held(own) \cup {p} \in SUBSET Ports(own)
      BY <1>2 DEF Held, Ports
    <2>3. IsFiniteSet(Held(own)) /\ Cardinality(Held(own) \cup {p}) <= Cardinality(Ports(own))
      BY <2>1, <2>2, FS_Subset, ZenonT(40)
    <2>4. PICK k \in Nat, c \in Nat : k = Cardinality(Ports(own)) /\ c = Cardinality(Held(own))
      BY <2>3, PortsFinite, FS_CardinalityType, ZenonT(40)
    <2>5. p \notin Held(own)
      BY <1>3 DEF Held
    <2>6. Cardinality(Held(own) \cup {p}) = c + 1
      BY <2>3, <2>4, <2>5, FS_AddElement, ZenonT(40)
    <2>7. l - b >= k
      BY <1>6, <1>8, <2>4, ZenonT(40) DEF EnoughBuses, Ports
    <2>8. c + 1 <= k
      BY <2>3, <2>4, <2>6, ZenonT(40)
    <2>9. c + 1 <= l - b
      BY <2>7, <2>8, Room, ZenonT(40)
    <2>10. QED
      BY <2>4, <2>6, <2>9, Zenon
  <1>10. n = l - h
    BY <1>2, <1>7, <1>8, <1>9, ZenonT(40) DEF LeftCounted
  <1>11. n \in b + 1 .. l /\ n \in 1 .. 255 /\ (n - 1) % 256 = n - 1 /\ n - 1 = l - (h + 1)
    <2>1. h \in Nat /\ h + 1 <= l - b /\ n = l - h
      BY <1>9, <1>10, ZenonT(40)
    <2>2. n \in b + 1 .. l
      BY <2>1
    <2>3. QED
      BY <2>1, <2>2
  <1>12. n \in BusRange(own)
    BY <1>8, <1>11, ZenonT(40) DEF BusRange
  <1>13. /\ busLimits'[BusIndex(own)] = n - 1
         /\ \A rb \in layout.rbs \ {own} : busLimits'[BusIndex(rb)] = Left(rb)
    <2>1. \A rb \in layout.rbs : BusIndex(rb) \in DOMAIN busLimits
      BY <1>5, IndexFacts, Zenon
    <2>2. \A rb \in layout.rbs \ {own} : BusIndex(rb) # BusIndex(own)
      BY IndexFacts, Zenon
    <2>3. busLimits[BusIndex(own)] = n
      BY <1>2, ZenonT(40) DEF Left
    <2>4. QED
      BY <1>4, <1>11, <2>1, <2>2, <2>3, SMTT(30) DEF Left
  <1>14. ASSUME NEW rb \in layout.rbs
         PROVE  busLimits'[BusIndex(rb)] = machine.limit[rb]
                  - Cardinality({e \in Engines : Owner(e) = rb /\ engine'[e].DsRcrb # 0})
    <2> DEFINE held == {e \in Engines : Owner(e) = rb /\ engine'[e].DsRcrb # 0}
    <2>1. CASE rb = own
      <3>1. held = Held(own) \cup {p}
        BY <1>2, <1>4, <2>1 DEF Held, Ds
      <3>2. QED
        BY <1>8, <1>9, <1>11, <1>13, <2>1, <3>1, ZenonT(40)
    <2>2. CASE rb # own
      <3>1. held = Held(rb)
        BY <1>2, <1>4, <2>2 DEF Held, Ds
      <3>2. QED
        BY <1>7, <1>13, <2>2, <3>1, ZenonT(40) DEF LeftCounted
    <2>3. QED
      BY <2>1, <2>2
  <1>15. ASSUME NEW e \in Engines, e # p, engine'[e].DsRcrb # 0
         PROVE  /\ engine'[e].bus \in BusRange(Owner(e))
                /\ engine'[e].bus > busLimits'[BusIndex(Owner(e))]
                /\ engine'[e].bus # n
    <2>1. engine'[e].bus = engine[e].bus /\ Ds(e) # 0 /\ Owner(e) \in layout.rbs
      BY <1>4, <1>15, OwnerFacts, ZenonT(40) DEF Ds
    <2>2. engine[e].bus \in BusRange(Owner(e)) /\ engine[e].bus > Left(Owner(e))
      BY <1>7, <2>1, Zenon DEF BusesDecoded
    <2>3. CASE Owner(e) = own
      <3>1. engine[e].bus \in b + 1 .. l /\ engine[e].bus > n
        BY <1>2, <1>8, <2>2, <2>3, ZenonT(40) DEF BusRange
      <3>2. engine[e].bus # n /\ engine[e].bus > n - 1
        BY <1>11, <3>1
      <3>3. QED
        BY <1>13, <2>1, <2>2, <2>3, <3>2, ZenonT(40)
    <2>4. CASE Owner(e) # own
      <3>1. BusRange(Owner(e)) \cap BusRange(own) = {}
        BY <2>1, <2>4, RangesApart, ZenonT(40)
      <3>2. busLimits'[BusIndex(Owner(e))] = Left(Owner(e))
        BY <1>13, <2>1, <2>4, ZenonT(40)
      <3>3. QED
        BY <1>12, <2>1, <2>2, <3>1, <3>2, ZenonT(40)
    <2>5. QED
      BY <2>3, <2>4, Zenon
  <1>16. /\ engine'[p].bus \in BusRange(Owner(p))
         /\ engine'[p].bus > busLimits'[BusIndex(Owner(p))]
    <2>1. n > n - 1
      BY <1>11
    <2>2. QED
      BY <1>2, <1>4, <1>12, <1>13, <2>1, ZenonT(40)
  <1>17. ASSUME NEW e \in Engines, NEW f \in Engines, e # f,
                engine'[e].DsRcrb # 0, engine'[f].DsRcrb # 0
         PROVE  engine'[e].bus # engine'[f].bus
    <2>1. CASE e = p \/ f = p
      BY <1>4, <1>15, <1>17, <2>1, ZenonT(40)
    <2>2. CASE e # p /\ f # p
      BY <1>4, <1>7, <1>17, <2>2, ZenonT(40) DEF BusesDiffer, Ds
    <2>3. QED
      BY <2>1, <2>2, Zenon
  <1>18. QED
    BY <1>14, <1>15, <1>16, <1>17, ZenonT(40)

LEMMA InitBus == CxlInit => BusInv
  BY DEF CxlInit, BusInv, Early

(* Every step keeps the account of the buses. *)
LEMMA NextBus ==
    CxlInv /\ BusInv /\ [CxlNext]_allVars => BusInv'
  <1> SUFFICES ASSUME CxlInv, BusInv, [CxlNext]_allVars PROVE BusInv'
    OBVIOUS
  <1>1. Inv /\ MachineInv /\ AtInv /\ EngineInv
    BY DEF CxlInv
  <1>2. CASE phase' \in Early /\ busLimits' = busLimits
    BY <1>2 DEF BusInv
  <1>3. CASE UNCHANGED allVars \/ OtherStep
    <2>1. UNCHANGED cxlVars /\ layout' = layout
      BY <1>3 DEF allVars, OtherStep
    <2>2. /\ Frame /\ busLimits' = busLimits /\ phase' = phase
          /\ \A e \in Engines : engine'[e].DsRcrb = Ds(e) /\ engine'[e].bus = engine[e].bus
      BY <2>1 DEF cxlVars, Frame, Ds
    <2>3. QED
      BY <1>1, <1>2, <2>2, BusKeep
  <1>4. CASE QuietStep
    <2>1. /\ Frame
          /\ \A e \in Engines : engine'[e].DsRcrb = Ds(e) /\ engine'[e].bus = engine[e].bus
      BY <1>4 DEF QuietStep, SameMmio, Ds
    <2>2. \/ phase' \in Early /\ busLimits' = busLimits
          \/ BusLimits
          \/ phase \notin Early /\ busLimits' = busLimits
      BY <1>4 DEF QuietStep
    <2>3. QED
      BY <1>1, <1>2, <2>1, <2>2, BusStart, BusKeep, SMTT(30)
  <1>5. CASE RcrbStep
    BY <1>1, <1>5, RcrbBus
  <1>6. CASE Bar0Step
    <2>1. phase \notin Early /\ Frame /\ busLimits' = busLimits /\ at \in Engines
      BY <1>6 DEF Bar0Step, Early
    <2>2. engine'[at].DsRcrb = engine[at].DsRcrb /\ engine'[at].bus = engine[at].bus
      BY <1>1, <1>6, <2>1 DEF Bar0Step, EngineInv, Shaped, Keys
    <2>3. \A e \in Engines : engine'[e].DsRcrb = Ds(e) /\ engine'[e].bus = engine[e].bus
      BY <1>6, <2>2, Zenon DEF Bar0Step, Ds
    <2>4. QED
      BY <1>1, <2>1, <2>3, BusKeep, SMTT(30)
  <1>7. QED
    BY <1>1, <1>3, <1>4, <1>5, <1>6, Steps, SMTT(30)

(* On every machine with more buses to a root bridge than CXL ports,       *)
(* CxlAssignBus gives no bus twice, each one decoded by the port's root    *)
(* bridge and above the bridge's own; the 8-bit count does not wrap.       *)
THEOREM CxlBuses == CxlSpec => []CxlBusesApart
  <1>1. CxlInit => BusInv
    BY InitBus
  <1>2. CxlInv /\ BusInv /\ [CxlNext]_allVars => BusInv'
    BY NextBus
  <1>3. ASSUME CxlInv, BusInv PROVE CxlBusesApart
    <2>1. \A e \in Assigned : e \in Engines /\ Ds(e) # 0
      BY DEF Assigned, CxlEngines, Ds
    <2>2. phase \in Early => Assigned = {}
      BY <1>3, <2>1 DEF CxlInv, EngineInv, Pending, Early, Ds
    <2>3. QED
      BY <1>3, <2>1, <2>2 DEF BusInv, BusesDecoded, BusesDiffer, BusRange, CxlBusesApart
  <1>4. QED
    BY <1>1, <1>2, <1>3, CxlSpecInv, PTL DEF CxlSpec
=============================================================================
