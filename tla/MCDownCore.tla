----------------------------- MODULE MCDownCore -----------------------------
(***************************************************************************)
(* Machines and requests for the model checker.  All machines are of the   *)
(* F19M10 kind: up to twelve CCDs with one complex of eight cores.         *)
(***************************************************************************)
EXTENDS DownCore

(* n cores of every CCD. *)
Lowest(n) == [ccd \in Ccds |-> {c \in CoresOf(1) : c[2] >= n}]
Socket(present, down, coreDis) == [present |-> present, down |-> down, coreDis |-> coreDis]
Machine(sockets) ==
    [sockets |-> sockets, complexes |-> 1, smt |-> TRUE, ActionOnBistFailure |-> FALSE,
     bist |-> [ccd \in Ccds |-> {}], l3Bist |-> {}]

Full == Socket(Ccds, {}, Lowest(8))
Half == Socket(Ccds, 8 .. 11, Lowest(6))
Uneven == Socket(Ccds, {}, [Lowest(8) EXCEPT ![11] = Lowest(5)[11]])
Eight == Socket(0 .. 7, {}, Lowest(8))
EightLeft == Socket(Ccds, 8 .. 11, Lowest(8))

MCMachines ==
    {Machine(<<x>>) : x \in {Full, Half, Uneven, Eight}}
    \cup {Machine(<<Full, Full>>), Machine(<<Half, Full>>), Machine(<<Full, Half>>),
          Machine(<<Eight, Eight>>), Machine(<<EightLeft, EightLeft>>),
          [Machine(<<Half>>) EXCEPT !.smt = FALSE],
          [Machine(<<Half>>) EXCEPT !.ActionOnBistFailure = TRUE, !.bist[2] = {<<0, 1>>}],
          [Machine(<<Full>>) EXCEPT !.ActionOnBistFailure = TRUE, !.bist[9] = {<<0, 7>>}]}

NoMaps == [ccd \in Ccds |-> {}]
Request(ccds, cores, apic, smt, maps) ==
    [AmdCcdMode |-> ccds, AmdDownCoreMode |-> cores, AmdApicMode |-> apic,
     AmdSmtMode |-> smt, AmdCoreDisCcd |-> maps]
(* Bitmaps with bits 8 to 15 set as well, with bits of complex 0 alone,    *)
(* and for CCD 0 alone.                                                    *)
WholeMap(n) == [ccd \in Ccds |-> {c \in CcdCores : c[1] = 1 \/ c[2] >= n}]
LowMap(n) == [ccd \in Ccds |-> {c \in CoresOf(1) : c[2] >= n}]
FirstMap(n) == [ccd \in Ccds |-> IF ccd = 0 THEN WholeMap(n)[ccd] ELSE {}]
MCRequests ==
    {Request(ccds, cores, apic, 1, NoMaps) :
       ccds \in {0, 2, 8}, cores \in {Auto, <<4, 0>>, <<7, 0>>, <<6, 6>>},
       apic \in {"xApicMode", "ApicCompatibilityMode", "ApicAutoMode"}}
    \cup {Request(0, Auto, "x2ApicMode", 0, NoMaps)}
    \cup {Request(0, Auto, "x2ApicMode", 1, maps) :
             maps \in {WholeMap(4), WholeMap(7), LowMap(4), FirstMap(4)}}
=============================================================================
