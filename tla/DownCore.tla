------------------------------ MODULE DownCore ------------------------------
(***************************************************************************)
(* Software down coring: CcxDownCoreInit (CCX/Common/CcxDownCoreInit.c)    *)
(* with what prepares its arguments (Zen4DownCoreInit.c, the APIC mode in  *)
(* Ccx.c) and the fuses it reads through SMU (SmuV13.c), over the boots    *)
(* that its warm and cold resets cause.                                    *)
(*                                                                         *)
(* A core of a CCD is <<complex, core>>, both physical; a mask is a set of *)
(* cores, or of CCDs.  There is one die per socket.                        *)
(***************************************************************************)
EXTENDS Integers, Sequences, FiniteSets, SequencesExt, FiniteSetsExt

CONSTANTS
    MaxCcds,        \* MAX_CCDS_PER_DIE
    MaxCores,       \* MAX_CORES_PER_COMPLEX
    Machines,       \* the machines: fuses and BIST results
    Requests,       \* the down core part of CCXCLASS_INPUT_BLK
    ResetsKept      \* the resets after which the host comes with a new request

VARIABLES
    machine,
    request,
    soft,           \* the soft downcore registers; a cold reset clears them
    apob,           \* the APOB's map of every socket, written at the last reset
    pc,
    fresh,          \* the request is in force since the last cold reset
    locals,         \* the local variables of CcxDownCoreInit
    AmdCcxCoreCount

vars == <<machine, request, soft, apob, pc, fresh, locals, AmdCcxCoreCount>>

Ccds == 0 .. MaxCcds - 1
Sockets(m) == 1 .. Len(m.sockets)
CoresOf(complexes) == (0 .. complexes - 1) \X (0 .. MaxCores - 1)
CcdCores == CoresOf(2)
Auto == <<0, 0>>
NoCount == -1
XAPIC_ID_MAX == 255

Ascending(S) ==
    SelectSeq([i \in 1 .. Max({MaxCcds, MaxCores}) |-> i - 1], LAMBDA n : n \in S)
SumOver(seq, F(_)) == FoldLeft(LAMBDA sum, e : sum + F(e), 0, seq)

(* xUslBitWidth *)
xUslBitWidth(Number) ==
    CHOOSE w \in 0 .. Number : 2 ^ w > Number /\ \A v \in 0 .. w - 1 : 2 ^ v <= Number
-----------------------------------------------------------------------------
(***************************************************************************)
(* What the platform's firmware writes to the APOB after a reset: the CCDs *)
(* with a core left, in physical order, and likewise their complexes and   *)
(* cores.                                                                  *)
(***************************************************************************)
Enabled(m, s, softs, ccd) ==
    CoresOf(m.complexes) \ (m.sockets[s].coreDis[ccd] \cup softs[s][ccd])

Complexes(cores) ==
    [i \in 1 .. Cardinality({c[1] : c \in cores}) |->
       LET cx == Ascending({c[1] : c \in cores})[i]
       IN  [PhysComplexNumber |-> cx,
            cores |-> Ascending({c[2] : c \in {d \in cores : d[1] = cx}})]]

ApobMap(m, s, softs) ==
    LET fused == m.sockets[s]
        ccds == Ascending({ccd \in fused.present \ fused.down : Enabled(m, s, softs, ccd) # {}})
    IN  [i \in 1 .. Len(ccds) |->
           [PhysCcdNumber |-> ccds[i], complexes |-> Complexes(Enabled(m, s, softs, ccds[i]))]]

NoSoft(m) == [s \in Sockets(m) |-> [ccd \in Ccds |-> {}]]
ApobOf(m, softs) == [s \in Sockets(m) |-> ApobMap(m, s, softs)]

(* GetCoreTopologyOnDie: CCD 0 and its complex 0 stand for all of the die. *)
CcdCount(map) == Len(map)
ComplexCount(map) == IF map = << >> THEN 0 ELSE Len(map[1].complexes)
CoreCount(map) == IF map = << >> THEN 0 ELSE Len(map[1].complexes[1].cores)
ThreadCount(m, map) == IF map = << >> THEN 0 ELSE IF m.smt THEN 2 ELSE 1
-----------------------------------------------------------------------------
(***************************************************************************)
(* The fuses.                                                              *)
(***************************************************************************)

(* SmuGetOpnCorePresenceExV13.  A CCD that is not present counts as one    *)
(* without cores and without SMT; only complex 0 is reported.              *)
CoreDisFuse(fused, ccd) ==
    IF ccd \in fused.present
    THEN {c \in fused.coreDis[ccd] : c[1] = 0} ELSE CoresOf(1)
SmtEnabledByFuse(m, fused, ccd) == ccd \in fused.present /\ m.smt
CcdDownFuse(fused) == fused.down \cap fused.present

(* SmuGetOpnCorePresenceV13: the core map of the CCD with most disabled. *)
WorstCoreDisFuse(fused) ==
    LET Count(ccd) == Cardinality(CoreDisFuse(fused, ccd))
        worst == CHOOSE ccd \in Ccds :
                   /\ \A other \in Ccds : Count(other) <= Count(ccd)
                   /\ \A other \in 0 .. ccd - 1 : Count(other) < Count(ccd)
    IN  CoreDisFuse(fused, worst)

(* IsCcdBistFailure: a core that is not fused off, of the first CoreCount  *)
(* ones, or an L3 failed on a CCD that is present.                         *)
IsCcdBistFailure(m, maps) ==
    /\ m.ActionOnBistFailure
    /\ \E s \in Sockets(m) : \E ccd \in m.sockets[s].present :
         \/ \E core \in 0 .. CoreCount(maps[s]) - 1 :
              <<0, core>> \in m.bist[ccd] \ WorstCoreDisFuse(m.sockets[s])
         \/ ccd \in m.l3Bist
-----------------------------------------------------------------------------
(***************************************************************************)
(* The request.                                                            *)
(***************************************************************************)

(* GetZen4DesiredCcdCount.  CCD_MODE_1_CCD is not supported and leaves     *)
(* both outputs uninitialised.                                             *)
GetZen4DesiredCcdCount(CcdMode) ==
    IF CcdMode = 1 THEN [mask : SUBSET Ccds, count : 0 .. MaxCcds]
    ELSE IF CcdMode = 0 THEN {[mask |-> {}, count |-> NoCount]}
    ELSE {[mask |-> {ccd \in Ccds : ccd >= CcdMode}, count |-> CcdMode]}

(* The switch over DownCoreMode; mode <<n, k>> is CCX_DOWN_CORE_n_k.  With *)
(* k = 0 the mask has no bits of complex 1.                                *)
CoreDisMaskOf(mode) ==
    IF mode = Auto THEN {}
    ELSE {c \in CcdCores : \/ c[1] = 0 /\ c[2] >= mode[1]
                           \/ c[1] = 1 /\ mode[2] # 0 /\ c[2] >= mode[2]}
DesiredCoreCountOf(mode) == IF mode = Auto THEN NoCount ELSE mode[1]

(* InitializeCcxAndLaunchAps: the APIC mode may change the down core mode  *)
(* or be changed itself.                                                   *)
TotalThreads(m, maps) ==
    Len(maps) * CcdCount(maps[1]) * ComplexCount(maps[1]) * CoreCount(maps[1])
      * ThreadCount(m, maps[1])
DownCoreModeFor(r, threads) ==
    IF r.AmdApicMode = "xApicMode" /\ threads >= XAPIC_ID_MAX
    THEN <<7, 0>> ELSE r.AmdDownCoreMode
ApicModeFor(r, threads) ==
    IF r.AmdApicMode = "ApicAutoMode" THEN "x2ApicMode"
    ELSE IF r.AmdApicMode = "ApicCompatibilityMode" /\ threads < XAPIC_ID_MAX
    THEN "xApicMode" ELSE r.AmdApicMode
-----------------------------------------------------------------------------
(***************************************************************************)
(* The body of the loop over the sockets.  acc is the function's locals    *)
(* that survive an iteration; CcdDisMask and CoreDisMask are shared by all *)
(* sockets, and cleared for the rest of them once one is served.           *)
(***************************************************************************)
CoreDisByFuseCount(fused) ==
    SumOver(Ascending(Ccds), LAMBDA ccd : Cardinality(CoreDisFuse(fused, ccd)))

(* The cores of the map, CoreCount of every complex at most. *)
AvailableCoreCount(map) ==
    SumOver(map, LAMBDA d :
      SumOver(SubSeq(d.complexes, 1, Min({Len(d.complexes), ComplexCount(map)})),
              LAMBDA x : Min({Len(x.cores), CoreCount(map)})))
AvailableCoreMap(map, d) ==
    UNION {{<<d.complexes[x].PhysComplexNumber, d.complexes[x].cores[c]>> :
              c \in 1 .. Min({Len(d.complexes[x].cores), CoreCount(map)})} :
             x \in 1 .. Min({Len(d.complexes), ComplexCount(map)})}

EnCoreLimit(fused, map, limit) ==
    Min({limit} \cup {MaxCores - Cardinality({c \in CoreDisFuse(fused, ccd) : c[1] = x}) :
                        ccd \in Ccds, x \in 0 .. ComplexCount(map) - 1})

(* Mutant of DownCoredBefore: the cores the fuses disable are forgotten. *)
DownCoredDespiteFuses(fused, map) ==
    \/ CcdCount(map) + Cardinality(CcdDownFuse(fused)) < Cardinality(fused.present)
    \/ AvailableCoreCount(map) < MaxCores * ComplexCount(map) * CcdCount(map)
DownCoredBefore(fused, map) ==
    \/ CcdCount(map) + Cardinality(CcdDownFuse(fused)) < Cardinality(fused.present)
    \/ AvailableCoreCount(map) + CoreDisByFuseCount(fused)
         < MaxCores * ComplexCount(map) * CcdCount(map)

(* The fuses and the topology, and whether the die was down cored before. *)
Looked(m, s, map, acc) ==
    [acc EXCEPT
       !.EnCoreLimit = EnCoreLimit(m.sockets[s], map, @),
       !.ThreadCount = ThreadCount(m, map),
       !.ThrdPerCoreFuse = IF SmtEnabledByFuse(m, m.sockets[s], 0) THEN 2 ELSE 1,
       !.DesiredCcdCount = IF @ = NoCount THEN CcdCount(map) ELSE @,
       !.DesiredCoreCount = IF @ = NoCount THEN CoreCount(map) ELSE @,
       !.AlreadyDownCored = @ \/ DownCoredBefore(m.sockets[s], map),
       !.CcdDisMask = IF DownCoredBefore(m.sockets[s], map) THEN {} ELSE @,
       !.CoreDisMask = IF DownCoredBefore(m.sockets[s], map) THEN {} ELSE @]

(* The bitmaps of the first CcdCount CCDs, and the way out of xApic mode. *)
WideApic(m, s, map, r) ==
    /\ r.AmdApicMode = "xApicMode" /\ CcdCount(map) = 8
    /\ xUslBitWidth(Len(m.sockets) - 1)
         + xUslBitWidth(Cardinality(m.sockets[s].present)
                          - Cardinality(CcdDownFuse(m.sockets[s])) - 1)
         + xUslBitWidth(ComplexCount(map) - 1) > 4
WithBitMap(r, map, acc) ==
    LET maps == [ccd \in Ccds |-> IF ccd < CcdCount(map) THEN r.AmdCoreDisCcd[ccd]
                                  ELSE acc.DownCoreBitMap[ccd]]
    IN  [acc EXCEPT !.DownCoreBitMap = maps,
                    !.DownCoreBitMapAvailable = @ \/ \E ccd \in Ccds : maps[ccd] # {}]
Bitmapped(m, s, map, r, acc) ==
    IF WideApic(m, s, map, r)
    THEN [acc EXCEPT !.CcdMode = 8, !.DownCoreBitMapAvailable = FALSE,
                     !.DownCoreMode = IF ComplexCount(map) > 1 THEN <<4, 4>> ELSE <<7, 0>>]
    ELSE acc

(* Mutant of Compared: once the CCDs are met the cores are taken to be. *)
ComparedOnce(map, acc) ==
    IF acc.DownCoreBitMapAvailable
    THEN [acc EXCEPT !.Met =
            \A i \in 1 .. CcdCount(map) :
              AvailableCoreMap(map, map[i]) = CcdCores \ acc.DownCoreBitMap[i - 1]]
    ELSE IF acc.DesiredCcdCount = CcdCount(map)
    THEN [acc EXCEPT !.CcdDisMask = {}, !.CoreDisMask = {}]
    ELSE [acc EXCEPT !.Met = FALSE]
(* Is the request met?  It is not looked at when there is no mask left. *)
Compared(map, acc) ==
    IF acc.DownCoreBitMapAvailable
    THEN [acc EXCEPT !.Met =
            \A i \in 1 .. CcdCount(map) :
              AvailableCoreMap(map, map[i]) = CcdCores \ acc.DownCoreBitMap[i - 1]]
    ELSE IF acc.CcdDisMask # {} \/ acc.CoreDisMask # {}
    THEN [acc EXCEPT
            !.CcdAttainable = @ /\ acc.DesiredCcdCount <= CcdCount(map),
            !.CoreAttainable = @ /\ acc.DesiredCoreCount <= CoreCount(map),
            !.CcdDisMask = IF acc.DesiredCcdCount >= CcdCount(map) THEN {} ELSE @,
            !.CoreDisMask = IF acc.DesiredCoreCount >= CoreCount(map) THEN {} ELSE @,
            !.Met = @ /\ acc.DesiredCcdCount = CcdCount(map)
                      /\ acc.DesiredCoreCount = CoreCount(map)]
    ELSE acc

(* What is written to the register of a CCD, {} for nothing. *)
DisMask(map, acc, ccd) ==
    IF ccd \in acc.CcdDisMask THEN CoresOf(ComplexCount(map))
    ELSE IF acc.DownCoreBitMap[ccd] # {} THEN acc.DownCoreBitMap[ccd]
    ELSE acc.CoreDisMask

Written(s, map, acc) ==
    LET go == /\ ~acc.AlreadyDownCored /\ ~acc.Met
              /\ acc.CoreAttainable /\ acc.CcdAttainable
              /\ acc.CcdDisMask # {} \/ acc.CoreDisMask # {} \/ acc.DownCoreBitMapAvailable
        ccds == {map[i].PhysCcdNumber : i \in 1 .. Len(map)}
        set == {ccd \in ccds : go /\ DisMask(map, acc, ccd) # {}}
    IN  [acc EXCEPT
           !.soft[s] = [ccd \in Ccds |-> IF ccd \in set THEN DisMask(map, acc, ccd) ELSE @[ccd]],
           !.Socket = @ + 1, !.IssueReset = @ \/ set # {}]

-----------------------------------------------------------------------------
(***************************************************************************)
(* CcxDownCoreInit as a whole.                                             *)
(***************************************************************************)
NoLocals == [Socket |-> 0]
Locals(r, softs, zen4) ==
    [Socket |-> 1, CcdDisMask |-> zen4.mask, DesiredCcdCount |-> zen4.count,
     CoreDisMask |-> CoreDisMaskOf(r.AmdDownCoreMode),
     DesiredCoreCount |-> DesiredCoreCountOf(r.AmdDownCoreMode),
     CcdMode |-> r.AmdCcdMode, DownCoreMode |-> r.AmdDownCoreMode,
     DownCoreBitMap |-> [ccd \in Ccds |-> {}], DownCoreBitMapAvailable |-> FALSE,
     AlreadyDownCored |-> FALSE, Met |-> TRUE,
     CcdAttainable |-> TRUE, CoreAttainable |-> TRUE,
     EnCoreLimit |-> MaxCores, ThreadCount |-> 2, ThrdPerCoreFuse |-> 2,
     IssueReset |-> FALSE, soft |-> softs, request |-> r]

(* The three cases in which a cold reset is requested. *)
ColdWanted(r, acc) ==
    \/ ~acc.Met /\ acc.AlreadyDownCored
    \/ /\ acc.CcdMode = 0 /\ acc.DownCoreMode = Auto
       /\ acc.AlreadyDownCored /\ ~acc.DownCoreBitMapAvailable
    \/ r.AmdSmtMode = 1 /\ acc.ThreadCount # acc.ThrdPerCoreFuse

(* SmuDisableSmt is not in the table of SMU V13: the call faults. *)
CallsNothing(r, acc) == r.AmdSmtMode = 0 /\ acc.ThreadCount > 1

(* The status decides how the boot goes on. *)
After(r, acc) ==
    IF CallsNothing(r, acc) THEN "fault"
    ELSE IF ColdWanted(r, acc) THEN "cold"
    ELSE IF acc.IssueReset THEN "warm" ELSE "running"

(* The input block InitializeCcxAndLaunchAps leaves to CcxDownCoreInit. *)
Adjusted(m, r, maps) ==
    [r EXCEPT !.AmdDownCoreMode = DownCoreModeFor(r, TotalThreads(m, maps)),
              !.AmdApicMode = ApicModeFor(r, TotalThreads(m, maps))]
-----------------------------------------------------------------------------
Init ==
    /\ machine \in Machines /\ request \in Requests
    /\ soft = NoSoft(machine)
    /\ apob = ApobOf(machine, soft)
    /\ pc = "boot" /\ fresh = TRUE
    /\ locals = NoLocals /\ AmdCcxCoreCount = 0

CcxDownCoreInit ==
    /\ pc = "boot"
    /\ IF IsCcdBistFailure(machine, apob)
       THEN pc' = "error" /\ UNCHANGED locals
       ELSE /\ pc' = "loop"
            /\ \E zen4 \in GetZen4DesiredCcdCount(request.AmdCcdMode) :
                 locals' = Locals(Adjusted(machine, request, apob), soft, zen4)
    /\ UNCHANGED <<machine, request, soft, apob, fresh, AmdCcxCoreCount>>

(* One socket. *)
ServeSocket ==
    /\ pc = "loop" /\ locals.Socket <= Len(machine.sockets)
    /\ \E s \in {locals.Socket}, r \in {locals.request}, map \in {apob[locals.Socket]} :
         \E looked \in {Looked(machine, s, map, locals)} :
         \E mapped \in {WithBitMap(r, map, looked)} :
         \E apic \in {Bitmapped(machine, s, map, r, mapped)} :
         \E compared \in {Compared(map, apic)} :
           locals' = Written(s, map, compared)
    /\ UNCHANGED <<machine, request, soft, apob, pc, fresh, AmdCcxCoreCount>>

(* The status the loop left decides how the boot goes on. *)
Finish ==
    /\ pc = "loop" /\ locals.Socket > Len(machine.sockets)
    /\ soft' = locals.soft
    /\ AmdCcxCoreCount' = locals.EnCoreLimit
    /\ pc' = After(locals.request, locals)
    /\ locals' = NoLocals
    /\ UNCHANGED <<machine, request, apob, fresh>>

(* A reset: the registers take effect, or are cleared if it is cold. *)
Reset(softs) ==
    /\ soft' = softs
    /\ apob' = ApobOf(machine, softs)
    /\ pc' = IF \E s \in Sockets(machine) : apob'[s] = << >> THEN "dead" ELSE "boot"
    /\ AmdCcxCoreCount' = 0
    /\ UNCHANGED <<machine, locals>>

WarmReset == pc = "warm" /\ Reset(soft) /\ UNCHANGED <<request, fresh>>
ColdReset == pc = "cold" /\ Reset(NoSoft(machine)) /\ fresh' = TRUE /\ UNCHANGED request

(* The user changes the setup and the host resets the machine. *)
NewRequest ==
    /\ pc \in {"running", "error", "fault"}
    /\ \/ "warm" \in ResetsKept /\ Reset(soft) /\ fresh' = FALSE
       \/ "cold" \in ResetsKept /\ Reset(NoSoft(machine)) /\ fresh' = TRUE
    /\ request' \in Requests

Step == CcxDownCoreInit \/ ServeSocket \/ Finish \/ WarmReset \/ ColdReset
Next == Step \/ NewRequest
Spec == Init /\ [][Next]_vars
(* The firmware runs, and the host performs the resets it is asked for. *)
FairSpec == Spec /\ WF_vars(Step)
-----------------------------------------------------------------------------
(***************************************************************************)
(* Properties.                                                             *)
(***************************************************************************)
NoBitMap(r) == \A ccd \in Ccds : r.AmdCoreDisCcd[ccd] = {}

(* Whatever is requested, every socket keeps a core to come back with      *)
(* after the reset.                                                        *)
CoreLeft == \A s \in Sockets(machine) : apob[s] # << >>

(* A machine that reaches the end of CCX's time point runs what was asked  *)
(* for, if it can: the requested CCDs and the requested cores in the first *)
(* complex.  It holds for the first socket, and for the others if their    *)
(* fuses are the same; it is about requests made since the last cold       *)
(* reset.                                                                  *)
Fused == [s \in Sockets(machine) |-> ApobMap(machine, s, NoSoft(machine))]
Attainable(s) ==
    /\ request.AmdCcdMode <= CcdCount(Fused[s])
    /\ request.AmdDownCoreMode[1] <= CoreCount(Fused[s])
AsRequested ==
    pc = "running" /\ fresh /\ NoBitMap(request) /\ (\A s \in Sockets(machine) : Attainable(s)) =>
      \A s \in Sockets(machine) : machine.sockets[s] = machine.sockets[1] =>
        /\ request.AmdCcdMode # 0 => CcdCount(apob[s]) = request.AmdCcdMode
        /\ request.AmdDownCoreMode # Auto /\ request.AmdApicMode # "xApicMode" =>
             CoreCount(apob[s]) = request.AmdDownCoreMode[1]

(* In x2APIC mode a request for everything brings all cores back that an   *)
(* earlier request took away, if all CCDs are present.                     *)
AllBack ==
    /\ pc = "running" /\ NoBitMap(request)
    /\ request.AmdCcdMode = 0 /\ request.AmdDownCoreMode = Auto
    /\ request.AmdApicMode \in {"ApicAutoMode", "x2ApicMode"}
    /\ \A s \in Sockets(machine) : machine.sockets[s].present = Ccds
    => apob = Fused

(* The registers CcxDownCoreInit writes leave a machine that is what was   *)
(* asked for, that can get back what an earlier request took from it, and  *)
(* that never loses its last core on the way, however the requests follow  *)
(* one another.                                                            *)
Honoured == CoreLeft /\ AsRequested /\ AllBack

(* The requests whose resets do not end.  In xAPIC mode with too many      *)
(* threads the mode is CCX_DOWN_CORE_7_0; if that leaves few enough, the   *)
(* next boot finds a down cored machine and a request for all cores, and   *)
(* the way out of CcxDownCoreInit for xAPIC mode is only taken with more   *)
(* than sixteen complexes.                                                 *)
Without(masks) == ApobOf(machine, [s \in Sockets(machine) |-> masks])
SevenCores == Without([ccd \in Ccds |-> CoreDisMaskOf(<<7, 0>>)])
BackAndForth ==
    /\ request.AmdApicMode = "xApicMode"
    /\ request.AmdCcdMode = 0 /\ request.AmdDownCoreMode = Auto
    /\ TotalThreads(machine, Fused) >= XAPIC_ID_MAX
    /\ TotalThreads(machine, SevenCores) < XAPIC_ID_MAX
    /\ \E s \in Sockets(machine) : DownCoredBefore(machine.sockets[s], SevenCores[s])

(* A bitmap is compared with all sixteen bits of a CCD, so it never is met *)
(* if it leaves out cores a CCD does not have or its fuses disable.        *)
BitMapsFit ==
    LET maps == Without(request.AmdCoreDisCcd)
    IN  \A s \in Sockets(machine) : \A i \in 1 .. CcdCount(maps[s]) :
          AvailableCoreMap(maps[s], maps[s][i]) = CcdCores \ request.AmdCoreDisCcd[i - 1]

(* The resets CcxDownCoreInit asks for come to an end, whatever was        *)
(* requested before and at whichever reset the request changed, but for    *)
(* these requests, which from a cold reset on never come to an end.  The   *)
(* code says of the way out that it is there "to prevent infinite reset    *)
(* loop", which is wrong of BackAndForth.                                  *)
Unsettled == BackAndForth \/ (~NoBitMap(request) /\ ~BitMapsFit)
Settles ==
    /\ pc = "boot" /\ ~Unsettled ~> pc \in {"running", "error", "fault", "dead"}
    /\ [](Unsettled /\ fresh => pc # "running")
=============================================================================
