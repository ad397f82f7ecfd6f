------------------------------ MODULE ApLaunch ------------------------------
(***************************************************************************)
(* The launch of the application processors (xUSL/CCX/Common): the BSP     *)
(* runs the second half of InitializeCcxAndLaunchAps, each AP the startup  *)
(* code at the reset vector, ApAsmCode and ApEntryPointInC.  All APs share *)
(* one stack, ApStack, and one counter, the word at                        *)
(* AllowToLaunchNextThreadLocation, which lies inside the region at the    *)
(* reset vector that is saved before and restored after the launch.        *)
(***************************************************************************)
EXTENDS Integers, Sequences

CONSTANTS
    Maps,           \* the core topologies the APOB may describe
    Threads,        \* the hardware threads of all of them, without the BSP
    Order,          \* Order[m]: the launch order of InitializeCcxAndLaunchAps
    Launchable,     \* Launchable[m]: the threads SmuLaunchThreadV13 accepts
    Bit,            \* Bit[m][t]: the ThreadEn bit it sets for a thread
    Uint16,         \* number of values of the counter
    Is64Bit,        \* CcxApLaunch64.c and ApAsm64.nasm, or the 32 bit files
    Smee            \* the values of AmdSmee a host may configure

ASSUME OrderAssumption ==
    /\ Uint16 \in Nat
    /\ << >> \notin Threads
    /\ Is64Bit \in BOOLEAN
    /\ Smee \subseteq BOOLEAN
    /\ \A m \in Maps :
         /\ Order[m] \in Seq(Threads)
         /\ Len(Order[m]) < Uint16
         /\ Launchable[m] \subseteq Threads

VARIABLES
    map,            \* the topology of this machine
    AmdSmee,
    bsp,            \* what the BSP does next
    ApNumBfLaunch,
    threadEn,       \* the ThreadEn bits that are set
    region,         \* the memory at the reset vector
    MemoryContentCopy,
    bspMsr,         \* settings the BSP's synchronised MSRs hold
    syncList,       \* the settings it collected in ApMsrSyncList
    ap,             \* what each AP does next
    edi,            \* what its register points at
    stack,          \* whose frame is on ApStack
    mtrr,           \* where the fixed MTRRs of an AP come from
    msr             \* settings the synchronised MSRs of an AP hold

bspVars == <<map, AmdSmee, bsp, ApNumBfLaunch, threadEn, MemoryContentCopy,
             bspMsr, syncList>>
apVars == <<ap, edi, stack, mtrr, msr>>
vars == <<map, AmdSmee, bsp, ApNumBfLaunch, threadEn, region,
          MemoryContentCopy, bspMsr, syncList, ap, edi, stack, mtrr, msr>>

(* What the region holds: the host's data; or the startup code, the MTRR   *)
(* list and the counter, the word behind the near jump.                    *)
HostData == [code |-> "host", mtrrs |-> "host", sync |-> 0]
NoFrame == << >>

Init ==
    /\ map \in Maps /\ AmdSmee \in Smee
    /\ bsp = "msrs" /\ ApNumBfLaunch = 0
    /\ threadEn = {}
    /\ region = HostData /\ MemoryContentCopy = "empty"
    /\ bspMsr = {} /\ syncList = {}
    /\ ap = [t \in Threads |-> "off"]
    /\ edi = [t \in Threads |-> "none"]
    /\ stack = NoFrame
    /\ mtrr = [t \in Threads |-> "reset"]
    /\ msr = [t \in Threads |-> {}]

-----------------------------------------------------------------------------
(***************************************************************************)
(* The BSP.                                                                *)
(***************************************************************************)

(* It sets its own MSRs, then reads those of ApMsrSyncList back. *)
CollectMsrs ==
    /\ bsp = "msrs"
    /\ bspMsr' = bspMsr \cup {"misc", "cac", "c6", "cpb"}
    /\ syncList' = bspMsr'
    /\ bsp' = "setup"
    /\ UNCHANGED <<map, AmdSmee, ApNumBfLaunch, threadEn, region,
                   MemoryContentCopy, apVars>>

(* Mutant of SetupApStartupRegion: the region is not saved. *)
SetupSavesNothing ==
    /\ bsp = "setup"
    /\ region' = [code |-> "startup", mtrrs |-> "bsp", sync |-> 0]
    /\ bsp' = "launch"
    /\ UNCHANGED <<map, AmdSmee, ApNumBfLaunch, threadEn, MemoryContentCopy,
                   bspMsr, syncList, apVars>>

(* Save the region, clear it, and place the startup code, the counter and  *)
(* the MTRR list in it.  The 64 bit file copies the list from the address  *)
(* of the local variable that holds the list's address.                    *)
SetupApStartupRegion ==
    /\ bsp = "setup"
    /\ MemoryContentCopy' = region.code
    /\ region' = [code |-> "startup",
                  mtrrs |-> IF Is64Bit THEN "bspstack" ELSE "bsp",
                  sync |-> 0]
    /\ bsp' = "launch"
    /\ UNCHANGED <<map, AmdSmee, ApNumBfLaunch, threadEn, bspMsr, syncList, apVars>>

(* SmuLaunchThreadV13: a thread the map has and that does not run yet is   *)
(* started, for any other an error is returned.                            *)
SmuLaunchThread(t) ==
    IF t \in Launchable[map] /\ Bit[map][t] \notin threadEn
    THEN /\ threadEn' = threadEn \cup {Bit[map][t]}
         /\ ap' = [ap EXCEPT ![t] = "reset"]
    ELSE UNCHANGED <<threadEn, ap>>

(* The body of the loops: count, launch, whatever SmuLaunchThread returns. *)
LaunchNext ==
    /\ bsp = "launch" /\ ApNumBfLaunch < Len(Order[map])
    /\ ApNumBfLaunch' = ApNumBfLaunch + 1
    /\ SmuLaunchThread(Order[map][ApNumBfLaunch + 1])
    /\ bsp' = "wait"
    /\ UNCHANGED <<map, AmdSmee, region, MemoryContentCopy, bspMsr, syncList,
                   edi, stack, mtrr, msr>>

(* Mutant of Launched: the BSP does not wait for the counter. *)
LaunchedAtOnce ==
    /\ bsp = "wait"
    /\ bsp' = "launch"
    /\ UNCHANGED <<map, AmdSmee, ApNumBfLaunch, threadEn, region,
                   MemoryContentCopy, bspMsr, syncList, apVars>>

(* The spin on ApSyncFlag. *)
Launched ==
    /\ bsp = "wait" /\ region.sync = ApNumBfLaunch
    /\ bsp' = "launch"
    /\ UNCHANGED <<map, AmdSmee, ApNumBfLaunch, threadEn, region,
                   MemoryContentCopy, bspMsr, syncList, apVars>>

(* CcxEnableSmee, once the loops are over. *)
CcxEnableSmee ==
    /\ bsp = "launch" /\ ApNumBfLaunch = Len(Order[map])
    /\ bspMsr' = IF AmdSmee THEN bspMsr \cup {"smee"} ELSE bspMsr
    /\ bsp' = "sync"
    /\ UNCHANGED <<map, AmdSmee, ApNumBfLaunch, threadEn, region,
                   MemoryContentCopy, syncList, apVars>>

(* RestoreResetVector: wait for the counter, copy the host's data back. *)
RestoreResetVector ==
    /\ bsp = "sync" /\ region.sync = ApNumBfLaunch
    /\ region' = [HostData EXCEPT !.code = MemoryContentCopy]
    /\ bsp' = "done"
    /\ UNCHANGED <<map, AmdSmee, ApNumBfLaunch, threadEn, MemoryContentCopy,
                   bspMsr, syncList, apVars>>

-----------------------------------------------------------------------------
(***************************************************************************)
(* An AP.  It is lost when it executes something else than the startup     *)
(* code, or returns with another thread's frame on the stack.              *)
(***************************************************************************)
Go(t, from, to) == ap[t] = from /\ ap' = [ap EXCEPT ![t] = to]

(* The code at the reset vector loads EDI and jumps to ApAsmCode.  The 64  *)
(* bit startup code is given the address of a parameter of                 *)
(* SetupApStartupRegion, which has returned: the AP has neither stack nor  *)
(* counter.                                                                *)
ApStartupCode(t) ==
    /\ Go(t, "reset", IF region.code = "startup" /\ ~Is64Bit THEN "msrs" ELSE "lost")
    /\ edi' = [edi EXCEPT ![t] =
                 IF region.code # "startup" THEN "none"
                 ELSE IF Is64Bit THEN "parameter" ELSE "ApLaunchGlobalData"]
    /\ UNCHANGED <<bspVars, region, stack, mtrr, msr>>

(* ApAsmCode: the MTRRs are loaded from the list in the region. *)
SyncMtrrs(t) ==
    /\ Go(t, "msrs", "callreg")
    /\ mtrr' = [mtrr EXCEPT ![t] = region.mtrrs]
    /\ UNCHANGED <<bspVars, region, edi, stack, msr>>

(* The two calls into C push a frame ... *)
Call(t, from, to) ==
    /\ Go(t, from, to)
    /\ stack' = t
    /\ UNCHANGED <<bspVars, region, edi, mtrr, msr>>

CallRegSetting(t) == Call(t, "callreg", "RegSetting")
CallEntryPoint(t) == Call(t, "callentry", "ApEntryPointInC")

(* ... and return through it. *)
Return(t, from, to) ==
    /\ Go(t, from, IF stack = t THEN to ELSE "lost")
    /\ stack' = NoFrame
    /\ UNCHANGED <<bspVars, region, edi, mtrr>>

RegSettingBeforeLaunchingNextThread(t) ==
    /\ Return(t, "RegSetting", "callentry")
    /\ UNCHANGED msr

(* ApEntryPointInC: microcode, register tables, MCA, CAC weights, and the  *)
(* MSRs of ApMsrSyncList.                                                  *)
ApEntryPointInC(t) ==
    /\ Return(t, "ApEntryPointInC", "farptr")
    /\ msr' = [msr EXCEPT ![t] = syncList]

(* The base of the stack holds the pointer for the jump to the resident    *)
(* GDT.                                                                    *)
StoreFarPointer(t) == Call(t, "farptr", "farjmp")
JumpToNewGdt(t) == Return(t, "farjmp", "inc") /\ UNCHANGED msr

(* Mutant of AllowNextThread: the counter is not incremented. *)
HaltUncounted(t) ==
    /\ Go(t, "inc", "hlt")
    /\ UNCHANGED <<bspVars, region, edi, stack, mtrr, msr>>

(* lock inc WORD [AllowToLaunchNextThreadLocation], then halt for good. *)
AllowNextThread(t) ==
    /\ Go(t, "inc", "hlt")
    /\ region' = [region EXCEPT !.sync = (@ + 1) % Uint16]
    /\ UNCHANGED <<bspVars, edi, stack, mtrr, msr>>

-----------------------------------------------------------------------------
BspStep ==
    \/ CollectMsrs \/ SetupApStartupRegion
    \/ LaunchNext \/ Launched
    \/ CcxEnableSmee \/ RestoreResetVector

ApStep(t) ==
    \/ ApStartupCode(t) \/ SyncMtrrs(t)
    \/ CallRegSetting(t) \/ RegSettingBeforeLaunchingNextThread(t)
    \/ CallEntryPoint(t) \/ ApEntryPointInC(t)
    \/ StoreFarPointer(t) \/ JumpToNewGdt(t)
    \/ AllowNextThread(t)

Next == BspStep \/ \E t \in Threads : ApStep(t)

Spec == Init /\ [][Next]_vars

(* Each hardware thread runs on its own clock. *)
Fairness == WF_vars(BspStep) /\ \A t \in Threads : WF_vars(ApStep(t))
FairSpec == Spec /\ Fairness
-----------------------------------------------------------------------------
(***************************************************************************)
(* Properties.                                                             *)
(***************************************************************************)
OnStack == {"RegSetting", "ApEntryPointInC", "farjmp"}
InAsm == {"msrs", "callreg", "callentry", "farptr", "inc"}
Running(t) == ap[t] \in {"reset"} \cup InAsm \cup OnStack

(* Type invariant. *)
TypeOK ==
    /\ map \in Maps /\ AmdSmee \in Smee
    /\ bsp \in {"msrs", "setup", "launch", "wait", "sync", "done"}
    /\ ApNumBfLaunch \in 0 .. Len(Order[map])
    /\ region \in [code : {"host", "startup", "empty"},
                   mtrrs : {"host", "bsp", "bspstack"}, sync : 0 .. Uint16 - 1]
    /\ MemoryContentCopy \in {"empty", "host"}
    /\ ap \in [Threads -> {"off", "reset", "hlt", "lost"} \cup InAsm \cup OnStack]
    /\ stack \in Threads \cup {NoFrame}

(* ApStack has one user at a time: from its first instruction at the reset *)
(* vector until it increments the counter, an AP runs alone.               *)
OneApAtATime == \A t, u \in Threads : Running(t) /\ Running(u) => t = u

(* No AP executes the host's data at the reset vector, and none returns    *)
(* through another AP's frame.                                             *)
NoApLost == \A t \in Threads : ap[t] # "lost"

(* When InitializeCcxAndLaunchAps is over the host finds its data at the   *)
(* reset vector, and no AP, late with its counter, writes to it again.     *)
HostDataRestored == bsp = "done" => region = HostData

(* Every AP that halted has loaded the MTRR list SetupApStartupRegion      *)
(* prepared, which UpdateApMtrrSettings edited beforehand.                 *)
MtrrsMatch == \A t \in Threads : ap[t] = "hlt" => mtrr[t] = "bsp"

(* The launch implements its abstract specification. *)
Abs == INSTANCE ApLaunchAbs WITH
         vector <- IF region # HostData THEN "taken"
                   ELSE IF bsp = "done" THEN "returned" ELSE "host",
         running <- {t \in Threads : Running(t)},
         finished <- {t \in Threads : ap[t] = "hlt"}

(* Seen from outside, threads run the code at the reset vector one at a    *)
(* time, each at most once, between the moment the memory is taken from    *)
(* the host and the moment it is given back.                               *)
LaunchImplemented == Abs!Spec

(* When the topology has every thread the loops go through, each of them   *)
(* is launched and halts, and the BSP gets past the loops.                 *)
AllLaunched ==
    (\A i \in 1 .. Len(Order[map]) : Order[map][i] \in Launchable[map]) =>
    <>(bsp = "done" /\ \A i \in 1 .. Len(Order[map]) : ap[Order[map][i]] = "hlt")
=============================================================================
