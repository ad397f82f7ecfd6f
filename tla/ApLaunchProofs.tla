--------------------------- MODULE ApLaunchProofs ---------------------------
(***************************************************************************)
(* Proofs about the launch of the application processors with the 32 bit   *)
(* files, for every topology and every launch order, threads that          *)
(* SmuLaunchThread refuses included.                                       *)
(***************************************************************************)
EXTENDS ApLaunch, TLAPS

Quiet == \A t \in Threads : ~Running(t)

(***************************************************************************)
(* The inductive invariant.  While the BSP waits for the k-th thread       *)
(* either nothing runs and the counter is k, or the counter is k - 1 and   *)
(* the k-th thread alone may run; everywhere else nothing runs.            *)
(***************************************************************************)
BspInv ==
    /\ bsp \in {"msrs", "setup"} =>
         /\ Quiet /\ region = HostData /\ ApNumBfLaunch = 0
         /\ \A t \in Threads : ap[t] = "off"
    /\ bsp \in {"launch", "wait", "sync"} =>
         /\ region.code = "startup" /\ region.mtrrs = "bsp"
         /\ MemoryContentCopy = "host"
    /\ bsp \in {"launch", "sync"} => Quiet /\ region.sync = ApNumBfLaunch
    /\ bsp = "wait" =>
         /\ ApNumBfLaunch \in 1 .. Len(Order[map])
         /\ \/ Quiet /\ region.sync = ApNumBfLaunch
            \/ /\ region.sync = ApNumBfLaunch - 1
               /\ \A t \in Threads : Running(t) => t = Order[map][ApNumBfLaunch]
    /\ bsp = "done" => Quiet /\ region = HostData

ApInv ==
    \A t \in Threads :
      /\ ap[t] \in OnStack => stack = t
      /\ ap[t] # "lost"
      /\ ap[t] \in {"callreg", "callentry", "farptr", "inc", "hlt"} \cup OnStack =>
           mtrr[t] = "bsp"

IInv == TypeOK /\ mtrr \in [Threads -> {"reset", "host", "bsp", "bspstack"}] /\ BspInv /\ ApInv

LEMMA InvInit == Init => IInv
  <1> SUFFICES ASSUME Init PROVE IInv
    OBVIOUS
  <1>1. Order[map] \in Seq(Threads) /\ Uint16 \in Nat \ {0} /\ Len(Order[map]) \in Nat
    BY OrderAssumption DEF Init
  <1>2. \A t \in Threads : ap[t] = "off"
    BY DEF Init
  <1>3. TypeOK
    BY <1>1 DEF Init, TypeOK, HostData
  <1>4. BspInv
    BY <1>2 DEF Init, BspInv, Quiet, Running, InAsm, OnStack
  <1>5. ApInv
    BY <1>2 DEF ApInv, OnStack
  <1>6. mtrr \in [Threads -> {"reset", "host", "bsp", "bspstack"}]
    BY DEF Init
  <1>7. QED
    BY <1>3, <1>4, <1>5, <1>6 DEF IInv

(* The steps of the BSP. *)
LEMMA InvBsp ==
  ASSUME ~Is64Bit, IInv, BspStep
  PROVE  IInv'
  <1> USE DEF IInv
  <1>1. /\ Order[map] \in Seq(Threads) /\ Uint16 \in Nat \ {0}
        /\ Len(Order[map]) \in Nat /\ Len(Order[map]) < Uint16
    BY OrderAssumption DEF TypeOK
  <1>2. CASE CollectMsrs
    BY <1>2 DEF CollectMsrs, apVars, TypeOK, BspInv, ApInv, Quiet, Running
  <1>3. CASE SetupApStartupRegion
    BY <1>1, <1>3 DEF SetupApStartupRegion, apVars, TypeOK, BspInv, ApInv, Quiet,
                      Running, HostData
  <1>4. CASE LaunchNext
    <2> DEFINE k == ApNumBfLaunch + 1
    <2>1. /\ k \in 1 .. Len(Order[map]) /\ Order[map][k] \in Threads
          /\ ApNumBfLaunch' = k /\ bsp' = "wait" /\ bsp = "launch"
          /\ map' = map /\ AmdSmee' = AmdSmee /\ region' = region
          /\ MemoryContentCopy' = MemoryContentCopy
          /\ stack' = stack /\ mtrr' = mtrr
      BY <1>1, <1>4 DEF LaunchNext, TypeOK
    <2>2. ap' = ap \/ ap' = [ap EXCEPT ![Order[map][k]] = "reset"]
      BY <1>4 DEF LaunchNext, SmuLaunchThread
    <2>3. Quiet /\ region.sync = k - 1 /\ region.code = "startup" /\ region.mtrrs = "bsp"
          /\ MemoryContentCopy = "host"
      BY <2>1 DEF BspInv, TypeOK
    <2>4. \A t \in Threads : ap'[t] = ap[t] \/ (ap'[t] = "reset" /\ t = Order[map][k])
      BY <2>1, <2>2 DEF TypeOK
    <2>5. TypeOK'
      BY <2>1, <2>2 DEF TypeOK
    <2>6. BspInv'
      <3>1. \A t \in Threads : Running(t)' => t = Order[map][k]
        BY <2>3, <2>4 DEF Quiet, Running
      <3>2. QED
        BY <2>1, <2>3, <3>1 DEF BspInv
    <2>7. ApInv'
      BY <2>1, <2>4 DEF ApInv, OnStack
    <2>8. QED
      BY <2>1, <2>5, <2>6, <2>7
  <1>5. CASE Launched
    BY <1>5 DEF Launched, apVars, TypeOK, BspInv, ApInv, Quiet, Running
  <1>6. CASE CcxEnableSmee
    BY <1>6 DEF CcxEnableSmee, apVars, TypeOK, BspInv, ApInv, Quiet, Running
  <1>7. CASE RestoreResetVector
    <2>1. region' = HostData
      BY <1>7 DEF RestoreResetVector, BspInv, HostData
    <2>2. HostData \in [code : {"host", "startup", "empty"},
                        mtrrs : {"host", "bsp", "bspstack"}, sync : 0 .. Uint16 - 1]
      BY <1>1 DEF HostData
    <2>3. QED
      BY <1>7, <2>1, <2>2 DEF RestoreResetVector, apVars, TypeOK, BspInv, ApInv, Quiet, Running
  <1>8. QED
    BY <1>2, <1>3, <1>4, <1>5, <1>6, <1>7 DEF BspStep

(***************************************************************************)
(* What the steps of an AP have in common: a running AP is the thread the  *)
(* BSP waits for.                                                          *)
(***************************************************************************)
LEMMA RunningAlone ==
  ASSUME IInv, NEW t \in Threads, Running(t)
  PROVE  /\ bsp = "wait" /\ t = Order[map][ApNumBfLaunch]
         /\ region.sync = ApNumBfLaunch - 1
         /\ ApNumBfLaunch \in 1 .. Len(Order[map])
         /\ region.code = "startup" /\ region.mtrrs = "bsp"
         /\ \A u \in Threads : u # t => ~Running(u)
  <1>1. bsp = "wait"
    BY DEF IInv, BspInv, Quiet, TypeOK
  <1>2. QED
    BY <1>1 DEF IInv, BspInv, Quiet

(* A step in which thread t goes on running and the BSP does nothing. *)
LEMMA StillRunning ==
  ASSUME IInv, NEW t \in Threads, Running(t), Running(t)',
         ap' = [ap EXCEPT ![t] = ap'[t]],
         UNCHANGED <<bspVars, region>>
  PROVE  BspInv'
  <1>1. \A u \in Threads : Running(u)' => u = t
    BY RunningAlone DEF IInv, TypeOK, Running
  <1>2. /\ bsp' = "wait" /\ map' = map /\ ApNumBfLaunch' = ApNumBfLaunch
        /\ region' = region /\ MemoryContentCopy' = MemoryContentCopy
    BY RunningAlone DEF bspVars
  <1>3. MemoryContentCopy = "host"
    BY RunningAlone DEF IInv, BspInv
  <1>4. QED
    BY <1>1, <1>2, <1>3, RunningAlone DEF BspInv

LEMMA InvAp ==
  ASSUME ~Is64Bit, IInv, NEW t \in Threads, ApStep(t)
  PROVE  IInv'
  <1> USE DEF InAsm, OnStack
  <1>0. /\ Order[map] \in Seq(Threads) /\ Uint16 \in Nat \ {0}
        /\ Len(Order[map]) \in Nat /\ Len(Order[map]) < Uint16
    BY OrderAssumption DEF IInv, TypeOK
  <1>a. ap[t] \in {"reset", "msrs", "callreg", "RegSetting", "callentry",
                   "ApEntryPointInC", "farptr", "farjmp", "inc"}
    BY DEF ApStep, ApStartupCode, SyncMtrrs, CallRegSetting, Call,
           RegSettingBeforeLaunchingNextThread, Return, CallEntryPoint,
           ApEntryPointInC, StoreFarPointer, JumpToNewGdt, AllowNextThread, Go
  <1>b. Running(t)
    BY <1>a DEF Running
  <1>c. \A u \in Threads : u # t => ap[u] \notin OnStack
    BY <1>b, RunningAlone DEF Running
  <1>1. CASE ~AllowNextThread(t)
    <2>1. UNCHANGED <<bspVars, region>>
      BY <1>1 DEF ApStep, ApStartupCode, SyncMtrrs, CallRegSetting, Call,
           RegSettingBeforeLaunchingNextThread, Return, CallEntryPoint,
           ApEntryPointInC, StoreFarPointer, JumpToNewGdt, Go
    <2>2. /\ ap' = [ap EXCEPT ![t] = ap'[t]]
          /\ ap'[t] \in {"msrs", "callreg", "RegSetting", "callentry",
                         "ApEntryPointInC", "farptr", "farjmp", "inc"}
          /\ ap'[t] \in OnStack => stack' = t
          /\ stack' \in Threads \cup {NoFrame}
          /\ mtrr' \in [Threads -> {"reset", "host", "bsp", "bspstack"}]
          /\ \A u \in Threads : u # t => mtrr'[u] = mtrr[u]
          /\ ap'[t] # "msrs" => mtrr'[t] = "bsp"
      <3>1. ap \in [Threads -> {"off", "reset", "hlt", "lost"} \cup InAsm \cup OnStack]
            /\ mtrr \in [Threads -> {"reset", "host", "bsp", "bspstack"}]
            /\ region.code = "startup" /\ region.mtrrs = "bsp"
            /\ (ap[t] \in OnStack => stack = t)
            /\ (ap[t] \notin {"reset", "msrs"} => mtrr[t] = "bsp")
            /\ stack \in Threads \cup {NoFrame}
        BY <1>a, <1>b, RunningAlone DEF IInv, TypeOK, ApInv
      <3>2. CASE ApStartupCode(t)
        BY <3>1, <3>2 DEF ApStartupCode, Go
      <3>3. CASE SyncMtrrs(t)
        BY <3>1, <3>3 DEF SyncMtrrs, Go
      <3>4. CASE CallRegSetting(t) \/ CallEntryPoint(t) \/ StoreFarPointer(t)
        BY <3>1, <3>4 DEF CallRegSetting, CallEntryPoint, StoreFarPointer, Call, Go
      <3>5. CASE \/ RegSettingBeforeLaunchingNextThread(t)
                 \/ ApEntryPointInC(t) \/ JumpToNewGdt(t)
        BY <3>1, <3>5 DEF RegSettingBeforeLaunchingNextThread, ApEntryPointInC,
                          JumpToNewGdt, Return, Go
      <3>6. QED
        BY <1>1, <3>2, <3>3, <3>4, <3>5 DEF ApStep
    <2>3. Running(t)'
      BY <2>2 DEF Running
    <2>4. BspInv'
      BY <1>b, <2>1, <2>2, <2>3, StillRunning
    <2>5. \A u \in Threads : u # t => ap'[u] = ap[u]
      BY <2>2 DEF IInv, TypeOK
    <2>6. ApInv'
      BY <1>c, <2>2, <2>5 DEF ApInv, IInv
    <2>7. TypeOK'
      BY <2>1, <2>2 DEF TypeOK, IInv, bspVars
    <2>8. QED
      BY <2>2, <2>4, <2>6, <2>7 DEF IInv
  <1>2. CASE AllowNextThread(t)
    <2>1. /\ ap' = [ap EXCEPT ![t] = "hlt"] /\ stack' = stack /\ mtrr' = mtrr
          /\ region' = [region EXCEPT !.sync = (@ + 1) % Uint16]
          /\ UNCHANGED bspVars
      BY <1>2 DEF AllowNextThread, Go
    <2>2. (region.sync + 1) % Uint16 = ApNumBfLaunch
      <3>1. region.sync + 1 = ApNumBfLaunch /\ ApNumBfLaunch \in 0 .. Uint16 - 1
        BY <1>0, <1>b, RunningAlone DEF IInv, TypeOK
      <3>2. QED
        BY <1>0, <3>1
    <2>3. /\ region'.sync = ApNumBfLaunch /\ region'.code = "startup"
          /\ region'.mtrrs = "bsp"
      BY <1>b, <2>1, <2>2, RunningAlone DEF IInv, TypeOK
    <2>4. Quiet'
      BY <1>b, <2>1, RunningAlone DEF Quiet, Running, IInv, TypeOK
    <2>5. bsp' = "wait" /\ ApNumBfLaunch' = ApNumBfLaunch /\ map' = map
          /\ MemoryContentCopy' = MemoryContentCopy /\ AmdSmee' = AmdSmee
          /\ MemoryContentCopy = "host" /\ ApNumBfLaunch \in 1 .. Len(Order[map])
      BY <1>b, <2>1, RunningAlone DEF bspVars, IInv, BspInv
    <2>6. BspInv'
      BY <2>3, <2>4, <2>5 DEF BspInv
    <2>7. ap[t] = "inc"
      BY <1>2 DEF AllowNextThread, Go
    <2>8. ApInv'
      BY <2>1, <2>7 DEF ApInv, IInv, TypeOK
    <2>9. region' \in [code : {"host", "startup", "empty"},
                       mtrrs : {"host", "bsp", "bspstack"}, sync : 0 .. Uint16 - 1]
      BY <1>0, <2>1, <2>2, <2>5 DEF IInv, TypeOK
    <2>10. TypeOK'
      BY <2>1, <2>5, <2>9 DEF TypeOK, IInv, bspVars
    <2>11. QED
      BY <2>1, <2>6, <2>8, <2>10 DEF IInv
  <1>3. QED
    BY <1>1, <1>2

LEMMA InvStep ==
  ASSUME ~Is64Bit, IInv, [Next]_vars
  PROVE  IInv'
  <1>1. CASE UNCHANGED vars
    BY <1>1 DEF vars, IInv, TypeOK, BspInv, ApInv, Quiet, Running
  <1>2. QED
    BY <1>1, InvBsp, InvAp DEF Next

(* For every topology and launch order, with the 32 bit files: the APs use *)
(* the one stack one after the other, none leaves the startup code, the    *)
(* host finds its data at the reset vector afterwards, and every AP that   *)
(* halted has the BSP's MTRRs.                                             *)
THEOREM LaunchSafe ==
  ASSUME ~Is64Bit
  PROVE  Spec => [](TypeOK /\ OneApAtATime /\ NoApLost /\ HostDataRestored /\ MtrrsMatch)
  <1>1. Init => IInv
    BY InvInit
  <1>2. IInv /\ [Next]_vars => IInv'
    BY InvStep
  <1>3. IInv => TypeOK /\ OneApAtATime /\ NoApLost /\ HostDataRestored /\ MtrrsMatch
    <2> SUFFICES ASSUME IInv
                 PROVE  TypeOK /\ OneApAtATime /\ NoApLost /\ HostDataRestored /\ MtrrsMatch
      OBVIOUS
    <2>1. OneApAtATime
      BY RunningAlone DEF OneApAtATime
    <2>2. NoApLost /\ MtrrsMatch
      BY DEF IInv, ApInv, NoApLost, MtrrsMatch
    <2>3. TypeOK /\ HostDataRestored
      BY DEF IInv, BspInv, HostDataRestored
    <2>4. QED
      BY <2>1, <2>2, <2>3
  <1>4. QED
    BY <1>1, <1>2, <1>3, PTL DEF Spec

(* Whatever the APs did at the reset vector and however the BSP's steps    *)
(* and theirs interleave, the host's data is back there when the launch is *)
(* over (InitializeCcxAndLaunchAps).                                       *)
THEOREM LaunchRestores ==
  ASSUME ~Is64Bit
  PROVE  Spec => []HostDataRestored
  BY LaunchSafe, PTL

(* A thread that was started has its ThreadEn bit set, so SmuLaunchThread  *)
(* does not start it again.                                                *)
Enabled == \A t \in Threads : ap[t] # "off" => Bit[map][t] \in threadEn

LEMMA EnabledStep ==
  ASSUME IInv, Enabled, [Next]_vars
  PROVE  Enabled'
  <1> ap \in [Threads -> {"off", "reset", "hlt", "lost"} \cup InAsm \cup OnStack]
    BY DEF IInv, TypeOK
  <1>1. CASE (BspStep /\ ~LaunchNext) \/ UNCHANGED vars
    BY <1>1 DEF BspStep, CollectMsrs, SetupApStartupRegion, Launched, CcxEnableSmee,
                RestoreResetVector, apVars, vars, Enabled
  <1>2. CASE LaunchNext
    BY <1>2 DEF LaunchNext, SmuLaunchThread, Enabled
  <1>3. ASSUME NEW t \in Threads, ApStep(t) PROVE Enabled'
    <2>1. UNCHANGED bspVars
      BY <1>3 DEF ApStep, ApStartupCode, SyncMtrrs, CallRegSetting, Call,
           RegSettingBeforeLaunchingNextThread, Return, CallEntryPoint,
           ApEntryPointInC, StoreFarPointer, JumpToNewGdt, AllowNextThread, Go
    <2>2. ap[t] # "off" /\ \A u \in Threads : u # t => ap'[u] = ap[u]
      BY <1>3, ZenonT(40) DEF ApStep, ApStartupCode, SyncMtrrs, CallRegSetting, Call,
           RegSettingBeforeLaunchingNextThread, Return, CallEntryPoint,
           ApEntryPointInC, StoreFarPointer, JumpToNewGdt, AllowNextThread, Go
    <2>3. QED
      BY <2>1, <2>2 DEF Enabled, bspVars
  <1>4. QED
    BY <1>1, <1>2, <1>3 DEF Next

Vector == IF region # HostData THEN "taken"
          ELSE IF bsp = "done" THEN "returned" ELSE "host"
RunningSet == {t \in Threads : Running(t)}
Finished == {t \in Threads : ap[t] = "hlt"}

(* Every step of the launch is a step of ApLaunchAbs or changes nothing    *)
(* that is seen from outside.                                              *)
LEMMA AbsStep ==
  ASSUME ~Is64Bit, IInv, IInv', Enabled, [Next]_vars
  PROVE  [Abs!Next]_(Abs!vars)
  <1> USE DEF Vector, RunningSet, Finished
  <1>0. ap \in [Threads -> {"off", "reset", "hlt", "lost"} \cup InAsm \cup OnStack]
    BY SMTT(30) DEF IInv, TypeOK
  <1>s. SUFFICES \/ Vector' = Vector /\ RunningSet' = RunningSet /\ Finished' = Finished
                 \/ /\ Vector = "host" /\ Vector' = "taken"
                    /\ RunningSet' = RunningSet /\ Finished' = Finished
                 \/ /\ Vector = "taken" /\ Vector' = "returned" /\ RunningSet = {}
                    /\ RunningSet' = RunningSet /\ Finished' = Finished
                 \/ \E t \in Threads :
                      \/ /\ Vector = "taken" /\ RunningSet = {} /\ t \notin Finished
                         /\ RunningSet' = {t} /\ Vector' = Vector /\ Finished' = Finished
                      \/ /\ RunningSet = {t} /\ RunningSet' = {} /\ Vector' = Vector
                         /\ Finished' = Finished \cup {t}
    BY DEF Abs!Next, Abs!vars, Abs!Take, Abs!GiveBack, Abs!Start, Abs!Finish
  <1>1. CASE \/ CollectMsrs \/ Launched \/ CcxEnableSmee \/ UNCHANGED vars
    <2>1. ap' = ap /\ region' = region /\ (bsp' = "done" <=> bsp = "done")
      BY <1>1 DEF CollectMsrs, Launched, CcxEnableSmee, vars, apVars
    <2>2. QED
      BY <2>1 DEF Running
  <1>2. CASE SetupApStartupRegion
    <2>1. ap' = ap /\ region = HostData /\ bsp # "done" /\ region'.code = "startup"
      BY <1>2 DEF SetupApStartupRegion, apVars, IInv, BspInv
    <2>2. Vector = "host" /\ Vector' = "taken"
      BY <2>1 DEF HostData
    <2>3. QED
      BY <2>1, <2>2 DEF Running
  <1>3. CASE RestoreResetVector
    <2>1. /\ ap' = ap /\ region'= HostData /\ bsp' = "done"
          /\ region.code = "startup" /\ Quiet
      BY <1>3 DEF RestoreResetVector, apVars, IInv, BspInv
    <2>2. Vector = "taken" /\ Vector' = "returned"
      BY <2>1 DEF HostData
    <2>3. RunningSet = {}
      BY <2>1, SMTT(30) DEF Quiet
    <2>4. QED
      BY <2>1, <2>2, <2>3 DEF Running
  <1>4. CASE LaunchNext
    <2> DEFINE u == Order[map][ApNumBfLaunch + 1]
    <2>1. /\ region' = region /\ region.code = "startup" /\ Quiet /\ u \in Threads
          /\ bsp # "done" /\ bsp' # "done"
      BY <1>4, OrderAssumption DEF LaunchNext, IInv, BspInv, TypeOK
    <2>2. Vector = "taken" /\ Vector' = "taken" /\ RunningSet = {}
      BY <2>1 DEF HostData, Quiet
    <2>3. CASE ap' = ap
      BY <2>1, <2>2, <2>3 DEF Running
    <2>4. CASE ap' = [ap EXCEPT ![u] = "reset"] /\ ap[u] = "off"
      <3>1. RunningSet' = {u}
        BY <1>0, <2>1, <2>4 DEF Running, Quiet
      <3>2. Finished' = Finished /\ u \notin Finished
        BY <1>0, <2>1, <2>4
      <3>3. QED
        BY <2>1, <2>2, <3>1, <3>2
    <2>5. QED
      BY <1>4, <2>1, <2>3, <2>4, SMTT(30) DEF LaunchNext, SmuLaunchThread, Enabled
  <1>5. ASSUME NEW t \in Threads, ApStep(t), ~AllowNextThread(t)
        PROVE  Vector' = Vector /\ RunningSet' = RunningSet /\ Finished' = Finished
    <2> USE DEF InAsm, OnStack
    <2>1. UNCHANGED <<bspVars, region>>
      BY <1>5 DEF ApStep, ApStartupCode, SyncMtrrs, CallRegSetting, Call,
           RegSettingBeforeLaunchingNextThread, Return, CallEntryPoint,
           ApEntryPointInC, StoreFarPointer, JumpToNewGdt, Go
    <2>2. /\ \A u \in Threads : u # t => ap'[u] = ap[u]
          /\ ap[t] \notin {"off", "hlt", "lost"} /\ ap'[t] \notin {"off", "hlt"}
      BY <1>0, <1>5 DEF ApStep, ApStartupCode, SyncMtrrs, CallRegSetting, Call,
           RegSettingBeforeLaunchingNextThread, Return, CallEntryPoint,
           ApEntryPointInC, StoreFarPointer, JumpToNewGdt, Go
    <2>3. ap'[t] # "lost" /\ ap' \in [Threads -> {"off", "reset", "hlt", "lost"} \cup InAsm \cup OnStack]
      BY DEF IInv, ApInv, TypeOK
    <2>4. Running(t) /\ Running(t)'
      BY <1>0, <2>2, <2>3 DEF Running
    <2>5. \A u \in Threads : Running(u)' <=> Running(u)
      BY <2>2, <2>4 DEF Running
    <2>6. QED
      BY <2>1, <2>2, <2>5 DEF bspVars
  <1>6. ASSUME NEW t \in Threads, AllowNextThread(t)
        PROVE  /\ RunningSet = {t} /\ RunningSet' = {} /\ Vector' = Vector
               /\ Finished' = Finished \cup {t}
    <2>1. Running(t) /\ ap' = [ap EXCEPT ![t] = "hlt"] /\ UNCHANGED bspVars
          /\ region' = [region EXCEPT !.sync = (@ + 1) % Uint16]
      BY <1>6 DEF AllowNextThread, Go, Running, InAsm
    <2>2. RunningSet = {t}
      BY <2>1, RunningAlone
    <2>3. RunningSet' = {}
      BY <1>0, <2>1, RunningAlone DEF Running, InAsm, OnStack
    <2>4. Finished' = Finished \cup {t}
      BY <1>0, <2>1
    <2>5. region.code = "startup" /\ region'.code = "startup"
      BY <2>1, RunningAlone DEF IInv, TypeOK
    <2>6. Vector' = Vector
      BY <2>5 DEF HostData
    <2>7. QED
      BY <2>2, <2>3, <2>4, <2>6
  <1>7. QED
    BY <1>1, <1>2, <1>3, <1>4, <1>5, <1>6 DEF Next, BspStep

(* With the 32 bit files the launch implements ApLaunchAbs, whatever the   *)
(* topology and whichever launches SmuLaunchThread refuses.                *)
THEOREM LaunchRefines ==
  ASSUME ~Is64Bit
  PROVE  Spec => LaunchImplemented
  <1>1. Init => IInv /\ Enabled
    BY InvInit DEF Init, Enabled
  <1>2. IInv /\ Enabled /\ [Next]_vars => IInv' /\ Enabled'
    BY InvStep, EnabledStep
  <1>3. Init => Abs!Init
    BY DEF Init, Abs!Init, Running, InAsm, OnStack
  <1>4. IInv /\ IInv' /\ Enabled /\ [Next]_vars => [Abs!Next]_(Abs!vars)
    BY AbsStep
  <1>5. QED
    BY <1>1, <1>2, <1>3, <1>4, PTL DEF Spec, LaunchImplemented, Abs!Spec
=============================================================================
