----------------------------- MODULE CcxThreads -----------------------------
(***************************************************************************)
(* How every thread gets its registers: InitializeCcxAndLaunchAps and      *)
(* ApEntryPointInC (CCX/Common/Ccx.c) with what they call, and the SRAT    *)
(* the host asks for afterwards (xPRF/CCX/xPrfCcx.c).                      *)
(*                                                                         *)
(* The BSP sets up itself, notes in the global data what the APs are to    *)
(* copy, and launches them one after another; ApLaunch shows that no two   *)
(* threads are in this code at once, so here an AP runs from its launch to *)
(* its last step before the next one starts.  The step of a thread is one  *)
(* procedure, and one entry where it works through the register tables.    *)
(*                                                                         *)
(* msr[t] is what thread t reads in each of its registers.  Registers      *)
(* programmed by one thread of a complex are complexMsr, the microcode     *)
(* level and the CAC weights are a core's.                                 *)
(***************************************************************************)
EXTENDS CcxTables, TLC, SequencesExt

CONSTANTS
    Systems,        \* the machines: map, InitPkg7 fields, silicon revision, reset values, ...
    InputBlocks,    \* CCXCLASS_INPUT_BLK as the host leaves it
    XAPIC_ID_MAX    \* 255 in the code: ids from here on do not fit the xAPIC

VARIABLES
    sys,            \* the machine
    blk,            \* CcxInputBlock
    pc,             \* the next procedure
    cur,            \* how many APs have been launched; 0 while the BSP sets up itself
    entry,          \* the next entry of the register tables
    msr, complexMsr, patch, cac,
    gd,             \* mApLaunchGlobalData
    out,            \* the RMP table in CcxOutputBlock: size and base in MB
    srat            \* what xPrfCreateSratApicEntry returned

vars == <<sys, blk, pc, cur, entry, msr, complexMsr, patch, cac, gd, out, srat>>

Threads == Looped(sys.map)
Order == LaunchOrder(sys.map)
ThreadsPerCore == NumberOfThreads(sys.map, 0)
ApicIdOf(t) == Zen4CalcLocalApic(sys.pkg, ThreadsPerCore, t)
CoreOf(t) == <<t[1], t[2], t[3], t[4]>>
ComplexOf(t) == <<t[1], t[2], t[3]>>

(* The thread that runs, and its roles. *)
Self == IF cur = 0 THEN Bsp ELSE Order[cur]
IsBsp == 8 \in msr[Self].APIC_BAR
ComputeUnitPrimary == xUslIsComputeUnitPrimary(ApicIdOf(Self), ThreadsPerCore)

ComplexMsrs == {"SIL_RESERVED2_908", "SIL_RESERVED2_922"}
SyncedMsrs == {"NAME_STRING", "SIL_RESERVED2_926", "SIL_RESERVED2_899", "SYS_CFG",
               "SIL_RESERVED2_912", "CSTATE_ADDRESS", "HWCR"}
ThreadMsrs ==
    SyncedMsrs \cup
    {"APIC_BAR", "MCA_CTL_MASK_LS", "MCA_CTL_MASK_IF", "MCA_CTL_MASK_L2", "MCA_CTL_MASK_FP",
     "MCA_CTL_MASK_CS", "MCA_CONFIG_LS", "MCA_CONFIG_CS", "SIL_RESERVED2_919", "SIL_RESERVED2_918",
     "SIL_RESERVED2_917", "OSVW_ID_Length", "OSVW_Status", "SIL_RESERVED_9", "SPEC_CTRL",
     "C00110DD_13", "C00110DD_18", "C00110DF", "C001102E", "C00110E5", "C00110E6", "C00110EC", "C00110E2"}

(* C00110DD is two registers here, one for each of the two bits that are touched.
   A thread's registers out of reset: all bits clear or all set, but the BSP flag. *)
ResetValue(t, name) ==
    IF name = "APIC_BAR"
    THEN (IF t = Bsp THEN {8} ELSE {}) \cup (IF sys.reset = {} THEN {} ELSE {11})
    ELSE sys.reset

Init ==
    /\ sys \in Systems
    /\ blk \in InputBlocks
    /\ pc = "CcxCacheInit" /\ cur = 0 /\ entry = 1
    /\ msr = [t \in Threads |-> [name \in ThreadMsrs |-> ResetValue(t, name)]]
    /\ complexMsr = [x \in {ComplexOf(t) : t \in Threads} |-> [name \in ComplexMsrs |-> sys.reset]]
    /\ patch = [c \in {CoreOf(t) : t \in Threads} |-> sys.patchLevel]
    /\ cac = [c \in {CoreOf(t) : t \in Threads} |-> "reset"]
    /\ gd = [UcodePatchAddr |-> 0, BspPatchLevel |-> 0, Criteria |-> << >>, CacWeights |-> "none",
             SyncData |-> << >>]
    /\ out = [AmdRmpTableSize |-> 0, AmdRmpTableBase |-> 0]
    /\ srat = << >>

(* xUslMsrAndThenOr and the like, by the thread that runs: f is a function from
   registers to [mask, data]. *)
Writes(f) ==
    msr' = [msr EXCEPT ![Self] =
              [name \in ThreadMsrs |-> IF name \in DOMAIN f
                                       THEN AndThenOr(@[name], f[name].mask, f[name].data)
                                       ELSE @[name]]]

Put(mask, data) == [mask |-> mask, data |-> data]
BitIf(n, b) == Put({n}, IF b THEN {n} ELSE {})
OrBit(n, b) == IF b THEN Put({n}, {n}) ELSE Put({}, {})

Go(from, to) == pc = from /\ pc' = to

(***************************************************************************)
(* The BSP, up to the register tables.                                     *)
(***************************************************************************)
(* Bits 18, 20: fixed and variable MTRRs; 19: their DRAM attributes may be
   modified, again cleared; 22: memory above 4 GB write-back, if bit 21 says
   there is a TOM2. *)
CcxCacheInit ==
    /\ Go("CcxCacheInit", "CcxSetBrandString")
    /\ Writes("SYS_CFG" :> Put({19}, {18, 20} \cup (IF 21 \in msr[Self].SYS_CFG THEN {22} ELSE {})))
    /\ UNCHANGED <<sys, blk, cur, entry, complexMsr, patch, cac, gd, out, srat>>

(* The name the SMU has, or the default one; the six registers as one. *)
CcxSetBrandString ==
    /\ Go("CcxSetBrandString", "SetApicMode")
    /\ \E name \in {{1}, {2}} : Writes("NAME_STRING" :> Put(All64, name))
    /\ UNCHANGED <<sys, blk, cur, entry, complexMsr, patch, cac, gd, out, srat>>

ThreadCount ==
    Len(sys.map) * NumberOfCcds(sys.map, 0) * NumberOfComplexes(sys.map, 0)
                 * NumberOfCores(sys.map, 0) * NumberOfThreads(sys.map, 0)

(* Auto is always x2APIC on Genoa. *)
SetApicMode ==
    /\ Go("SetApicMode", "LoadMicrocodePatch")
    /\ blk' = [blk EXCEPT
         !.AmdApicMode =
            CASE @ = "Auto" -> "x2Apic"
              [] @ = "Compatibility" /\ ThreadCount < XAPIC_ID_MAX -> "xApic"
              [] OTHER -> @,
         !.AmdDownCoreMode =
            IF blk.AmdApicMode = "xApic" /\ ThreadCount >= XAPIC_ID_MAX THEN "CCX_DOWN_CORE_7_0" ELSE @]
    /\ UNCHANGED <<sys, cur, entry, msr, complexMsr, patch, cac, gd, out, srat>>

(* The scan of bus 0: function 0 decides whether the others are looked at. *)
Scanned ==
    {d \in sys.devices :
        \E f0 \in sys.devices : f0.dev = d.dev /\ f0.fun = 0 /\ (d.fun = 0 \/ f0.multi)}

(* Whether the image is for this processor and the bridges it names are there;
   id 0 names none. *)
ValidateMicrocode ==
    /\ sys.image.processor
    /\ \A id \in {sys.image.nb, sys.image.sb} \ {0} : \E d \in Scanned : d.id = id

(* Writing the patch loader: the processor takes the image or keeps its level. *)
PatchedLevel(level) == IF sys.image.taken THEN sys.image.level ELSE level

LoadMicrocodePatch ==
    /\ Go("LoadMicrocodePatch", "GetCriteria")
    /\ gd' = [gd EXCEPT !.UcodePatchAddr = IF ValidateMicrocode THEN 1 ELSE 0]
    /\ patch' = IF ValidateMicrocode
                THEN [patch EXCEPT ![CoreOf(Self)] = PatchedLevel(@)] ELSE patch
    /\ UNCHANGED <<sys, blk, cur, entry, msr, complexMsr, cac, out, srat>>

GetPlatformFeatures(ApicMode, IbrsEn, BranchSampling) ==
    (CASE ApicMode = "xApic" -> AMD_PF_APIC [] ApicMode = "x2Apic" -> AMD_PF_X2APIC [] OTHER -> {})
        \cup (IF IbrsEn THEN {} ELSE AMD_PF_DIS_IBRS)
        \cup (IF BranchSampling THEN AMD_PF_BRANCH_SAMPLING ELSE {})

(* SocFindApplicableLogicalTableEntries: the revision's row, else the first
   row, B0; A1 parts have A0 cores. *)
LogicalRev == IF sys.rev \in {"A0", "A1"} THEN sys.rev ELSE "B0"

GetCriteria ==
    /\ Go("GetCriteria", "SetRegistersFromTables")
    /\ gd' = [gd EXCEPT !.Criteria =
                [feats |-> GetPlatformFeatures(blk.AmdApicMode, blk.AmdIbrsEn, blk.AmdBranchSampling),
                 family |-> AMD_FAMILY_GENOA, rev |-> LogicalRev,
                 coreFamily |-> AMD_CORE_FAMILY_19_ZEN4,
                 coreRev |-> IF LogicalRev = "B0" THEN "B0" ELSE "A0"]]
    /\ UNCHANGED <<sys, blk, cur, entry, msr, complexMsr, patch, cac, out, srat>>

(***************************************************************************)
(* Every thread.                                                           *)
(***************************************************************************)
Then(bspNext, apNext) == IF cur = 0 THEN bspNext ELSE apNext

(* One entry of the tables, an entry that does not apply passed over; at the
   end the next procedure. *)
SetRegistersFromTables ==
    LET entries == EntriesFor(ApicIdOf(Self), ThreadsPerCore, IsBsp)
        e == entries[entry]
    IN  /\ pc = "SetRegistersFromTables"
        /\ IF entry > Len(entries)
           THEN /\ entry' = 1
                /\ pc' = Then("RegSettingBeforeLaunchingNextThread", "CcxSetMca")
                /\ UNCHANGED <<msr, complexMsr>>
           ELSE /\ entry' = entry + 1
                /\ pc' = pc
                /\ \/ /\ ~Applies(gd.Criteria, e)
                      /\ UNCHANGED <<msr, complexMsr>>
                   \/ /\ Applies(gd.Criteria, e) /\ e.addr \in ThreadMsrs
                      /\ Writes(e.addr :> Put(e.mask, e.data))
                      /\ UNCHANGED complexMsr
                   \/ /\ Applies(gd.Criteria, e) /\ e.addr \in ComplexMsrs
                      /\ complexMsr' = [complexMsr EXCEPT ![ComplexOf(Self)][e.addr] =
                                           AndThenOr(@, e.mask, e.data)]
                      /\ UNCHANGED msr
        /\ UNCHANGED <<sys, blk, cur, patch, cac, gd, out, srat>>

(* CPUID's thread count less one is 0 when SMT is off. *)
RegSettingBeforeLaunchingNextThread ==
    /\ Go("RegSettingBeforeLaunchingNextThread", Then("CcxSetMiscMsrs", "ApMicrocode"))
    /\ Writes("SIL_RESERVED_9" :> OrBit(49, ThreadsPerCore = 1 \/ ~ComputeUnitPrimary)
              @@ "SPEC_CTRL" :> OrBit(2, gd.Criteria.coreFamily \cap AMD_CORE_FAMILY_19_ZEN4 # {}
                                         /\ ~ComputeUnitPrimary))
    /\ UNCHANGED <<sys, blk, cur, entry, complexMsr, patch, cac, gd, out, srat>>

(* McaXEnable (32) in every bank unless there are more than 32 of them,
   LogDeferredInMcaStat (34) where supported (5); FTI_ADDR_VIOL (2) of the
   mask of a CS bank. *)
CcxSetMca ==
    LET Config(bank) == Put({32} \cup (IF 5 \in msr[Self][bank] THEN {34} ELSE {}),
                            (IF sys.McaCount <= 32 THEN {32} ELSE {})
                            \cup (IF 5 \in msr[Self][bank] THEN {34} ELSE {}))
    IN  /\ Go("CcxSetMca", "CcxSetCacWeights")
        /\ Writes("MCA_CONFIG_LS" :> Config("MCA_CONFIG_LS")
                  @@ "MCA_CONFIG_CS" :> Config("MCA_CONFIG_CS")
                  @@ "MCA_CTL_MASK_CS" :> Put({2}, {2}))
        /\ UNCHANGED <<sys, blk, cur, entry, complexMsr, patch, cac, gd, out, srat>>

(* CcxGetCacWeights, on the BSP only, and CcxSetCacWeights. *)
CcxSetCacWeights ==
    /\ Go("CcxSetCacWeights", Then("CcxInitializeC6", "CcxSyncMiscMsrs"))
    /\ gd' = [gd EXCEPT !.CacWeights = Then("SMU", @)]
    /\ cac' = IF ComputeUnitPrimary THEN [cac EXCEPT ![CoreOf(Self)] = gd'.CacWeights] ELSE cac
    /\ UNCHANGED <<sys, blk, cur, entry, msr, complexMsr, patch, out, srat>>

(***************************************************************************)
(* The BSP, from its tables to the launch.                                 *)
(***************************************************************************)
(* The SoC's own settings.  AmdReserved3 chooses one of three or, with any other
   value, none; MonMwaitDis leaves its bit alone with "Auto". *)
Zen4SetMiscMsrs ==
    "HWCR" :> (IF blk.MonMwaitDis = "Auto" THEN Put({}, {}) ELSE BitIf(9, blk.MonMwaitDis = "Yes"))
    @@ "C001102E" :> Put({}, {35})
    @@ "C00110DD_18" :> BitIf(18, blk.EnableSvmX2AVIC)
    @@ IF blk.AmdReserved3 \notin 0 .. 2 THEN << >>
       ELSE "C00110E5" :> BitIf(26, blk.AmdReserved3 \in {0, 1})
            @@ "C00110E6" :> BitIf(38, blk.AmdReserved3 \in {1, 2})
            @@ "C00110EC" :> BitIf(0, blk.AmdReserved3 \in {1, 2})
            @@ "C00110E2" :> BitIf(30, blk.AmdReserved3 \in {1, 2})

CcxSetMiscMsrs ==
    /\ Go("CcxSetMiscMsrs", "CcxSetMca")
    /\ Writes("C00110DD_13" :> BitIf(13, blk.EnableSvmAVIC)
              @@ "C00110DF" :> Put({36}, {})
              @@ "SIL_RESERVED2_919" :> Put({15}, {})
              @@ Zen4SetMiscMsrs)
    /\ UNCHANGED <<sys, blk, cur, entry, complexMsr, patch, cac, gd, out, srat>>

(* The C-state configuration: 8 in three fields, AmdCc6Ctrl's bit in three others
   (one bit each here), and the I/O address. *)
CcxInitializeC6 ==
    /\ Go("CcxInitializeC6", "CcxInitializeCpb")
    /\ Writes(IF ~blk.AmdCStateMode THEN << >>
              ELSE "CSTATE_ADDRESS" :> Put(All64, {3, 4})
                   @@ "SIL_RESERVED2_912" :>
                         (IF ComputeUnitPrimary
                          THEN Put(All64, {3} \cup (IF blk.AmdCc6Ctrl THEN {6} ELSE {}))
                          ELSE Put({}, {})))
    /\ UNCHANGED <<sys, blk, cur, entry, complexMsr, patch, cac, gd, out, srat>>

CcxInitializeCpb ==
    /\ Go("CcxInitializeCpb", "ReadSyncList")
    /\ Writes("HWCR" :> OrBit(25, ~blk.AmdCpbMode))
    /\ UNCHANGED <<sys, blk, cur, entry, complexMsr, patch, cac, gd, out, srat>>

ApMsrSyncList ==
    << [addr |-> "NAME_STRING", mask |-> All64],
       [addr |-> "SIL_RESERVED2_926", mask |-> All64],
       [addr |-> "SIL_RESERVED2_899", mask |-> All64],
       [addr |-> "SYS_CFG", mask |-> All64],
       [addr |-> "SIL_RESERVED2_912", mask |-> All64],
       [addr |-> "CSTATE_ADDRESS", mask |-> All64],
       [addr |-> "HWCR", mask |-> All64],
       [addr |-> "SIL_RESERVED2_919", mask |-> {15}],
       [addr |-> "C00110DD_13", mask |-> {13}],
       [addr |-> "C00110DD_18", mask |-> {18}],
       [addr |-> "HWCR", mask |-> {9}] >>

ReadSyncList ==
    /\ Go("ReadSyncList", "SetupApStartupRegion")
    /\ gd' = [gd EXCEPT !.SyncData = [i \in 1 .. Len(ApMsrSyncList) |-> msr[Self][ApMsrSyncList[i].addr]]]
    /\ UNCHANGED <<sys, blk, cur, entry, msr, complexMsr, patch, cac, out, srat>>

(* Of SetupApStartupRegion, which ApLaunch models, the patch level for the APs. *)
SetupApStartupRegion ==
    /\ Go("SetupApStartupRegion", "Launch")
    /\ gd' = [gd EXCEPT !.BspPatchLevel = patch[CoreOf(Self)]]
    /\ UNCHANGED <<sys, blk, cur, entry, msr, complexMsr, patch, cac, out, srat>>

(* The loops of the launch: the next AP, which starts with its register setting,
   or on to what follows them. *)
Launch ==
    /\ pc = "Launch"
    /\ \/ /\ cur < Len(Order)
          /\ cur' = cur + 1
          /\ pc' = "RegSettingBeforeLaunchingNextThread"
       \/ /\ cur = Len(Order)
          /\ cur' = 0
          /\ pc' = "CcxEnableSmee"
    /\ UNCHANGED <<sys, blk, entry, msr, complexMsr, patch, cac, gd, out, srat>>

(***************************************************************************)
(* An AP.                                                                  *)
(***************************************************************************)
\* The patch loaded by one thread of a complex only.
ApMicrocodeOfComplex ==
    /\ Go("ApMicrocode", "SetRegistersFromTables")
    /\ patch' = IF gd.BspPatchLevel # 0 /\ gd.UcodePatchAddr # 0
                   /\ xUslIsCoreComplexPrimary(ApicIdOf(Self), ThreadsPerCore)
                THEN [patch EXCEPT ![CoreOf(Self)] = PatchedLevel(@)] ELSE patch
    /\ UNCHANGED <<sys, blk, cur, entry, msr, complexMsr, cac, gd, out, srat>>

ApMicrocode ==
    /\ Go("ApMicrocode", "SetRegistersFromTables")
    /\ patch' = IF gd.BspPatchLevel # 0 /\ gd.UcodePatchAddr # 0 /\ ComputeUnitPrimary
                THEN [patch EXCEPT ![CoreOf(Self)] = PatchedLevel(@)] ELSE patch
    /\ UNCHANGED <<sys, blk, cur, entry, msr, complexMsr, cac, gd, out, srat>>

\* Each entry written over the whole register, its mask forgotten.
SyncWithoutMask ==
    /\ Go("CcxSyncMiscMsrs", "Launch")
    /\ msr' = [msr EXCEPT ![Self] = [name \in ThreadMsrs |->
                 LET S == {i \in 1 .. Len(ApMsrSyncList) : ApMsrSyncList[i].addr = name}
                 IN  IF S = {} THEN @[name] ELSE UNION {gd.SyncData[i] \cap ApMsrSyncList[i].mask : i \in S}]]
    /\ UNCHANGED <<sys, blk, cur, entry, complexMsr, patch, cac, gd, out, srat>>

(* The entries of one register leave, under the union of their masks, what the
   BSP had: it was read once for each with nothing in between. *)
CcxSyncMiscMsrs ==
    /\ Go("CcxSyncMiscMsrs", "Launch")
    /\ msr' = [msr EXCEPT ![Self] = [name \in ThreadMsrs |->
                 LET S == {i \in 1 .. Len(ApMsrSyncList) : ApMsrSyncList[i].addr = name}
                     masked == UNION {ApMsrSyncList[i].mask : i \in S}
                 IN  AndThenOr(@[name], masked,
                               UNION {gd.SyncData[i] \cap ApMsrSyncList[i].mask : i \in S})]]
    /\ UNCHANGED <<sys, blk, cur, entry, complexMsr, patch, cac, gd, out, srat>>

(***************************************************************************)
(* The BSP, after the launch.                                              *)
(***************************************************************************)
CcxEnableSmee ==
    /\ Go("CcxEnableSmee", "UpdateCcxOutputData")
    /\ Writes("SYS_CFG" :> OrBit(23, blk.AmdSmee))
    /\ UNCHANGED <<sys, blk, cur, entry, complexMsr, patch, cac, gd, out, srat>>

(* How much memory the RMP table covers, in MB: none unless VMPL is asked for. *)
SnpMemSizeToCover ==
    LET asked == IF blk.AmdSnpMemSize < 16 THEN 16 ELSE blk.AmdSnpMemSize
    IN  CASE ~blk.AmdVmplEnable -> 0
          [] blk.AmdSnpMemCover = "SNP_CUSTOM_MEMORY_ENABLE" ->
                IF blk.AmdSnpMemSize >= 16 /\ asked > sys.tom2 THEN sys.tom2 ELSE asked
          [] OTHER -> sys.tom2

(* 16 bytes for each page and 16 KB, rounded up to a MB. *)
RmpTableSize == (4 + SnpMemSizeToCover + 255) \div 256

(* The first valid DRAM region that is not of the socket of region 1, the first
   one, or of socket 0 if that one is not valid. *)
SocketBoundary ==
    LET Prev == IF sys.drams[1].valid THEN sys.drams[1].socket ELSE 0
        Other == {i \in 2 .. Len(sys.drams) : sys.drams[i].valid /\ sys.drams[i].socket # Prev}
    IN  {i \in Other : \A j \in Other : i <= j}

Zen4CalculateRMPTableBase ==
    LET split == {256 * sys.drams[i].base + (RmpTableSize \div 2) : i \in SocketBoundary}
    IN  IF Len(sys.map) > 1 /\ blk.AmdSplitRmpTable /\ \E b \in split : b <= SnpMemSizeToCover
        THEN CHOOSE b \in split : TRUE ELSE SnpMemSizeToCover

(* VMPL asked for and not supported: nothing is put out. *)
UpdateCcxOutputData ==
    LET snp == blk.AmdSnpMemCover # "SNP_DISABLE"
    IN  /\ Go("UpdateCcxOutputData", "Srat")
        /\ Writes("SYS_CFG" :> OrBit(25, snp /\ blk.AmdVmplEnable /\ sys.vmpl))
        /\ out' = IF ~snp \/ (blk.AmdVmplEnable /\ ~sys.vmpl) THEN out
                  ELSE [AmdRmpTableSize |-> RmpTableSize, AmdRmpTableBase |-> Zen4CalculateRMPTableBase]
        /\ UNCHANGED <<sys, blk, cur, entry, complexMsr, patch, cac, gd, srat>>

(***************************************************************************)
(* The host's call for the SRAT: what the mode asked for needs decides     *)
(* about the buffer, the mode configured about the entries, and the last   *)
(* id about the length.                                                    *)
(***************************************************************************)
SizeOfEntry(kind) == IF kind = "x2Apic" THEN 24 ELSE 16

TotalNumberApicId == ThreadCount

SratEntry(t) ==
    LET x2 == blk.AmdApicMode = "x2Apic"
              \/ (blk.AmdApicMode = "Compatibility" /\ ApicIdOf(t) >= XAPIC_ID_MAX)
    IN  CASE x2 -> <<[kind |-> "x2Apic", id |-> ApicIdOf(t)]>>
          [] ~x2 /\ ApicIdOf(t) < XAPIC_ID_MAX -> <<[kind |-> "xApic", id |-> ApicIdOf(t)]>>
          [] OTHER -> << >>

xPrfCreateSratApicEntry(ApicModeValue, SratApicSize) ==
    LET all == SelectSeq(<<Bsp>> \o Order, LAMBDA t : CorePresent(sys.map, t))
        entries == FoldLeft(LAMBDA list, t : list \o SratEntry(t), << >>, all)
        last == SratEntry(all[Len(all)])
    IN  IF ApicModeValue \in {"xApic", "x2Apic"}
           /\ SizeOfEntry(ApicModeValue) * TotalNumberApicId <= SratApicSize
        THEN [status |-> "SilPass", entries |-> entries,
              length |-> IF last = << >> THEN "unwritten"
                         ELSE Len(entries) * SizeOfEntry(last[1].kind)]
        ELSE [status |-> "SilOutOfBounds", entries |-> << >>, length |-> "unwritten"]

CreateSrat ==
    /\ Go("Srat", "Done")
    /\ \E mode \in {"xApic", "x2Apic", "Compatibility"}, size \in {16, 24} :
          srat' = [mode |-> mode, size |-> size * TotalNumberApicId]
                  @@ xPrfCreateSratApicEntry(mode, size * TotalNumberApicId)
    /\ UNCHANGED <<sys, blk, cur, entry, msr, complexMsr, patch, cac, gd, out>>

Done == pc = "Done" /\ UNCHANGED vars

Next ==
    \/ CcxCacheInit \/ CcxSetBrandString \/ SetApicMode \/ LoadMicrocodePatch \/ GetCriteria
    \/ SetRegistersFromTables \/ RegSettingBeforeLaunchingNextThread \/ CcxSetMiscMsrs
    \/ CcxSetMca \/ CcxSetCacWeights \/ CcxInitializeC6 \/ CcxInitializeCpb \/ ReadSyncList
    \/ SetupApStartupRegion \/ Launch \/ ApMicrocode \/ CcxSyncMiscMsrs
    \/ CcxEnableSmee \/ UpdateCcxOutputData \/ CreateSrat \/ Done

Spec == Init /\ [][Next]_vars

(***************************************************************************)
(* Properties                                                              *)
(***************************************************************************)
ApsLaunched == pc \in {"CcxEnableSmee", "UpdateCcxOutputData", "Srat", "Done"}

(* What the tables set for all cores, and CcxSetMca. *)
AllCoreMsrs ==
    {"MCA_CTL_MASK_LS", "MCA_CTL_MASK_IF", "MCA_CTL_MASK_L2", "MCA_CTL_MASK_FP", "MCA_CTL_MASK_CS",
     "MCA_CONFIG_LS", "MCA_CONFIG_CS", "SIL_RESERVED2_919", "SIL_RESERVED2_918", "SIL_RESERVED2_917",
     "OSVW_ID_Length", "OSVW_Status"}

(* SME and VMPL are enabled on the BSP, after the launch. *)
BspOnly(name) == IF name = "SYS_CFG" THEN {23, 25} ELSE {}

(* ThreadsSetUp: when InitializeCcxAndLaunchAps has launched the last AP, every
   thread, and not the BSP alone, has what the host's options ask for (core
   performance boost, MONITOR/MWAIT, AVIC, C-states, x2APIC), the thread
   settings RegSettingBeforeLaunchingNextThread makes by its role, and in the
   registers of the all-core table, of CcxSetMca and of ApMsrSyncList what the
   BSP has, although the BSP sets them in seven procedures, some before and some
   after those the APs run themselves, and the list is read once in between. *)
ThreadsSetUp ==
    ApsLaunched => \A t \in Threads :
      LET r == msr[t]
          second == ThreadsPerCore = 2 /\ t[5] = 1
      IN  /\ ~blk.AmdCpbMode => 25 \in r.HWCR
          /\ blk.MonMwaitDis # "Auto" => (9 \in r.HWCR <=> blk.MonMwaitDis = "Yes")
          /\ 27 \in r.HWCR
          /\ 13 \in r.C00110DD_13 <=> blk.EnableSvmAVIC
          /\ 18 \in r.C00110DD_18 <=> blk.EnableSvmX2AVIC
          /\ blk.AmdCStateMode => r.CSTATE_ADDRESS = {3, 4} /\ 3 \in r.SIL_RESERVED2_912
                                  /\ (6 \in r.SIL_RESERVED2_912 <=> blk.AmdCc6Ctrl)
          /\ 11 \in r.APIC_BAR
          /\ blk.AmdApicMode = "x2Apic" => 10 \in r.APIC_BAR
          /\ ThreadsPerCore = 1 \/ second => 49 \in r.SIL_RESERVED_9
          /\ second => 2 \in r.SPEC_CTRL
          /\ \A name \in AllCoreMsrs \cup SyncedMsrs :
                r[name] \ BspOnly(name) = msr[Bsp][name] \ BspOnly(name)

(* CoresAndComplexesSetUp: with some thread of each core, and of each complex,
   doing it for the others, no core is left with another microcode level or
   other CAC weights than the BSP's and no complex without its registers, as long
   as complexes are as far apart in the APIC ids as xUslIsCoreComplexPrimary
   takes them to be. *)
CoresAndComplexesSetUp ==
    ApsLaunched =>
      /\ \A c \in DOMAIN patch : patch[c] = patch[CoreOf(Bsp)] /\ cac[c] = "SMU"
      /\ ComplexShift(sys.pkg, ThreadsPerCore) >= ComplexMaskBits(ThreadsPerCore) =>
           \A x \in DOMAIN complexMsr :
              /\ complexMsr[x] = complexMsr[ComplexOf(Bsp)]
              /\ {7, 9, 10, 12, 20, 22} \subseteq complexMsr[x].SIL_RESERVED2_908

(* SratListsAll: when the host asks for the entries of the configured mode in a
   buffer that xPrfCreateSratApicEntry accepts, and all ids fit that mode, it
   finds each thread once, under an id of its own, and the length returned is
   that of the entries written and within the buffer. *)
SratListsAll ==
    (pc = "Done" /\ srat.status = "SilPass" /\ srat.mode = blk.AmdApicMode
     /\ (srat.mode = "x2Apic" \/ \A t \in Threads : ApicIdOf(t) < XAPIC_ID_MAX)) =>
      /\ {srat.entries[i].id : i \in 1 .. Len(srat.entries)} = {ApicIdOf(t) : t \in Threads}
      /\ \A i, j \in 1 .. Len(srat.entries) : i # j => srat.entries[i].id # srat.entries[j].id
      /\ Len(srat.entries) = Cardinality(Threads)
      /\ srat.length = FoldLeft(LAMBDA sum, e : sum + SizeOfEntry(e.kind), 0, srat.entries)
      /\ srat.length <= srat.size
=============================================================================
