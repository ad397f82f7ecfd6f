------------------------------ MODULE CcxTables ------------------------------
(***************************************************************************)
(* What a thread needs to know of itself while it sets up its registers:   *)
(* its APIC id (CcxCmn2Zen4.c), the roles read off that id                 *)
(* (xUslCcxRoles.c), and the register table entries that apply to it       *)
(* (AmdTable.c with the tables of CcxResetTablesZen4.c).                   *)
(*                                                                         *)
(* A 64 bit register, a mask and a bit field of features, families or      *)
(* revisions is the set of the numbers of its set bits.                    *)
(*                                                                         *)
(* First the core topology the APOB describes (xUSL/Apob.c) and how CCX    *)
(* and SMU number threads with it.  A map m is the logical-to-physical map *)
(* of every socket: m[s][d][x][c] is the number of enabled threads of core *)
(* c - 1 of complex x - 1 of CCD d - 1 of socket s - 1.  Entries marked    *)
(* CCX_NOT_PRESENT are the ones past the end of a sequence.  A thread is   *)
(* the tuple <<Socket, Ccd, Ccx, Core, Thread>>, counted from 0; there is  *)
(* one die per socket.                                                     *)
(***************************************************************************)
EXTENDS Integers, Sequences, FiniteSets

(***************************************************************************)
(* ApobGetCoreTopologyOnDie: CCD 0 and its complex 0 and core 0 stand for  *)
(* all of the die.                                                         *)
(***************************************************************************)
NumberOfCcds(m, Socket) == Len(m[Socket + 1])
NumberOfComplexes(m, Socket) == Len(m[Socket + 1][1])
NumberOfCores(m, Socket) == Len(m[Socket + 1][1][1])
NumberOfThreads(m, Socket) == m[Socket + 1][1][1][1]

(* The thread the BSP runs on. *)
Bsp == <<0, 0, 0, 0, 0>>

(* The threads the loops of InitializeCcxAndLaunchAps go through. *)
Looped(m) ==
    UNION {{Socket} \X (0 .. NumberOfCcds(m, Socket) - 1)
                    \X (0 .. NumberOfComplexes(m, Socket) - 1)
                    \X (0 .. NumberOfCores(m, Socket) - 1)
                    \X (0 .. NumberOfThreads(m, Socket) - 1) : Socket \in 0 .. Len(m) - 1}

(* The loops are nested in the order of the tuple. *)
Earlier(t, u) ==
    \E i \in 1 .. 5 : t[i] < u[i] /\ \A j \in 1 .. i - 1 : t[j] = u[j]

(* The order in which the loops launch the threads, the BSP's left out. *)
LaunchOrder(m) ==
    LET Aps == Looped(m) \ {Bsp}
    IN  [i \in 1 .. Cardinality(Aps) |->
           CHOOSE t \in Aps : Cardinality({u \in Aps : Earlier(u, t)}) = i - 1]

(* Whether the map has the core of a thread: the loops that make the SRAT skip
   CCDs, complexes and cores that are CCX_NOT_PRESENT. *)
CorePresent(m, t) ==
    /\ t[1] < Len(m)
    /\ t[2] < Len(m[t[1] + 1])
    /\ t[3] < Len(m[t[1] + 1][t[2] + 1])
    /\ t[4] < Len(m[t[1] + 1][t[2] + 1][t[3] + 1])

(***************************************************************************)
(* SmuLaunchThreadV13: whether the map has the thread, and its bit of the  *)
(* ThreadEn register of its CCD.                                           *)
(***************************************************************************)
Present(m, t) ==
    CorePresent(m, t) /\ t[5] < m[t[1] + 1][t[2] + 1][t[3] + 1][t[4] + 1]

WhichBit(m, t) == t[3] * 16 + t[4] * NumberOfThreads(m, t[1]) + t[5]

(***************************************************************************)
(* APIC ids.  pkg holds the fields of PMREG_INITPKG7, each one less than   *)
(* the number it stands for, as the register of the first enabled core     *)
(* has them; ThreadsPerCore is what CPUID reports.                         *)
(***************************************************************************)
xUslBitWidth(Number) ==
    CHOOSE w \in 0 .. 8 : Number < 2^w /\ (w > 0 => Number >= 2^(w - 1))

\* The width of the core number left out.
ComplexShiftOfOneCore(pkg, ThreadsPerCore) == ThreadsPerCore - 1

ComplexShift(pkg, ThreadsPerCore) ==
    LET shift == xUslBitWidth(pkg.NumOfCores) + ThreadsPerCore - 1
    IN  IF pkg.Apic16TMode = 1 /\ shift < 4 THEN 4 ELSE shift

(* The fields do not overlap as long as each number fits its field, so the or
   of the code is a sum. *)
Zen4CalcLocalApic(pkg, ThreadsPerCore, t) ==
    LET x == ComplexShift(pkg, ThreadsPerCore)
        d == xUslBitWidth(pkg.NumOfComplexes) + x
        s == xUslBitWidth(pkg.NumOfCcds) + d
    IN  t[1] * 2^s + t[2] * 2^d + t[3] * 2^x + t[4] * 2^(ThreadsPerCore - 1) + t[5]

(* Roles.  The initial APIC id of CPUID function 1 has eight bits. *)
xUslGetInitialApicId(ApicId) == ApicId % 256

xUslIsComputeUnitPrimary(ApicId, ThreadsPerCore) ==
    xUslGetInitialApicId(ApicId) % ThreadsPerCore = 0

\* Complexes are taken to be 8 ids apart without SMT and 16 with it.
ComplexMaskBits(ThreadsPerCore) == IF ThreadsPerCore = 1 THEN 3 ELSE 4

xUslIsCoreComplexPrimary(ApicId, ThreadsPerCore) ==
    xUslGetInitialApicId(ApicId) % 2^ComplexMaskBits(ThreadsPerCore) = 0

xUslIsSocketPrimary(ApicId, ThreadsPerCore) ==
    xUslGetInitialApicId(ApicId) % (IF ThreadsPerCore = 1 THEN 64 ELSE 128) = 0

(***************************************************************************)
(* Register tables.                                                        *)
(***************************************************************************)
AMD_PF_X2APIC == {4}
AMD_PF_APIC == {5}
AMD_PF_DIS_IBRS == {6}
AMD_PF_BRANCH_SAMPLING == {8}
AMD_FAMILY_GENOA == {12}
AMD_REV_F19_GENOA_ALL == {"A0", "A1", "B0"}
AMD_CORE_FAMILY_19_ZEN4 == {0, 1}
AMD_CORE_F19_ZEN4_A0 == {"A0"}
All64 == 0 .. 63

ENTRY(type, family, rev, feats, addr, data, mask) ==
    [type |-> type, family |-> family, rev |-> rev, feats |-> feats,
     addr |-> addr, data |-> data, mask |-> mask]

MSR(addr, data, mask) == ENTRY("MsrRegister", {}, {}, {}, addr, data, mask)
MSR_CPU_REV(family, rev, addr, data, mask) ==
    ENTRY("MsrCpuRev", family, rev, {}, addr, data, mask)
MSR_CORE_REV(family, rev, addr, data, mask) ==
    ENTRY("MsrCoreRev", family, rev, {}, addr, data, mask)
MSR_PLATFORM_FEAT(feats, addr, data, mask) ==
    ENTRY("MsrPlatformFeat", {}, {}, feats, addr, data, mask)
MSR_CPU_REV_PLATFORM_FEAT(family, rev, feats, addr, data, mask) ==
    ENTRY("MsrCpuRevPlatformFeat", family, rev, feats, addr, data, mask)

ApicEntries ==
    << MSR("APIC_BAR", {11}, {11}),
       MSR_PLATFORM_FEAT(AMD_PF_X2APIC, "APIC_BAR", {10}, {10}) >>

(* HWCR[14:13] asks for the family AMD_PF_APIC, which no part has. *)
CcxZen4AllCoreRegisters ==
    ApicEntries \o
    << MSR("HWCR", {27}, {27}),
       MSR_CPU_REV(AMD_PF_APIC, AMD_REV_F19_GENOA_ALL, "HWCR", {13, 14}, {13, 14}),
       MSR("MCA_CTL_MASK_LS", {12, 19, 20, 21}, {12, 19, 20, 21}),
       MSR_CORE_REV(AMD_CORE_FAMILY_19_ZEN4, AMD_CORE_F19_ZEN4_A0,
                    "MCA_CTL_MASK_LS", {}, {2, 12}),
       MSR_CPU_REV(AMD_FAMILY_GENOA, AMD_REV_F19_GENOA_ALL, "MCA_CTL_MASK_IF", {11, 16}, {11, 16}),
       MSR("MCA_CTL_MASK_L2", {3}, {3}),
       MSR_CPU_REV(AMD_FAMILY_GENOA, AMD_REV_F19_GENOA_ALL, "MCA_CTL_MASK_L2", {}, {3}),
       MSR("MCA_CTL_MASK_FP", {6}, {6}),
       MSR_CPU_REV(AMD_FAMILY_GENOA, AMD_REV_F19_GENOA_ALL, "SIL_RESERVED2_919",
                   {24, 25, 28, 29}, 24 .. 31),
       MSR("SIL_RESERVED2_918", {}, {22}),
       MSR_CPU_REV_PLATFORM_FEAT(AMD_FAMILY_GENOA, AMD_REV_F19_GENOA_ALL, AMD_PF_BRANCH_SAMPLING,
                                 "SIL_RESERVED2_918", {31}, {31}),
       MSR_CPU_REV(AMD_FAMILY_GENOA, AMD_REV_F19_GENOA_ALL, "SIL_RESERVED2_918", {8}, {8}),
       MSR_CPU_REV(AMD_FAMILY_GENOA, AMD_REV_F19_GENOA_ALL, "SIL_RESERVED2_917", {}, {4}),
       MSR("OSVW_ID_Length", {0, 2}, All64),
       MSR("OSVW_Status", {}, All64) >>

CcxZen4ComputeUnitRegisters ==
    << MSR("SIL_RESERVED2_926", {55, 57, 58, 63}, {55, 57, 58, 63}) >>

CcxZen4ComplexRegisters ==
    << MSR_CPU_REV(AMD_FAMILY_GENOA, AMD_REV_F19_GENOA_ALL, "SIL_RESERVED2_908",
                   {7, 9, 10, 12, 20, 22}, {7, 8, 9, 10, 11, 12, 18, 19, 20, 22, 23}),
       MSR_CPU_REV(AMD_FAMILY_GENOA, AMD_REV_F19_GENOA_ALL, "SIL_RESERVED2_922",
                   {1, 2, 8, 12}, {1, 2, 6, 7, 8, 12}),
       MSR_CPU_REV(AMD_FAMILY_GENOA, AMD_REV_F19_GENOA_ALL, "SIL_RESERVED2_922", 17 .. 20, 17 .. 20) >>

CcxZen4RegisterTables ==
    << [selector |-> "AllCores", table |-> CcxZen4AllCoreRegisters],
       [selector |-> "ComputeUnitPrimary", table |-> CcxZen4ComputeUnitRegisters],
       [selector |-> "ComplexPrimary", table |-> CcxZen4ComplexRegisters] >>

(***************************************************************************)
(* Whether an entry applies, given the criteria the BSP collected.         *)
(***************************************************************************)
DoesEntryTypeSpecificInfoMatch(Platform, feats) ==
    IF 31 \notin feats THEN feats \cap Platform # {}
                       ELSE feats \ {31} = feats \cap Platform

Applies(criteria, e) ==
    LET soc == e.family \cap criteria.family # {} /\ criteria.rev \in e.rev
        core == e.family \cap criteria.coreFamily # {} /\ criteria.coreRev \in e.rev
        feats == DoesEntryTypeSpecificInfoMatch(criteria.feats, e.feats)
    IN  /\ e.type \in {"MsrCpuRev", "MsrCpuRevPlatformFeat"} => soc
        /\ e.type = "MsrCoreRev" => core
        /\ e.type \in {"MsrPlatformFeat", "MsrCpuRevPlatformFeat"} => feats

(* SetMsrEntry: the masked bits are cleared and the data bits set. *)
AndThenOr(value, mask, data) == (value \ mask) \cup data

(***************************************************************************)
(* The walk over the tables: selector by selector, until one the thread    *)
(* does not match.                                                         *)
(***************************************************************************)
Selectors == <<"AllCores", "ComputeUnitPrimary", "ComplexPrimary", "DiePrimary",
               "PrimaryCores", "BscCore">>

IsCoreSelector(selector, ApicId, ThreadsPerCore, IsBsp) ==
    CASE selector = "AllCores" -> TRUE
      [] selector = "ComputeUnitPrimary" -> xUslIsComputeUnitPrimary(ApicId, ThreadsPerCore)
      [] selector = "ComplexPrimary" -> xUslIsCoreComplexPrimary(ApicId, ThreadsPerCore)
      [] selector \in {"DiePrimary", "PrimaryCores"} -> xUslIsSocketPrimary(ApicId, ThreadsPerCore)
      [] selector = "BscCore" -> IsBsp

(* SetRegistersFromTableList: the entries the thread works through, the ones
   that do not apply included.  The tables are listed in the order of their
   selectors. *)
EntriesFor(ApicId, ThreadsPerCore, IsBsp) ==
    LET Selected(selector) ==
            \A i \in 1 .. Len(Selectors) :
               (\E j \in i .. Len(Selectors) : Selectors[j] = selector)
               => IsCoreSelector(Selectors[i], ApicId, ThreadsPerCore, IsBsp)
        TableOf(i) == IF Selected(CcxZen4RegisterTables[i].selector)
                      THEN CcxZen4RegisterTables[i].table ELSE << >>
    IN  TableOf(1) \o TableOf(2) \o TableOf(3)
=============================================================================
