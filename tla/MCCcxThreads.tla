--------------------------- MODULE MCCcxThreads ---------------------------
(***************************************************************************)
(* Small machines for CcxThreads: one or two sockets, CCDs, complexes and  *)
(* cores, with and without SMT; complexes as many ids apart as their       *)
(* mask takes them to be, and closer.                                      *)
(***************************************************************************)
EXTENDS CcxThreads

(* sockets, CCDs, complexes, cores, threads of a core *)
UniformMap(s, d, x, c, t) ==
    [i \in 1 .. s |-> [j \in 1 .. d |-> [k \in 1 .. x |-> [l \in 1 .. c |-> t]]]]

Shapes == {<<1, 1, 1, 2, 2>>, <<1, 2, 1, 2, 1>>, <<2, 1, 1, 1, 2>>, <<1, 1, 2, 1, 2>>, <<2, 2, 1, 1, 1>>}

Pkg(sh, cores, mode) ==
    [NumOfCcds |-> sh[2] - 1, NumOfComplexes |-> sh[3] - 1, NumOfCores |-> cores, Apic16TMode |-> mode]

Devices == {[dev |-> 0, fun |-> 0, id |-> 1, multi |-> FALSE],
            [dev |-> 1, fun |-> 0, id |-> 2, multi |-> TRUE],
            [dev |-> 1, fun |-> 1, id |-> 3, multi |-> FALSE]}

(* Microcode images: the right one, one for bridges this machine lacks, one the
   processor does not take. *)
Images == {[processor |-> TRUE, nb |-> 1, sb |-> 3, taken |-> TRUE, level |-> 5],
           [processor |-> TRUE, nb |-> 4, sb |-> 0, taken |-> TRUE, level |-> 5],
           [processor |-> TRUE, nb |-> 0, sb |-> 0, taken |-> FALSE, level |-> 5]}

Machine(sh, cores, mode, reset, rev, level, image) ==
    [map |-> UniformMap(sh[1], sh[2], sh[3], sh[4], sh[5]), pkg |-> Pkg(sh, cores, mode),
     reset |-> reset, rev |-> rev, patchLevel |-> level, image |-> image, devices |-> Devices,
     McaCount |-> IF reset = {} THEN 32 ELSE 33, vmpl |-> reset = {}, tom2 |-> 1024,
     drams |-> << [valid |-> rev # "A0", socket |-> 0, base |-> 0],
                  [valid |-> TRUE, socket |-> IF sh[1] = 2 THEN 1 ELSE 0, base |-> 2] >>]

MCSystems ==
    {Machine(sh, cores, mode, {}, "B0", 0, image) :
        sh \in Shapes, cores \in {1, 7}, mode \in {0, 1},
        image \in {i \in Images : i.nb = 1}}
    \cup {Machine(sh, 7, 0, All64, rev, 3, image) : sh \in Shapes, rev \in {"A0", "A1"}, image \in Images}

Block(apic, on, three, mon, snp) ==
    [AmdApicMode |-> apic, AmdDownCoreMode |-> "Auto", AmdIbrsEn |-> on, AmdBranchSampling |-> on,
     EnableSvmAVIC |-> on, EnableSvmX2AVIC |-> ~on, MonMwaitDis |-> mon, AmdReserved3 |-> three,
     AmdCStateMode |-> on, AmdCc6Ctrl |-> mon = "Yes", AmdCpbMode |-> ~on, AmdSmee |-> on,
     AmdSnpMemCover |-> snp, AmdVmplEnable |-> on, AmdSnpMemSize |-> IF mon = "Yes" THEN 1 ELSE 2048,
     AmdSplitRmpTable |-> TRUE]

MCInputBlocks ==
    {Block("x2Apic", TRUE, 0, "Yes", "SNP_ENABLE"),
     Block("xApic", TRUE, 1, "No", "SNP_CUSTOM_MEMORY_ENABLE"),
     Block("Auto", FALSE, 2, "Auto", "SNP_ENABLE"),
     Block("Compatibility", TRUE, 255, "Yes", "SNP_CUSTOM_MEMORY_ENABLE"),
     Block("xApic", FALSE, 255, "Auto", "SNP_DISABLE")}
=============================================================================
