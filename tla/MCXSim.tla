-------------------------------- MODULE MCXSim ------------------------------
(***************************************************************************)
(* The running totals of XSim for the F19M10 lists, with an IP added that  *)
(* may ask for deferred resets.                                            *)
(***************************************************************************)
EXTENDS XSim, IpBlkListF19M10

MCNeed ==
    LET total[k \in 0 .. N] ==
          IF k = 0 THEN VarsSize ELSE total[k - 1] + QueryShare(Tp1[k])
    IN  total
MCSetEnd ==
    LET total[k \in 0 .. N] ==
          IF k = 0 THEN VarsSize ELSE total[k - 1] + SetTaken(Tp1[k])
    IN  total
MCLateEnd ==
    LET total[k \in 0 .. N] ==
          IF k = 0 THEN SetEnd[N] ELSE total[k - 1] + Taken(Tp1[k].late)
    IN  total

(* The PCIe complexes of the eight root bridges of two sockets. *)
TwoSockets == 242 + 4 * 3370 + 4 * 2752

(* No IP of the lists asks for a deferred reset.  A platform's own IP       *)
(* stands for one that does, at two time points; like RcManager it does not *)
(* look whether it got its block, and it asks for so much that the others   *)
(* go on without it.                                                       *)
Deferring == {"SilPass", "SilResetRequestColdDef", "SilResetRequestWarmDef",
              "SilDeviceError"}
OemSize == TwoSockets + 100
OemClass == [Ip("OemClass", OemSize, Deferring) EXCEPT !.ignoresNull = TRUE]

F19M10 ==
    << Append(WithXmp(SocIpTblF19M10Tp1(TwoSockets)), OemClass),
       Append(SocIpTblF19M10Tp2,
              [Bare("OemClass") EXCEPT !.initialize = TRUE, !.returns = Deferring]),
       SocIpTblF19M10Tp3 >>

(* What is asked for, less, and as little as passes the assignment. *)
AllSizes ==
    {xSimQueryMemoryRequirements, Need[N], Need[N] + 1, SetEnd[N], SetEnd[N] + 1,
     LateEnd[N], LateEnd[N] + 1, VarsSize, VarsSize + 13500, VarsSize + 13516,
     VarsSize + 13517, VarsSize - 1, SetEnd[N - 1] + OemSize}
=============================================================================
