----------------------------- MODULE MCApLaunch -----------------------------
(***************************************************************************)
(* Topologies for the model checker: one and two sockets, several CCDs,    *)
(* two threads per core; and one whose CCDs differ.                        *)
(***************************************************************************)
EXTENDS ApLaunch, CcxTables

Regular ==
    { << << << <<2, 2>> >>, << <<2, 2>> >> >> >>,
      << << << <<1, 1, 1>> >> >>, << << <<1>>, <<1>> >>, << <<1>>, <<1>> >> >> >> }
Irregular == { << << << <<1, 1>> >>, << <<1>> >> >> >> }
AllMaps == Regular \cup Irregular

MCThreads == UNION {Looped(m) : m \in Maps} \ {Bsp}
MCOrder == [m \in Maps |-> LaunchOrder(m)]
MCLaunchable == [m \in Maps |-> {t \in MCThreads : Present(m, t)}]
MCBit == [m \in Maps |->
            [t \in MCLaunchable[m] |-> <<t[1], t[2], WhichBit(m, t)>>]]
=============================================================================
