------------------------------ MODULE MCMpioInit ------------------------------
(***************************************************************************)
(* Instances of MpioInit: two sockets with a root bridge each, two         *)
(* wrappers of three and two ports, one more function than ports.          *)
(***************************************************************************)
EXTENDS MpioInit

MCWrapperSizes == <<3, 2>>

MCDefaultPortDevMap == <<9, 10, 11, 17, 18, 25>>

MCRootBridges == {<<0, 0>>, <<1, 0>>}

MCSocketOrder == <<0, 1>>

\* The lanes of port i of wrapper w of a socket's root bridge.
Lanes(s, w, i) == <<s, 0, w, i>>

Port(lanes, devfunc) ==
  [type |-> "PCIe", lanes |-> lanes, DevFunc |-> devfunc, SbLink |-> FALSE,
   PortPresent |-> TRUE, AlwaysExpose |-> FALSE, LinkHotplug |-> "Disabled"]

SbPort(lanes) == [Port(lanes, 0) EXCEPT !.SbLink = TRUE]

ExposedPort(lanes) == [Port(lanes, 0) EXCEPT !.AlwaysExpose = TRUE]

UbmPort(lanes) == [Port(lanes, 0) EXCEPT !.LinkHotplug = "UBM", !.PortPresent = FALSE]

SsdPort(lanes) == [Port(lanes, 0) EXCEPT !.LinkHotplug = "ServerEntSSD", !.PortPresent = FALSE]

SataPort(lanes) == [Port(lanes, 0) EXCEPT !.type = "SATA"]

UnusedPort(lanes) == [Port(lanes, 0) EXCEPT !.type = "Unused"]

\* Native functions, and functions exchanged between ports: with the highest port
\* first or last, of the same wrapper and of two wrappers, moved to the function of
\* an unused port listed after it, and round three ports.
Topologies(s) ==
  { <<Port(Lanes(s, 1, 1), 0), SataPort(Lanes(s, 2, 0))>>,
    <<Port(Lanes(s, 1, 0), 10), Port(Lanes(s, 1, 1), 9)>>,
    <<Port(Lanes(s, 1, 1), 9), Port(Lanes(s, 1, 0), 10)>>,
    <<Port(Lanes(s, 1, 2), 9)>>,
    <<Port(Lanes(s, 1, 2), 9), Port(Lanes(s, 1, 1), 11), Port(Lanes(s, 1, 0), 10)>>,
    <<Port(Lanes(s, 1, 0), 18), UnusedPort(Lanes(s, 1, 1)), Port(Lanes(s, 2, 1), 9)>>,
    <<SbPort(Lanes(s, 1, 1)), UbmPort(Lanes(s, 1, 2))>>,
    <<SsdPort(Lanes(s, 1, 0))>>,
    <<ExposedPort(Lanes(s, 2, 1)), Port(Lanes(s, 1, 0), 0)>> }

NotEarly == [rb \in MCRootBridges |-> [b \in 0..5 |-> 0]]

\* An earlier stage trained port 0 of wrapper 2 and exchanged its function with
\* that of port 1.
EarlyRemap == [NotEarly EXCEPT ![<<0, 0>>] = [b \in 0..5 |-> MCDefaultPortDevMap[
                 (CASE b = 3 -> 4 [] b = 4 -> 3 [] OTHER -> b) + 1]]]

Platform(topology0, topology1, anc, expose) ==
  [topology |-> [s \in {0, 1} |-> IF s = 0 THEN topology0 ELSE topology1],
   MPIOAncDataSupport |-> anc, Expose |-> expose, CfgEarlyLink |-> FALSE,
   EarlyBmcLinkTraining |-> FALSE, linked |-> {}, remap |-> NotEarly]

One == <<Port(Lanes(1, 1, 0), 0)>>

MCPlatforms ==
  {Platform(t, <<>>, FALSE, 0) : t \in Topologies(0)}
  \cup {Platform(<<>>, t, FALSE, 1) : t \in {x \in Topologies(1) : ~x[1].SbLink}}
  \cup {Platform(<<SbPort(Lanes(0, 1, 1))>>, One, TRUE, 0)}
  \cup {[Platform(<<ExposedPort(Lanes(0, 1, 1))>>, One, FALSE, 2) EXCEPT !.CfgEarlyLink = TRUE]}
  \cup {[Platform(<<Port(Lanes(0, 1, 0), 0)>>, <<>>, FALSE, 0) EXCEPT
           !.EarlyBmcLinkTraining = TRUE, !.linked = {Lanes(0, 2, 0)}, !.remap = EarlyRemap]}
=============================================================================
