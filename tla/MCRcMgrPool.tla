---------------------------- MODULE MCRcMgrPool ----------------------------
(* RcMgrPool on a socket with two root bridges, of which the first is the  *)
(* primary one, and two more slots, one of which holds its second window.  *)
EXTENDS RcMgrPool, TLC

MCSlots == {<<0, 0>>, <<0, 1>>, <<1, 0>>}
MCRbs == {<<0, 0>>, <<0, 1>>}
MCBuses == {0, 8, 16}
MCLengths == {0, 1, 3}
MCMasks == {0, 1}

Window(base, size) == [Base |-> base, Size |-> size, Used |-> 0]
NoWindow == Window(0, 0)
Above == "NON_PCI_DEVICE_ABOVE_4G"

Place(own, other, second, above) ==
    [w \in Windows |->
        CASE w = <<Below, <<0, 0>>>> -> own
          [] w = <<Below, <<0, 1>>>> -> other
          [] w = <<Below, <<1, 0>>>> -> second
          [] w = <<Above, <<0, 0>>>> -> above
          [] OTHER -> NoWindow]
Layout(windows, second, above) ==
    [region |-> windows,
     allocate |-> [w \in Windows |-> w[2] \in MCRbs /\ (w[1] = Below \/ above)],
     second |-> second, rbs |-> MCRbs, primary |-> <<0, 0>>,
     busRb |-> (0 :> <<0, 0>> @@ 8 :> <<0, 1>> @@ 16 :> NoSlot)]

MCLayouts ==
    {Layout(Place(Window(17, 5), Window(7, 1), NoWindow, NoWindow), NoSlot, FALSE),
     Layout(Place(Window(17, 4), NoWindow, Window(10, 3), Window(32, 1)), <<1, 0>>, TRUE),
     Layout(Place(Window(9, 1), Window(5, 1), Window(17, 4), NoWindow), <<1, 0>>, TRUE)}
=============================================================================
