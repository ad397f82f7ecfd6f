------------------------------- MODULE MCCxl -------------------------------
(* Cxl on two sockets with one root bridge each (one with the FCH, whose   *)
(* second MMIO window is in a spare slot), three engines, and devices that *)
(* differ in revision, type, capability list and BARs.                     *)
EXTENDS Cxl

MCSlots == {<<0, 0>>, <<0, 1>>, <<1, 0>>}
MCBuses == {0, 4}
MCRbs == {<<0, 0>>, <<1, 0>>}

Win(base, size) == [Base |-> base, Size |-> size, Used |-> 0]
Place(own, second, other, above) ==
    [w \in Windows |->
        CASE w = <<Below, <<0, 0>>>> -> own
          [] w = <<Below, <<0, 1>>>> -> second
          [] w = <<Below, <<1, 0>>>> -> other
          [] w = <<Above, <<0, 0>>>> -> above
          [] OTHER -> Win(0, 0)]
Layout(windows) ==
    [region |-> windows,
     allocate |-> [w \in Windows |-> w[2] \in MCRbs /\ (w[1] = Below \/ w[2] = <<0, 0>>)],
     second |-> <<0, 1>>, rbs |-> MCRbs, primary |-> <<0, 0>>,
     busRb |-> (0 :> <<0, 0>> @@ 4 :> <<1, 0>>)]
Roomy == Layout(Place(Win(256, 600), Win(1024, 10), Win(2048, 300), Win(4096, 600)))
Tight == Layout(Place(Win(256, 2), Win(1024, 6), Win(2050, 100), Win(4096, 17)))
MCLayouts == {Roomy, Tight}

Cap(cap, vid, id) == [cap |-> cap, vid |-> vid, id |-> id]
Aer == Cap(1, 0, 0)
Flex == Cap(DVSEC_CAP, DVSEC_VID2, DVSEC_ID)
Flex11 == Cap(DVSEC_CAP, DVSEC_VID, DVSEC_ID)
Locator == Cap(DVSEC_CAP, DVSEC_VID2, DVSEC_ID_REG_LOCATOR)
Vendor == Cap(DVSEC_CAP, 4130, 0)
Bar(kind, size) == [kind |-> kind, size |-> size]
NoBar == Bar("MEM_32_BAR", 0)
Dev(caps, ones, cache, mem, bs) ==
    [pcie |-> TRUE, caps |-> caps, usAllOnes |-> ones, cache |-> cache, mem |-> mem, bars |-> bs]

Accelerator == Dev(<<Aer, Flex11>>, FALSE, TRUE, FALSE,
    <<Bar("MEM_32_BAR", 16), Bar("IO", 0), Bar("MEM_64_BAR", 512), Bar("HIGH", 0), NoBar, NoBar>>)
Memory == Dev(<<Vendor, Flex, Locator, Aer>>, TRUE, FALSE, TRUE,
    <<Bar("MEM_64_BAR", 2 * Span32), Bar("HIGH", 0), Bar("MEM_64_BAR", 8192), Bar("HIGH", 0),
      Bar("MEM_32_BAR", 512), Bar("MEM_32_BAR", 1024)>>)
Wide == Dev(<<Flex>>, FALSE, FALSE, TRUE,
    <<Bar("MEM_32_BAR", 2^19), Bar("MEM_32_BAR", 256), NoBar, NoBar, NoBar, NoBar>>)
TypeTwo == Dev(<<Flex>>, FALSE, TRUE, TRUE, <<NoBar, NoBar, NoBar, NoBar, NoBar, NoBar>>)
Apart == Dev(<<Flex, Aer, Locator>>, TRUE, FALSE, TRUE, <<NoBar, NoBar, NoBar, NoBar, NoBar, NoBar>>)
Devices == {Accelerator, Memory, Wide, TypeTwo, Apart, NoDevice}

Engine(rb, trained, negotiated, device) ==
    [rb |-> rb, allocated |-> TRUE, trained |-> trained, CxlControl |-> negotiated,
     negotiated |-> negotiated, device |-> device]
Options(rcec, weight, reporting) ==
    [ReportErrorsToRcec |-> rcec, CxlIoArbWeights |-> weight, CxlCaMemArbWeights |-> weight,
     CnliTokenAdvertisement |-> weight, AmdCxlProtocolErrorReporting |-> reporting,
     CxlCamemRxOptimization |-> rcec, CxlTxOptimizeDirectOutEn |-> rcec]

MCMachines ==
    {[layout |-> l, rbs |-> <<<<0, 0>>, <<1, 0>>>>,
      base |-> (<<0, 0>> :> 0 @@ <<1, 0>> :> 4),
      limit |-> (<<0, 0>> :> 3 @@ <<1, 0>> :> 5),
      engines |-> <<Engine(<<0, 0>>, TRUE, TRUE, d1), Engine(<<0, 0>>, link[1], link[2], d2),
                    Engine(<<1, 0>>, TRUE, TRUE, Memory)>>,
      options |-> o] :
        l \in MCLayouts, d1 \in Devices, d2 \in {Accelerator, Memory}, 
        link \in {<<TRUE, TRUE>>, <<TRUE, FALSE>>, <<FALSE, TRUE>>},
        o \in {Options(TRUE, 0, 0), Options(FALSE, 5, 2)}}
=============================================================================
