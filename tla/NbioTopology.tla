----------------------------- MODULE NbioTopology -----------------------------
(***************************************************************************)
(* The SOC topology complex: the descriptors of all root bridges           *)
(* (silicon), their PCIe cores (wrappers) and ports (engines), linked by   *)
(* offsets, as PcieConfigurationInit (NBIO/IOD/NbioPcie.c) builds it and   *)
(* PcieEnumerateAndHarvestWrappers takes fused-off cores out of it.        *)
(*                                                                         *)
(* A descriptor is a tuple; its header has the type and termination flags  *)
(* of DescriptorFlags and the descriptors its Parent, Peer and Child       *)
(* offsets lead to.  Offset 0 leads to the descriptor itself.  Null is the *)
(* null pointer: page zero reads as zeros, or the read faults.  Wild is    *)
(* where an offset computed from a null pointer leads.                     *)
(***************************************************************************)
EXTENDS Integers, Sequences, SequencesExt

CONSTANTS Bridges,      \* [socket, rb] of each complex, rb the physical number
          FuseChoices   \* what the fuse registers can hold: socket -> fused-off indexes

VARIABLES fuses,    \* the fuse register of each socket, as the set of bits that are 1
          hdr,      \* the descriptors' headers
          pc,       \* "copy", "harvest", "done", or "fault"
          at,       \* the complex the loop has reached
          core,     \* the wrapper the harvest loop has reached
          hidden    \* the wrappers PcieComplexHidePcieCore was called for

topologyVars == <<fuses, hdr, pc, at, core, hidden>>

Complexes == 1..Len(Bridges)

Platform == <<"platform">>
Complex(i) == <<"complex", i>>
Silicon(i) == <<"silicon", i>>
Wrapper(i, w) == <<"wrapper", i, w>>
Port(i, b) == <<"port", i, b>>
Null == <<"null">>
Wild == <<"wild">>

Header(type, term, parent, peer, child) ==
  [type |-> type, term |-> term, parent |-> parent, peer |-> peer, child |-> child]

AllTerms == {"list", "gnb", "topology"}

-----------------------------------------------------------------------------
\* The complex data of one root bridge.

\* IOHC0 of a NBIO container (an even root bridge) has the WAFL wrapper as well.
WrapIds(i) == IF Bridges[i].rb % 2 = 0 THEN <<0, 1, 2>> ELSE <<0, 1>>

\* The bridges of a wrapper's ports, in the order of their descriptors.
Gpp0Ports == <<8, 7, 6, 5, 4, 3, 2, 1, 0>>
Gpp1Ports == <<17, 16, 15, 14, 13, 12, 11, 10, 9>>
WaflPorts == <<21, 20, 19, 18>>

PortsOfWrap == (0 :> Gpp0Ports) @@ (1 :> Gpp1Ports) @@ (2 :> WaflPorts)

WrappersOf(i) == {Wrapper(i, w) : w \in ToSet(WrapIds(i))}

PortsOf(i, w) == [k \in DOMAIN PortsOfWrap[w] |-> Port(i, PortsOfWrap[w][k])]

\* The descriptor that follows s[k], or s[k] itself (offset 0) at the end.
Following(s, k) == IF k = Len(s) THEN s[k] ELSE s[k + 1]

ComplexDataWrappers(i) ==
  LET ws == [k \in DOMAIN WrapIds(i) |-> Wrapper(i, WrapIds(i)[k])]
  IN [d \in ToSet(ws) |->
        LET k == CHOOSE k \in DOMAIN ws : ws[k] = d
        IN Header("wrapper", IF k = Len(ws) THEN AllTerms ELSE {}, Silicon(i),
                  Following(ws, k), Head(PortsOf(i, WrapIds(i)[k])))]

ComplexDataPorts(i) ==
  LET ps == FlattenSeq([k \in DOMAIN WrapIds(i) |-> PortsOf(i, WrapIds(i)[k])])
      wrap(d) == CHOOSE w \in ToSet(WrapIds(i)) : d \in ToSet(PortsOf(i, w))
  IN [d \in ToSet(ps) |->
        LET k == CHOOSE k \in DOMAIN ps : ps[k] = d
        IN Header("port", IF k = Len(ps) THEN AllTerms
                          ELSE IF d = Last(PortsOf(i, wrap(d))) THEN {"list"} ELSE {},
                  Wrapper(i, wrap(d)), Following(ps, k), d)]

ComplexData(i) ==
  (Silicon(i) :> Header("silicon", AllTerms, Silicon(i), Silicon(i), Wrapper(i, 0)))
  @@ ComplexDataWrappers(i) @@ ComplexDataPorts(i)

-----------------------------------------------------------------------------
\* Walking the descriptors h.

RECURSIVE PcieConfigGetChild(_, _, _)
PcieConfigGetChild(h, type, d) ==
  IF d \in {Null, Wild} \/ h[d].type = type THEN d
  ELSE IF h[d].child # d THEN PcieConfigGetChild(h, type, h[d].child)
  ELSE Null

RECURSIVE PcieConfigGetParent(_, _, _)
PcieConfigGetParent(h, type, d) ==
  IF d \in {Null, Wild} \/ h[d].type = type THEN d
  ELSE IF h[d].parent # d THEN PcieConfigGetParent(h, type, h[d].parent)
  ELSE Null

\* The first descriptor from d on with the termination flag.  A walk in a
\* circle never ends; it is Wild.
RECURSIVE GetPeerFrom(_, _, _, _)
GetPeerFrom(h, flag, d, seen) ==
  IF d \in {Null, Wild} \/ flag \in h[d].term THEN d
  ELSE IF h[d].peer = d THEN Null
  ELSE IF h[d].peer \in seen THEN Wild
  ELSE GetPeerFrom(h, flag, h[d].peer, seen \union {d})

PcieConfigGetPeer(h, flag, d) == GetPeerFrom(h, flag, d, {})

PcieConfigGetNextTopologyDescriptor(h, d) ==
  IF d \in {Null, Wild} THEN d
  ELSE IF "topology" \in h[d].term THEN Null ELSE h[d].peer

\* The next element of the array a wrapper's descriptor is in.
PcieLibGetNextDescriptor(h, d) ==
  IF "list" \in h[d].term THEN Null ELSE Wrapper(d[2], d[3] + 1)

\* The first n descriptors from d on, or fewer where the list ends; Wild stands
\* for an end that is none.
RECURSIVE WalkUpTo(_, _, _)
WalkUpTo(h, d, n) ==
  IF d = Null THEN << >>
  ELSE IF d = Wild \/ n = 1 THEN <<d>>
  ELSE LET first == WalkUpTo(h, d, n \div 2)
       IN IF Len(first) < n \div 2 \/ Last(first) = Wild THEN first
          ELSE first \o WalkUpTo(h, PcieConfigGetNextTopologyDescriptor(h, Last(first)), n - n \div 2)

\* All of them.  More than there are is a circle.
WalkFrom(h, d) ==
  LET all == Cardinality(DOMAIN h)
      walk == WalkUpTo(h, d, all + 1)
  IN IF Len(walk) > all THEN Append(walk, Wild) ELSE walk

PcieConfigRunProcForAllWrappers(h) ==
  WalkFrom(h, PcieConfigGetChild(h, "wrapper", Platform))

PcieConfigRunProcForAllEngines(h) ==
  WalkFrom(h, PcieConfigGetChild(h, "port", Platform))

GnbHandles(h) == WalkFrom(h, PcieConfigGetChild(h, "silicon", Platform))

\* The beginning of the walk s whose descriptors are below the descriptor top.
Below(h, type, top, s) ==
  LET out == {k \in DOMAIN s : PcieConfigGetParent(h, type, s[k]) # top}
  IN IF out = {} THEN s ELSE SubSeq(s, 1, (CHOOSE k \in out : \A j \in out : k <= j) - 1)

PcieConfigRunProcForAllWrappersInNbio(h, silicon) ==
  Below(h, "silicon", silicon, WalkFrom(h, PcieConfigGetChild(h, "wrapper", silicon)))

PcieConfigRunProcForAllEnginesInWrapper(h, wrapper) ==
  Below(h, "wrapper", wrapper, WalkFrom(h, PcieConfigGetChild(h, "port", wrapper)))

LastOrNull(s) == IF s = << >> THEN Null ELSE Last(s)


-----------------------------------------------------------------------------
\* Building the lists.

\* Left is made to lead to right and ends the topology no more.  A right that
\* is null gives an offset that leads nowhere.
Link(h, left, right) ==
  IF left \in {Null, Wild} THEN h
  ELSE [h EXCEPT ![left].peer = IF right = Null THEN Wild ELSE right,
                 ![left].term = @ \ {"topology"}]

\* NbioPcie.c: the end of base's list of a type is linked to the beginning of new's.
PcieConfigAttachDescriptors(h, type, base, new) ==
  LET left == PcieConfigGetPeer(h, "gnb", PcieConfigGetChild(h, type, base))
      right == PcieConfigGetChild(h, type, new)
  IN IF left = Null \/ right = Null THEN h ELSE Link(h, left, right)

PcieConfigAttachComplexes(h, base, new) ==
  LET h0 == Link(h, base, new)
      h1 == PcieConfigAttachDescriptors(h0, "silicon", base, new)
      h2 == PcieConfigAttachDescriptors(h1, "wrapper", base, new)
  IN PcieConfigAttachDescriptors(h2, "port", base, new)

\* One round of PcieConfigurationInit's loop: the complex's headers, the copy of
\* the complex data, its place below the platform and after the complex before.
CopyComplex ==
  /\ pc = "copy"
  /\ at \in Complexes
  /\ LET copied == (Complex(at) :> Header("complex", AllTerms, Platform, Complex(at), Silicon(at)))
                   @@ [ComplexData(at) EXCEPT ![Silicon(at)].parent = Complex(at)]
                   @@ hdr
     IN hdr' = IF at = 1 THEN copied
               ELSE PcieConfigAttachComplexes(copied, Complex(at - 1), Complex(at))
  /\ at' = at + 1
  /\ UNCHANGED <<fuses, pc, core, hidden>>

\* PcieFixupComplexDefaults and PcieFixupPlatformConfig (PkgTypeFixups) change
\* settings and no link; then the harvest starts with the first complex.
FixupAndHarvest ==
  /\ pc = "copy"
  /\ at \notin Complexes
  /\ pc' = "harvest"
  /\ at' = 1
  /\ core' = PcieConfigGetChild(hdr, "wrapper", Silicon(1))
  /\ UNCHANGED <<fuses, hdr, hidden>>

-----------------------------------------------------------------------------
\* Taking a core out (NbioHidePcieCore.c).

\* NbioHidePcieCore.c has its own, which takes a null right as it comes.
HideAttachDescriptors(h, type, base, new) ==
  Link(h, PcieConfigGetPeer(h, "gnb", PcieConfigGetChild(h, type, base)),
       PcieConfigGetChild(h, type, new))

RECURSIVE LastInArray(_, _)
LastInArray(h, d) ==
  IF d \in {Null, Wild} \/ PcieLibGetNextDescriptor(h, d) = Null THEN d
  ELSE LastInArray(h, PcieLibGetNextDescriptor(h, d))

\* The last wrapper of the instance before this core's.
FindPrevPcieCore(h, this) ==
  LET silicon == PcieConfigGetParent(h, "silicon", this)
  IN IF silicon \in {Null, Wild} THEN Null
     ELSE LastInArray(h, PcieConfigGetChild(h, "wrapper", Silicon(silicon[2] - 1)))

\* A core and the ones before and after it among the wrappers ws.
Around(ws, d) ==
  LET here == {k \in DOMAIN ws : ws[k] = d}
      k == CHOOSE k \in here : TRUE
  IN IF here = {} THEN [this |-> Null, prev |-> LastOrNull(ws), next |-> Null]
     ELSE [this |-> d, prev |-> IF k = 1 THEN Null ELSE ws[k - 1],
           next |-> IF k = Len(ws) THEN Null ELSE ws[k + 1]]

\* The wrappers are those of the core's root bridge.
FindPcieCoreDesc(h, i, w) ==
  Around(PcieConfigRunProcForAllWrappersInNbio(h, Silicon(i)), Wrapper(i, w))

\* The first core of a root bridge follows the last one of the root bridge before.
AcrossInstances(h, i, c) ==
  LET first == c.prev = Null
      last == c.next = Null /\ c.this # Null
  IN [this |-> c.this, first |-> first, last |-> last,
      prev |-> IF first /\ i # 1 THEN FindPrevPcieCore(h, c.this) ELSE c.prev,
      next |-> IF last THEN PcieConfigGetNextTopologyDescriptor(h, c.this) ELSE c.next]

WithPorts(h, c) ==
  [this |-> c.this, prev |-> c.prev, next |-> c.next, first |-> c.first, last |-> c.last,
   firstPortOnNext |-> PcieConfigGetChild(h, "port", c.next),
   lastPortOnPrev |-> LastOrNull(PcieConfigRunProcForAllEnginesInWrapper(h, c.prev)),
   lastPortOnThis |-> LastOrNull(PcieConfigRunProcForAllEnginesInWrapper(h, c.this))]

\* What PcieComplexHidePcieCore knows of the cores before it changes anything.
HideInfo(h, i, w) == WithPorts(h, AcrossInstances(h, i, FindPcieCoreDesc(h, i, w)))

HideFirstPcieCore(h, i, c) ==
  LET linked == IF i = 1 THEN h
                ELSE HideAttachDescriptors(
                       HideAttachDescriptors(h, "wrapper", c.prev, c.next),
                       "port", c.lastPortOnPrev, c.firstPortOnNext)
  IN [linked EXCEPT ![Silicon(i)].child = IF c.next = Null THEN Wild ELSE c.next]

\* The flags of d2 are added to d1's.
AddFlags(h, d1, d2) ==
  IF {d1, d2} \intersect {Null, Wild} # {} THEN h
  ELSE [h EXCEPT ![d1].term = @ \union h[d2].term]

\* (A mutation of HideLastPcieCore: the termination flags are not handed over.)
HideLastPcieCoreFlagless(h, c) ==
  IF c.next = Null THEN h
  ELSE HideAttachDescriptors(
         HideAttachDescriptors(h, "wrapper", c.prev, c.next),
         "port", c.lastPortOnPrev, c.firstPortOnNext)

HideLastPcieCore(h, c) ==
  LET ended == AddFlags(AddFlags(h, c.prev, c.this), c.lastPortOnPrev, c.lastPortOnThis)
  IN IF c.next = Null THEN ended
     ELSE HideAttachDescriptors(
            HideAttachDescriptors(ended, "wrapper", c.prev, c.next),
            "port", c.lastPortOnPrev, c.firstPortOnNext)

HideMiddlePcieCore(h, c) ==
  [h EXCEPT ![c.prev].peer = c.next, ![c.lastPortOnPrev].peer = c.firstPortOnNext]

HidePcieCore(h, i, c) ==
  IF c.first THEN HideFirstPcieCore(h, i, c)
  ELSE IF c.last THEN HideLastPcieCore(h, c)
  ELSE HideMiddlePcieCore(h, c)

PcieComplexHidePcieCore(h, i, w) == HidePcieCore(h, i, HideInfo(h, i, w))

\* Whether that reads a header through a null pointer.
HideReadsNull(h, i, w) ==
  LET c == HideInfo(h, i, w)
  IN Null \in {c.this, c.prev} \/ (c.first /\ c.next = Null)

\* The fuse of a wrapper: with WrapId 2 the index is the next root bridge's.
FuseIndex(i, w) == 2 * Bridges[i].rb + w

Fused(i, w) == FuseIndex(i, w) \in fuses[Bridges[i].socket]

\* One round of the harvest's inner loop.
HarvestWrapper ==
  /\ pc = "harvest"
  /\ core # Null
  /\ LET i == core[2]
         w == core[3]
     IN /\ \/ /\ ~Fused(at, w)
              /\ UNCHANGED <<hdr, pc, hidden>>
           \/ /\ Fused(at, w)
              /\ hidden' = hidden \union {core}
              /\ \/ hdr' = PcieComplexHidePcieCore(hdr, at, w) /\ pc' = pc
                 \/ HideReadsNull(hdr, at, w) /\ pc' = "fault" /\ UNCHANGED hdr
        /\ core' = PcieLibGetNextDescriptor(hdr', core)
  /\ UNCHANGED <<fuses, at>>

\* The outer loops: the next complex, found by adding one.
HarvestNextComplex ==
  /\ pc = "harvest"
  /\ core = Null
  /\ IF "topology" \in hdr[Complex(at)].term
     THEN pc' = "done" /\ UNCHANGED <<at, core>>
     ELSE /\ at' = at + 1
          /\ core' = PcieConfigGetChild(hdr, "wrapper", Silicon(at + 1))
          /\ pc' = pc
  /\ UNCHANGED <<fuses, hdr, hidden>>

TopologyInit ==
  /\ fuses \in FuseChoices
  /\ hdr = (Platform :> Header("platform", {"list", "topology"}, Platform, Platform, Complex(1)))
  /\ pc = "copy"
  /\ at = 1
  /\ core = Null
  /\ hidden = {}

TopologyNext ==
  \/ CopyComplex
  \/ FixupAndHarvest
  \/ HarvestWrapper
  \/ HarvestNextComplex

-----------------------------------------------------------------------------
\* Properties.

\* All wrappers, in the order of the complexes; all ports likewise.
WrapperOrder ==
  FlattenSeq([i \in Complexes |-> [k \in DOMAIN WrapIds(i) |-> Wrapper(i, WrapIds(i)[k])]])

PortOrder ==
  FlattenSeq([k \in DOMAIN WrapperOrder |-> PortsOf(WrapperOrder[k][2], WrapperOrder[k][3])])

\* A root bridge that lost all of its cores.  Its last core is both the first and
\* the last of its list, and PcieComplexHidePcieCore takes it out as the first
\* only: the root bridge's child becomes the first core of the next root bridge.
\* That is right unless there is none, or it is taken out as well.
Stranded(i) ==
  /\ WrappersOf(i) \subseteq hidden
  /\ i + 1 \in Complexes => Wrapper(i + 1, 0) \in hidden

\* After the harvest every walk the rest of openSIL makes over the topology - all
\* wrappers, all ports, the wrappers of a root bridge, the ports of a wrapper, the
\* root bridges - meets exactly the cores that were not taken out, once each, in
\* order, and ends.  The exception is a topology with a stranded root bridge: there
\* only the walk over the root bridges is promised.  A null pointer is read for such
\* a root bridge, and for the very first core, which has none before it, and never
\* else.
TopologyExact ==
  /\ pc = "fault" => Wrapper(1, 0) \in hidden \/ \E i \in Complexes : WrappersOf(i) \subseteq hidden
  /\ pc = "done" => GnbHandles(hdr) = [i \in Complexes |-> Silicon(i)]
  /\ pc = "done" /\ (\A i \in Complexes : ~Stranded(i)) =>
       LET stays(d) == d \notin hidden
           onKept(d) == hdr[d].parent \notin hidden
       IN /\ PcieConfigRunProcForAllWrappers(hdr) = SelectSeq(WrapperOrder, stays)
          /\ PcieConfigRunProcForAllEngines(hdr) = SelectSeq(PortOrder, onKept)
          /\ \A i \in Complexes :
               PcieConfigRunProcForAllWrappersInNbio(hdr, Silicon(i)) =
                 SelectSeq(WrapperOrder, LAMBDA d : d[2] = i /\ d \notin hidden)
          /\ \A d \in ToSet(WrapperOrder) \ hidden :
               PcieConfigRunProcForAllEnginesInWrapper(hdr, d) = PortsOf(d[2], d[3])
=============================================================================
