# openSIL in TLA+

A verification project for openSIL, the AMD Silicon Initialization Library: TLA+
modules that model the library, TLC configurations that check them on small
instances, and TLAPS proofs of the main safety properties for all instances.
`PROJECT.json` lists components, runs, mutants, theorems, hazards and, for every
definition that models code, the source lines it stands for.

## The system

A host firmware calls **xSIM** at three time points (before and after PCI
enumeration, and late). At time point 1 the host asks how much memory openSIL
needs, provides a block and gets the IPs' info blocks in it, an append-only heap
of headed blocks that everybody searches by IP and instance. xSIM then walks a
list of IP records, calls each IP's `Initialize` and collects the resets they ask
for. **xUSL** holds the IPs and the services between them, **xPRF** a set of
queries for the host.

| part | what it does | modelled in |
|---|---|---|
| xSIM core | memory assignment, info-block heap, lookup, walk over the IPs, deferred resets | `XSim` |
| record lists (F19M10, i.e. Genoa) | the IPs of each time point with the sizes they ask for | `IpBlkListF19M10` |
| CCX, launch of the APs | one core after the other runs start-up code in memory borrowed from the host | `ApLaunch`, `ApLaunchAbs`, `CcxTables` |
| CCX, registers of the threads | tables, microcode, MCA, C6, RMP, MTRRs, on the BSP and on every AP; the SRAT of xPRF | `CcxTables`, `CcxThreads` |
| CCX, down coring | cores are switched off by registers and resets | `DownCore` |
| resource manager, start-up | MMIO, IO ports and buses for the root bridges | `RcMgrMmio`, `RcMgr` |
| resource manager, pool | MMIO reservations at run time | `RcMgrPool` |
| MPIO, flow | PCIe links are trained by a firmware processor behind a mailbox | `MpioInit`, `MpioPorts` |
| MPIO, settings | the platform's topology becomes asks, straps and registers of ports | `PkgTypeFixups`, `MpioTopology`, `MpioCfgPoints`, `MpioDxio` |
| NBIO | topology of root bridges, cores and ports; register tables; IOMMU, IOAPIC, top of memory | `NbioTopology`, `NbioTables`, `Nbio` |
| FCH | ACPI, A-link, SATA, SPI, USB, I2C and UART, eSPI, the FCH of the second socket | `FchRegs`, `FchHwAcpi`, `FchDevices`, `FchUsb`, `FchEspi`, `Fch` |
| CXL | ports with CXL links: buses, RCRBs, BARs, resources of the device | `Cxl` (on `RcMgrPool`) |
| SMU, DF, APOB, SDCI, common library | services and tables of the above | where the above use them |
| RAS, MEM, XMP | records and queries without state | records only |

How the parts interact: xSIM calls everything else. Down coring runs before the
launch of the APs and reads SMU's fuses and the APOB; the launch lets each AP run
the code of `CcxThreads`, which relies on `OneApAtATime` of `ApLaunch` (an AP runs
to its end there). The resource manager's start-up leaves the windows the pool
hands out; `PoolLayoutOK` of `RcMgr` states what `RcMgrPool` assumes of them
(`LayoutAssumption`). NBIO and CXL reserve from the pool: `Cxl` is a composition
with `RcMgrPool`, whose actions interleave with its own; `Nbio` leaves the number
of reservations that succeed open. `MpioInit` has the messages and the training,
`MpioDxio` the settings that travel with them. Both use the ports NBIO's complex
data describes.

## Modules

Names of variables and definitions are the source's where possible. Every module
starts with a comment that says what it covers and what its units are.

**XSim** (`xSIM/xSIM.c`, `CommonLib/SilCreateInfoBlock`, `xUslFindStructure`).
The state is `SIL_BLOCK_VARIABLES`, the chain of headers and the place in the
three loops. The host queries, assigns a block, lets the IPs put their input
into it (`SetInput`), and initialises; it may be reset at any moment. An IP is its
record: what it asks for, creates, looks up and may return. Arithmetic is that of
`uint32_t` (`Uint32`). `IpBlkListF19M10` has the three record tables.

**ApLaunch** (`CCX/Common/Ccx.c`, `CcxApLaunch*.c`, `ApAsm*.nasm`). BSP and APs
interleave: the BSP saves and patches the memory at the reset vector, asks SMU
for one thread at a time and spins on a counter in that memory; an AP takes the
common stack, programs its registers, increments the counter and halts. The
order of the launches and which of them SMU refuses are constants; `CcxTables`
computes them from an APOB topology. `ApLaunchAbs` is the promise: the memory is
taken, threads run one at a time and finish, the memory is given back.

**CcxTables, CcxThreads** (`AmdTable.c`, `CcxResetTablesZen4.c`, `xUslCcxRoles.c`,
`Ccx.c` and its helpers, `CoreTopologyService.c`, `xPrfCcx.c`). `CcxTables` is the
topology, APIC ids, roles and which table entries apply to a thread. In `CcxThreads` the BSP sets up itself, collects
what the APs are to copy, and lets each AP walk its own steps; a step is one
procedure, or one entry of a table. The three time points and the SRAT follow.

**DownCore** (`CcxDownCoreInit.c`, `Zen4DownCoreInit.c`, `Ccx.c`, `SmuV13.c`). A
boot decides from fuses, APOB and the user's request whether to switch cores off
and ask for a warm reset, or to bring all back by a cold one. The model runs over any
number of boots, and the request may change at a reset.

**RcMgrMmio, RcMgr** (`RcMgr/DfX/FabricRcInitDfX.c`,
`FabricRcInitBasedOnNv4.c` and neighbours). The first is arithmetic: windows above
and below 4G, from the sizes in an NV variable or evenly. `RcMgr` has that of IO
ports and buses, and the state machine of the start-up: the attempt with the NV
sizes, the search over which root bridges go above the PCIe configuration space,
and the fall-backs. Addresses count DF granules; assertions are recorded
and the run goes on, as in a release build.

**RcMgrPool** (`FabricResourceManager.c`). `FabricReserveMmio` over any sequence
of requests: alignment, the second window of the primary root bridge, and the
size that is returned when a request is too large.

**MpioInit, MpioPorts** (`Mpio/Common`, `Mpio/Genoa`, `NBIO/IOD`). `MpioInit` is
the flow of `NbioInitializeDxio` as a queue of steps; each function of the source
is the sequence of steps it makes. `MpioServiceRequestCommon` is four steps
(arguments, message number, doorbell, answer) that interleave with one MPIO per
socket. The MPIO firmware is external: it answers a posted message before or after
carrying it out, and reports what became of each link. `MpioPorts` has the
functions and bridge numbers of the ports, the remap registers and the visibility
of bridges. `MpioPortMapping` has one action per round of its loops. The port
authentication hooks are compiled out in the source's build and left out.

**Registers** is the vocabulary of the register programming modules: a run of
writes is a function from the fields it touches to what it leaves there, and two
runs compose by override, so that a branch of the code is a conjunct under `When`
and the order of writes is the order of the text. (`Overlay` is the same composition
written out, for the actions that are proved about.)

**PkgTypeFixups, MpioTopology, MpioCfgPoints, MpioDxio** (`NBIO/IOD/PkgTypeFixups.c`,
`Mpio/Common/MpioTopology.c`, `MpioParser.c`, `MpioMappingResults.c`,
`MpioAncDataV1.c`, `Mpio/Genoa/MpioCfgPoints.c`, `MpioPcie.c`). A port's settings
go from defaults by package, over the entries and parameters of the host's
topology and the workarounds, to straps and register fields. `MpioDxio` is the
state machine: one step per descriptor, socket, wrapper, engine or root bridge of
each configuration point.

**NbioTopology, NbioTables, Nbio** (`NBIO/Nbio.c`, `NbioPcie.c`,
`NbioHidePcieCore.c`, `NbioPcieTopologyHelper.c`, `NbioBaseInitGenoa.c`,
`NbioSmnTables.c` and the tables, `NbioIommu.c`, `NbioIoapic.c`, `NbioTopMem.c`).
Descriptors are linked by offsets, as in the code, so that taking a core out is
pointer surgery and a walk may go astray. Register bits carry what has been
written; the address blocks of root bridges overlap as they do on the SoC.

**Fch and its parts** (`FCH/Common`, `FCH/9004`). Each block is the function of
its writes of the input block; `FchRegs` gives every bit an address, so accesses
of 8, 16 and 32 bits meet, and has the A-link bridge; `FchDevices` has I2C, UART, SATA
and SPI. `Fch` runs the blocks of time point 1 and then one of
the entry points of the host. Where the code waits, hardware takes the other
steps: AOAC devices that power up late or never, the serial GPIO engines, the
eSPI controller and its device, and the 8-bit timer a delay is counted with.

**Cxl** (`Cxl/Common/CxlInit.c`, `Cxl/Genoa/CxlCmn2.c`). One action per engine
and phase: find, RCRB, bus, BAR, and the walk over capabilities, DVSECs and BARs
of the device, whose register contents are an input. Other drivers reserve MMIO
before and after.

## Runs

| run | instance | what it shows |
|---|---|---|
| `xsim` | F19M10 lists and an IP that asks for resets, 12 block sizes | heap accounting, headers tile the used part, the queried size is enough, no `Initialize` misses a block, the host is told the highest order reset |
| `ap_launch` | two regular topologies, one irregular one | one AP at a time, none lost, host memory restored, refinement of `ApLaunchAbs`, all launched where all are there |
| `ccx` | 5 machines, 5 input blocks, 3 microcode images, 60,520 states | every thread, core and complex ends up with what the BSP was set up with; the SRAT lists each thread |
| `mmio_pool` | 2 root bridges, 3 slots, sizes 0, 1, 3 | no address twice, requests aligned and inside, retry succeeds |
| `rcmgr` | 1546 inputs, 21,999 states | disjoint MMIO, IO and buses; clear of configuration and legacy space; the search is complete and ends |
| `rcmgr_stale_pairs` (violation) | an NV attempt that fails | the finding below |
| `down_core` | 12 machines, 41 requests, 22,776 states | cores are left, requests honoured, all cores come back, resets end but for the requests named in `Unsettled` |
| `mpio_init` | 20 platforms, 2 sockets, 10,127 states | commands are serialised and in order, answers are MPIO's; bridge numbers and remap registers agree with the links, links that trained are visible; the flow ends |
| `mpio_dxio` | 20 topologies, 7 ports, 65,460 states | a parameter reaches its port and no other, later writes keep straps, DPC status is recorded once, asks and ancillary data read back |
| `nbio` | 4 root bridges, all sets of fused-off cores, 14,180 states | walks over the harvested topology are exact but for a root bridge that is `Stranded`, no setting is undone, running out of MMIO leaves no half-programmed IOMMU, memory decoded as the MSRs say but for `LosesBit40` and `EnabledByChance` |
| `fch` | each option turned over, 9,324 states | no block undoes another, the SMU is told the USB options but for one that goes `Astray`, eSPI commands run whole and channels agree, the second FCH is kept apart, the flow ends |
| `cxl` | 2 sockets, 3 engines, 6 kinds of devices | buses, RCRBs and BARs without overlap or leak, together with other reservations; sizes hold the BARs |

Each property of a passing run has a mutant of the code in `PROJECT.json`, a
plausible slip that the property rejects.

### Bounds

* `xsim`: sizes are the program's own (`VarsSize`, `HdrSize` from the structures).
  `Uint32` is 2^20 because TLC's integers have 32 bits; all sizes stay
  below and the wrap-around occurs with blocks smaller than the private variables.
  The block sizes are the values around every threshold of the record list. The
  IP that asks for resets is one a platform would add (`OemClass`), no IP of the lists does.
* `ap_launch`: two sockets, two CCDs, two complexes and two threads per core occur,
  each at least once. The counter is 4 bits wide instead of 16 and cannot wrap
  within the orders (`OrderAssumption`); proofs cover the rest.
* `ccx`: up to two sockets, CCDs, complexes, cores and threads, so that each level
  has a primary and another one. `XAPIC_ID_MAX` is 6 instead of 255: the machines
  lie on both sides of it.
* `mmio_pool`: windows of a few granules, so that requests exhaust them.
* `rcmgr`: memory maps scaled down to 200 granules with the order of
  the fixed addresses kept; four root bridges per socket, one or two sockets.
* `down_core`: the real numbers, 12 CCDs of 8 cores. The machines have their lowest CCDs
  and cores.
* `mpio_init`: wrappers of three and two ports and one function more than ports;
  a search that misses a later or earlier engine shows with three. Topologies have
  up to three ports, the least for a rotation of functions.
* `mpio_dxio`: ports of one core, of neighbouring cores, of a reversed core, of
  the bonus lanes and of the other socket; two DPC records, so that they run out.
* `nbio`: one socket with its four root bridges and the real tables; all 256
  sets of fuses; room for 0 to 2 reservations; no memory above 4 GB, and memory that
  ends below, at and above 1 TB.
* `fch`: the default input blocks, and each option turned over on its own; polls
  give up after two rounds (`MAX_ESPI_RETRY`, `FCH_AOAC_RETRY`), the timer
  starts low and near its wrap-around (`TimerStarts`) and moves three ticks
  a poll (`PollTicks`).
* `cxl`: a root bridge with one port and one with two; windows that hold all
  and windows that do not; three reservations by others (`MaxReservations`).

Deadlock is off only where the program ends without a self-loop in the model
(`ap_launch`, `rcmgr`, `rcmgr_stale_pairs`, `down_core`, `nbio`, `fch`, `cxl`).

### Fairness

* `ApLaunch`: weak fairness of the BSP and of every AP; processors
  run. A refused launch is still possible for every thread not in `Launchable`.
* `DownCore!FairSpec`: weak fairness of `Step`, a boot goes on. The user
  need not ask for anything.
* `MpioInit!FairSpec`: weak fairness of the host and of each MPIO. The waits of
  `MpioLib.c` have no timeout, so the code relies on a firmware that answers.
* `Fch`: weak fairness of the code, the GPIO engine, the eSPI controller and each
  eSPI channel. The code polls the last three without a limit in places
  (`FchSata.c:426`, `FchEspi.c:310`) and so relies on them. AOAC devices need never
  power up: there the code has a limit.

## Proofs

All for arbitrary constants that satisfy the named assumptions.

**XSimProofs**. `TypeCorrect`, `HeapSafe`, `QueryEnough`, `ResetReported`,
`LookupsSucceed`. Assumptions: `SizesAssumption`, `ListAssumption`,
`TotalsAssumption` (what the running totals `Need`, `SetEnd`, `LateEnd` are),
`RoomAssumption` (what an IP creates is within what it asks for) and
`LookupAssumption` (what an IP looks up is created by a `SetInput`, or by the
`Initialize` of a record that comes before at time point 1);
the runs evaluate them for the F19M10 lists. `HeapSafe` uses `HeapInv`: offset and
space left add up to the block, unless the block was smaller than the private
variables, and the headers tile the part below the offset. `QueryEnough` needs the
history of the loops: `Budget` says how far the heap has got at every place of the
three loops in terms of the totals. `ResetReported` carries the highest request since
power on. `LookupsSucceed` adds `LookupInv` to `QueryEnough`: everything that the
records passed so far (`Passed`) create is in the chain. Without the budget it
does not hold: a block that is too small ends the creation of blocks early.

**ApLaunchProofs**. `LaunchSafe`, `LaunchRestores` and `LaunchRefines`, for the 32 bit
files (a hypothesis of the theorems: with the 64 bit ones the APs run other
code, see the observations) and every topology, order and set of refused launches.
The inductive invariant is `TypeOK`, the types of the MTRRs, `BspInv` (what the
region and the counter hold at each place of the BSP; in the wait exactly the thread
just launched may run) and `ApInv` (what an AP at each place has seen).
`OneApAtATime` alone is not inductive: it does not say that the counter is behind
while an AP runs. `LaunchRestores` is a property of steps and follows from it: when the
BSP puts the host's data back no AP is left that would write there. The refinement maps
region and counter to the state of the reset vector, the APs to the sets of
running and finished threads.

**RcMgrPoolProofs**. `PoolSound` and `PoolRetry`, for every layout of
disjoint windows. The invariant adds that windows keep base and size
and that everything granted lies in the used part of its window.

**CxlProofs**. `CxlPoolSound` and `CxlRcrbsOwned`, for every machine
(`MachineAssumption`: root bridges with disjoint bus ranges, any number of
engines, any device) and any requests of other drivers that can be told from
CXL's (`OthersAssumption`). `Steps` sorts the actions of the composition into
steps that leave the grants alone, reservations of other drivers, new RCRBs
and new BAR0s; the rest argues about these four. The invariant adds to that
of the pool how far `CxlPortInit` has got (`MachineInv`, `AtInv`), what the engines
not yet visited hold (`EngineInv`: nothing, so an RCRB is not overwritten and lost)
and the two directions between grants and descriptors (`OwnInv`). `RcrbsOwned` alone
is not inductive: it does not say that a new grant has a base no port holds.

**CxlBusProofs**. `CxlBuses`. `BusInv` counts: the limit of a root bridge has come
down by the number of its ports with an RCRB, and what was given out lies above it.
With a bus for each port the next one is therefore still in the range.

**MpioPlanProofs, MpioInitProofs**. `CommandsOrdered`, for any number of sockets, root
bridges and ports, any order of the handles (`HandlesAssumption`: `SocketOrder` lists
every socket once), any platform, and firmware that accepts, answers and finishes in
any order the mailbox allows. The three parts of `CommandsInOrder` speak of MPIO's
past; the invariant speaks of the host's future. `PlanOK` says what the queue of steps
still holds: behind a stage of the set-up the status request that waits for it, behind
a training the `FinishInstance` of its socket, one release of the slots after all
parsing and before all training. Every step of the host puts a sequence, possibly empty,
in the place of the head; `Replaces` says which ones may, `PlanStep` that they keep
the plan, and `PlanInit` that the plan `NbioInitializeDxio` starts with is in order.
`MailOK` and `TakenOK` tie the registers to the request the host is in and to what
MPIO has made of it; `StageOK` and `TrainOK` tie what MPIO carries out to the head of
the queue; `ReleaseOK` says that the set-up of a socket with ports is done, in
progress, or ahead of the slot reset. None of the three parts is inductive alone: that
only a status request comes next depends on the whole queue. `MpioPlanProofs` has
the invariant, the queue and the mailbox, `MpioInitProofs` the host's steps and the
theorem.

**FchProofs**. `ChannelsReady`, `CommandsWhole`, `SecondApart`, for every set of input
blocks and capabilities (`FchAssumption`: an input is typed as the register fields are)
and every device that answers at any time. The invariant has four parts.
`EspiTypes`. `CommandsOK` follows a command through the fields of the
header: the copy never carries the status bit, what is filled in so far is the
command's, and the register has the bit only while the host waits. `ReadyOK` follows the
channels: those already handled are enabled and ready on both sides, the one at work
as far as its commands have run, the others off. `StageOK` ties both, and the window
and the I/O ports of the second FCH, to the place in the code. The hypotheses of the
properties come from the code: `late` is a poll that ran out (`FchEspi.c:84`),
after which the code goes on with a command that is still running; the peripheral
channel enabled on entry is the stray command of the in-band reset
(203), and with OOB the code enables flash access (328). `SecondApart` computes which
address spaces a setting can reach (`Within`). `@@` of module TLC has no definition the
provers can use, so these actions use `Overlay`.

Only model-checked:

* liveness (`AllLaunched`, `Settles`, `Terminates`, `FchEnds`), which the prover does not do;
* what is computed by folds, sorts and searches over data, since induction over data is
  beyond the prover: `RcMgrMmio` and `RcMgr`, the decisions of `DownCore`, the DPC records
  and asks of `MpioDxio`, the bridge numbers of `MpioPorts` (`PortsAsAsked`,
  `TrainedAsReported`), `CxlIoCovered`, the SRAT;
* `Nbio`, whose walks are recursive operators;
* walks over concrete tables, where the instance is the program's own:
  `CcxThreads`, `OptionsHold` and `UsbTold` of `Fch`, `MpioCfgPoints`;
* the values of `MCNeed` and the other running totals.

## Finding

`rcmgr_stale_pairs`, `FabricRcInitDfX.c:619`: after a failed attempt above 4G an even
share below the minimum is skipped and leaves the pair of the attempt enabled.

## Observations

Met while modelling. The passing runs leave these inputs out, the property names
the exception, or the code contradicts no statement.

* xSIM: after a deferred reset request the loop calls the same IP again
  (`xSIM.c:605`), where the comment above says it goes on to the next.
  `xSimAssignMemoryTp1` accepts a block below the queried size
  (327), and the space left wraps around for one below the private
  variables (283).
* AP launch: the expected count is incremented even if the launch is refused, so
  with a CCD smaller than CCD 0 the BSP waits for ever (`Ccx.c:454`, 464). The 64 bit
  start-up code is patched with the address of a parameter
  (`CcxApLaunch64.c:218`), and its MTRR list is copied from the address of a
  pointer (297).
* CCX: the HWCR entry of the reset table has `AMD_PF_APIC` where the family belongs
  (`CcxResetTablesZen4.c:39`) and never applies. SMEE, VMPL and some
  MSRs that are not in the list for the APs are set on the BSP alone. Compatibility
  mode with 255 threads or more leaves x2APIC off. The masks of complex primaries
  are fixed while the shift depends on the cores. `AmdTable.c:753` does not advance over an
  entry type it does not know. `CcxMicrocodePatch.c:206` truncates an address before it
  asserts on it. In `xPrfCcx.c` the SRAT's size is checked for the caller's
  mode and the entries are of the configured one.
* Down coring: two sockets with eight of twelve CCDs reset for ever in xAPIC mode
  (`BackAndForth`), against the comment "to prevent infinite reset loop"
  (`CcxDownCoreInit.c:467`). So do bitmaps that leave out cores a CCD does not have, as
  bits 8 to 15 (`BitMapsFit`, 524). A request that changes
  while the machine is down cored is not honoured because the masks are cleared; absent
  CCDs count as fused off; CCD 0 stands for all CCDs; `SmuDisableSmt` is NULL
  for SMU V13 (577).
* Resource manager: padding between prefetchable and other regions can push the
  second region out of its pair (`FabricRcInitBasedOnNv4.c:1357`), a moved region can
  lose its alignment (1201), the search can miss a distribution that a move makes
  possible (537), a configuration space that ends high can cover the legacy range (1027);
  `FabricRcInitDfX.c:598` ignores a configuration space above 1T, :335 divides by a
  number that may be 0, :88 overwrites a status, and :59 asserts one socket.
  `MCRcMgr` keeps the inputs of these cases out.
* MPIO flow: the posted flag is lost in `RequestId & 0xFF`. `SwapLogicalBridgeId`
  searches from the engine on, within its wrapper: when a port moves to the
  function of a port nobody asked for that is listed before it, or is of another
  wrapper, two engines hold one bridge number and the freed bridge stays visible. Two
  ports asking for one function both get its bridge number. `MpioData` of a
  socket without topology is not initialised. `SyncEarlyTrainRemap` may overwrite
  a mapping of the user. Ports that are unused or hot-pluggable stay hidden unless
  they train (`ToBeExposed`), where the comments say "Enable visibility of links that
  trained or support hotplug" (`Genoa/MpioPortVisibility.c:61`) and "Always expose
  unused PCIE port" (`MpioStructs.h:467`).
* MPIO settings: `MPIO_PP_ASPM_L1_1`, `L1_2`, the DLF, CXL and unused-lane parameters
  never reach a strap; PHY and speed overrides that alternate are not read
  back; the size of the extended attributes is one word short; strap 883 lands in
  the block of the port before; an untrained port 8 writes its slot number to port 0;
  `Genoa/MpioCfgPoints.c:824` and 1158 test the logical id inverted; PHY
  parameters are repeated for later sockets; the UBM discovery adds no entry.
* NBIO: a root bridge that loses all cores, the next one losing its first core or
  there being no next one, is left with a list that leads to a core that is gone, to
  nowhere or in a circle (`Stranded`, `NbioHidePcieCore.c:311`), against the comment
  "to prevent any access to the missing IP" (236). Clock gating that an
  option turns off is turned on again by the recommended values
  (`NbioBaseInitGenoa.c:354`). Two straps of the third ACS register are written
  to the wrong place (951, 963). Against "match the CPU MSRs"
  (`NbioTopMem.c:24`), a TOM2 of exactly 1 TB has bit 40, which the register's eight
  upper bits do not hold (`LosesBit40`, 87), and without memory above 4 GB the lower
  register is written uninitialised (`EnabledByChance`, 108). GAM support is forced
  (`NbioIommu.c:196`). `Nbio.c:77` writes through a pointer before it is set.
* FCH: the timer of a delay has 8 bits (`FchCommon.c:62`), so some delays never return. OOB
  support enables flash access (`FchEspi.c:328`); commands that run out of polls are
  overwritten in progress (84, 112), and the in-band reset may send a stray one (203). When
  the second FCH's MMIO cannot be reserved its set-up writes the first one
  (`MultiFchInit.c:234`). PMIO E0 of the first is cleared (`FchAb.c:493`). USB
  sparse mode reaches controller 0 only (`Astray`, `FchXhci.c:486`), against "Enable
  Sparse Mode for each controller" (`FchXhciSn.c:247`); the port of a USB 3.1 PHY is
  selected outside of the block that has port control elsewhere (701); the default version of the OEM USB table is
  never applied. A row of the preliminary table cuts off its rest (`FchHwAcpi.c`).
* CXL: SMN writes pass addresses of locals (`CxlCmn2.c:128`, 268, 277, 440) and
  one list pointer is another's (650); an assertion is inverted (`CxlInit.c:396`); weights are not
  cut to their field; sizes wrap at 4 GB; walks over capabilities have
  no limit on cyclic lists.

## Not modelled

* RAS, MEM and most of xPRF read registers or info blocks for the host and keep no
  state; their records are in the lists.
* The SMU mailbox serves one request at a time and polls without a limit; the MPIO
  mailbox is the harder case of the same protocol and is modelled.
* DF: tables, indexed register access and the ACPI domains computed from them.
* The APOB search, which walks a block written by another firmware.
* `MpioProcessEarlyTrain` (a bus number for the time of one read), the clean-up of
  the early link's bridge (`MpioPcie.c:261-352` resets its bus numbers and windows),
  the parameters of the HFC descriptor, the I2C transfers of the UBM discovery, trace output.
* FCH: eMMC, GPP and the legacy interrupt router (defaults or single accesses) and hooks
  nothing calls. CCX: table handlers without an entry (PCI, SMN, copied
  bit fields) and `InitializeVariableMtrrs`, which nothing calls. CXL: error
  and performance settings of single registers.
* PCI, MMIO, SMN and IO accessors are single accesses; build files, configuration and
  generated register headers have no behaviour.
