------------------------------- MODULE FchRegs -------------------------------
(***************************************************************************)
(* The registers of a Fusion Controller Hub (FCH) and the three ways the   *)
(* code writes them: byte by byte through the ACPI MMIO window, through    *)
(* the A-link index and data ports, and over SMN.                          *)
(*                                                                         *)
(* A register bit is a pair <<space, n>>, n the bit's number counted from  *)
(* the first byte of the space, so that accesses of 8, 16 and 32 bits meet *)
(* where they overlap.  A run of writes is a function from bits to 0 and 1 *)
(* (see Registers); a bit nobody wrote holds its reset value 0.            *)
(*                                                                         *)
(* The A-link bridge itself comes last.                                    *)
(***************************************************************************)
EXTENDS Registers, Sequences, FiniteSets

\* The blocks of the ACPI MMIO window, as byte offsets from its base.
SMI_BASE == \h200
PMIO_BASE == \h300
ASF_BASE == \h900
IOMUX_BASE == \hD00
MISC_BASE == \hE00
REMOTE_GPIO_BASE == \h1200
GPIO_BANK0_BASE == \h1500
GPIO_BANK1_BASE == \h1600
AOAC_BASE == \h1E00

\* The bits of a value that are one, and those that are zero, in the low n.
Ones(v, n) == {b \in 0 .. n - 1 : HasBit(v, b)}

Zeros(v, n) == (0 .. n - 1) \ Ones(v, n)

\* A read-modify-write: it decides the bits the mask clears and the bits it sets.
Rmw(space, reg, clear, set) ==
  [x \in {<<space, 8 * reg + b>> : b \in clear \cup set} |-> Bit(x[2] - 8 * reg \in set)]

\* Accesses to the ACPI MMIO window: an 8-bit read-modify-write, a 16-bit write, and
\* the 32-bit read-modify-writes that set or clear some bits.
Rmw8(reg, mask, value) == Rmw("mmio", reg, Zeros(mask, 8), Ones(value, 8))

Put8(reg, value) == Rmw8(reg, 0, value)

Put16(reg, value) == Rmw("mmio", reg, 0 .. 15, Ones(value, 16))

Set(reg, bits, condition) ==
  Rmw("mmio", reg, bits, IF condition THEN bits ELSE {})

\* RwAlink with a mask that keeps all but the given bits of an A-link register; the
\* index port is set back to 0 after every access.
Alink(reg, bits, condition) ==
  Rmw("alink", reg, bits, IF condition THEN bits ELSE {})

\* What reading a bit, or the low n bits of a register, returns.
IsSet(regs, space, reg, b) ==
  LET x == <<space, 8 * reg + b>> IN x \in DOMAIN regs /\ regs[x] = 1

Read(regs, space, reg, n) ==
  LET Low[b \in 0 .. n] ==
        IF b = 0 THEN 0
        ELSE Low[b - 1] + (IF IsSet(regs, space, reg, b - 1) THEN 2^(b - 1) ELSE 0)
  IN Low[n]

\* ProgramFchAcpiMmioTbl: after the signature row, one byte read-modify-write for each
\* row up to the first whose block number is 0x1D or more.  A row is
\* <<block, register, AND mask, OR mask>>.
Signature == <<0, 0, \hB0, \hAC>>

EndRow == <<\hFF, \hFF, \hFF, \hFF>>

RowWrite(row) == Rmw8(row[1] * 256 + row[2], row[3], row[4])

RowsProgrammed(tbl) ==
  {i \in 2 .. Len(tbl) : \A j \in 2 .. i : tbl[j][1] < \h1D}

RunRows(tbl, rows) ==
  LET Upto[i \in 1 .. Len(tbl)] ==
        IF i = 1 THEN << >>
        ELSE Upto[i - 1] ++ When(i \in rows, RowWrite(tbl[i]))
  IN Upto[Len(tbl)]

ProgramFchAcpiMmioTbl(tbl) ==
  When(tbl /= << >> /\ Head(tbl) = Signature, RunRows(tbl, RowsProgrammed(tbl)))

----------------------------------------------------------------------------
(* The A-link bridge: its settings in the first FCH (FchInitEnvAbLinkInit) *)
(* and in the one of the second socket (FchSecondaryFchInitAB).  "rsmu" is *)
(* the clock control reached over SMN.                                     *)

ALINK_ACCESS_INDEX == \h0CD8

\* FchInitResetAb: opens the index and data ports of the A-link registers.
FchInitResetAb == Put16(PMIO_BASE + \hE0, ALINK_ACCESS_INDEX)
                  ++ Put16(PMIO_BASE + \hE2, 0)

\* FchInitEnvAbTable as AbCfgTbl runs it: the mask column holds the bits to clear.
\* <<register, bits to clear, bits to set>>.
FchInitEnvAbTable == <<
  <<\h90, {21}, {21}>>,
  <<\h94, {20}, {20} \cup Ones(\hFEE, 12)>>,
  <<\h10054, 0 .. 23, 0 .. 10>>,
  <<\h10060, (0 .. 31) \ {26}, {25}>>,
  <<\h10090, {16}, {16}>> >>

AbCfgTbl(tbl) ==
  LET Upto[i \in 0 .. Len(tbl)] ==
        IF i = 0 THEN << >> ELSE Upto[i - 1] ++ Rmw("alink", tbl[i][1], tbl[i][2], tbl[i][3])
  IN Upto[Len(tbl)]

----------------------------------------------------------------------------
(* Settings that both routines make *)

AbClockGating(c) ==
  Alink(\h54, {4, 24}, c.AbClockGating) ++ Alink(\h10054, {24, 25}, c.AbClockGating)

\* Upstream writes of 32 or 64 bytes.
AbDmaWrite(large) == Alink(\h54, {0}, ~large) ++ Alink(\h54, {2}, large)

AbMemoryPowerSaving(on) ==
  Set(MISC_BASE + \h68, {2}, ~on) ++ Alink(\hBC, {4}, on) ++ Alink(\h58, {29, 31}, on)

LinkClkGateOff(c) ==
  Set(MISC_BASE + \h2E, {0}, c.ALinkClkGateOff)
  ++ Set(MISC_BASE + \h2E, {1}, c.BLinkClkGateOff)
  ++ Rmw("rsmu", \h1C, {31}, IF c.BLinkClkGateOff THEN {31} ELSE {})
  ++ Set(PMIO_BASE + \h06, {0}, c.ALinkClkGateOff \/ c.BLinkClkGateOff)

SbgSettings(c) ==
  Set(MISC_BASE + \h68, {1}, ~c.SbgMemoryPowerSaving)
  ++ Alink(\h208, {7, 9}, c.SbgMemoryPowerSaving)
  ++ Alink(\h238, {10}, c.SbgMemoryPowerSaving)
  ++ Alink(\h208, {15, 16, 17, 22}, c.SbgClockGating)
  ++ Alink(\h228, {1, 3}, c.SbgClockGating)

XdmaSettings(c) ==
  Alink(\h184, {2}, c.XdmaMemoryPowerSaving)
  ++ Rmw("alink", \h180, 8 .. 12, {8 + b : b \in Ones(c.XdmaPendingNprThreshold, 8)})
  ++ Alink(\h180, {5}, c.XdmaDncplOrderDis)
  ++ Alink(\h22C, {11}, c.SdphostBypassDataPack)
  ++ Alink(\h22C, {14}, c.SdphostDisNpmwrProtect)

----------------------------------------------------------------------------

FchInitEnvAbLinkInit(c) ==
  Set(MISC_BASE + \h40, {1}, c.SlowSpeedAbLinkClock)
  ++ AbCfgTbl(FchInitEnvAbTable)
  ++ Alink(\h10050, {2}, c.ResetCpuOnSyncFlood)
  ++ AbClockGating(c)
  ++ AbDmaWrite(c.AbDmaMemoryWrtie3264B)
  ++ AbMemoryPowerSaving(c.AbMemoryPowerSaving)
  ++ LinkClkGateOff(c)
  ++ SbgSettings(c)
  ++ Alink(\h180, {0}, c.XdmaDmaWrite16ByteMode)
  ++ XdmaSettings(c)

\* The routine for the second FCH, between its two writes to PMIO E0, which go to the
\* first FCH's window.  It sets another bit than it clears for the 16-byte mode.
FchSecondaryFchInitAB(c) ==
  Alink(\h90, {21}, TRUE)
  ++ Rmw("alink", \h10054, 0 .. 23, 0 .. 10)
  ++ Rmw("alink", \h10060, {26}, {25})
  ++ Alink(\h10090, {16}, TRUE)
  ++ AbClockGating(c)
  ++ AbDmaWrite(TRUE)
  ++ AbMemoryPowerSaving(TRUE)
  ++ LinkClkGateOff(c)
  ++ SbgSettings(c)
  ++ (IF c.XdmaDmaWrite16ByteMode THEN Alink(\h180, {1}, TRUE) ELSE Alink(\h180, {0}, FALSE))
  ++ XdmaSettings(c)
  ++ Alink(\h10050, {2}, FALSE)

\* FchInitEnvAb after FchInitResetAb, the whole block at time point 1.
InitializeFchAbTp1(c) == FchInitResetAb ++ FchInitEnvAbLinkInit(c)
=============================================================================
