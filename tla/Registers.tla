------------------------------ MODULE Registers ------------------------------
(***************************************************************************)
(* Register programming as the initialisation code does it: a sequence of  *)
(* conditional writes, each to some fields of a register.                  *)
(*                                                                         *)
(* The content of a group of registers is a function from fields to        *)
(* values.  A read-modify-write changes the fields under its mask and      *)
(* leaves the others, so a run of writes is a function as well: what it    *)
(* leaves in the fields it touches.                                        *)
(***************************************************************************)
EXTENDS TLC, Integers

\* The writes f and after them the writes g: where both touch a field, g's stays.
f ++ g == g @@ f

\* The same without the @@ of module TLC, which the provers do not know.
Overlay(f, g) == [x \in DOMAIN f \cup DOMAIN g |-> IF x \in DOMAIN g THEN g[x] ELSE f[x]]

\* Writes made under a condition.
When(condition, f) == IF condition THEN f ELSE << >>

\* Several fields given one value.
Each(fields, value) == [x \in fields |-> value]

\* The code's "X ? 1 : 0".
Bit(b) == IF b THEN 1 ELSE 0

\* Bits lo .. hi of a value, and whether a bit is set.
Bits(v, lo, hi) == (v \div 2^lo) % 2^(hi - lo + 1)

HasBit(v, n) == Bits(v, n, n) = 1
=============================================================================
