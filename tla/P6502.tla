-------------------------------- MODULE P6502 --------------------------------
(***************************************************************************)
(* What both 6502 processors share (shared/P6502.cpp): the status register *)
(* as a byte, the flags a result sets, and decimal and binary arithmetic.  *)
(* A processor is a record with at least the accumulator `a', the status   *)
(* `sr' and the value last read `rv' (mReadVal).                           *)
(*                                                                         *)
(* A definition named after another one with a suffix is a plausible error *)
(* in it, against which the properties are tested.                         *)
(***************************************************************************)
EXTENDS Codec6502, Sequences

N == 128   V == 64   B == 16   D == 8   I == 4   Z == 2   C == 1

\* b5_set_mask covers B as well.
B5 == 48

Byte(n) == n % 256
Signed(b) == IF b >= 128 THEN b - 256 ELSE b
Word(high, low) == 256 * high + low

Bit(sr, mask) == (sr \div mask) % 2
Flag(sr, mask) == Bit(sr, mask) = 1

\* The bitwise operators on bytes.
Bitwise(op(_, _), x, y) ==
  LET bit(mask) == IF op(Flag(x, mask), Flag(y, mask)) THEN mask ELSE 0
  IN  bit(128) + bit(64) + bit(32) + bit(16) + bit(8) + bit(4) + bit(2) + bit(1)

And(x, y) == Bitwise(LAMBDA p, q : p /\ q, x, y)
Or(x, y)  == Bitwise(LAMBDA p, q : p \/ q, x, y)
Xor(x, y) == Bitwise(LAMBDA p, q : p # q, x, y)

SetFlag(sr, mask, on) == sr + mask * ((IF on THEN 1 ELSE 0) - Bit(sr, mask))

\* What PLP and RTI do with a pulled status: B and b5 stay as they are.
Restored(sr, pulled) == And(sr, B5) + And(pulled, 255 - B5)

PageBoundaryCrossed(before, after) == before \div 256 # after \div 256

setNZflags(s, v) == [s EXCEPT !.sr = SetFlag(SetFlag(@, N, v >= 128), Z, v = 0)]
setNZCflags(s, v, c) == [setNZflags(s, v) EXCEPT !.sr = SetFlag(@, C, c)]
setNZVflags(s, n, z, v) == [s EXCEPT !.sr = SetFlag(SetFlag(SetFlag(@, N, n), Z, z), V, v)]
setNZCVflags(s, n, z, c, v) == [setNZVflags(s, n, z, v) EXCEPT !.sr = SetFlag(@, C, c)]

OutOfRange(n) == n < -128 \/ n > 127

\* A + v + C and A - v - (1 - C) in binary.
Add(s, v) ==
  LET unsigned == s.a + v + Bit(s.sr, C)
      signed   == Signed(s.a) + Signed(v) + Bit(s.sr, C)
      r        == Byte(unsigned)
  IN  setNZCVflags([s EXCEPT !.a = r], r >= 128, r = 0, unsigned > 255, OutOfRange(signed))

Subtract(s, v) ==
  LET unsigned == s.a - v - (1 - Bit(s.sr, C))
      signed   == Signed(s.a) - Signed(v) - (1 - Bit(s.sr, C))
      r        == Byte(unsigned)
  IN  setNZCVflags([s EXCEPT !.a = r], r >= 128, r = 0, unsigned >= 0, OutOfRange(signed))

High(b) == 16 * (b \div 16)

ADCDecimalNoHalfCarry(s) ==
  LET low    == (s.a % 16) + (s.rv % 16) + Bit(s.sr, C)
      high   == High(s.a) + High(s.rv)
      adjusted == IF high >= 160 THEN high + 96 ELSE high
  IN  setNZCVflags([s EXCEPT !.a = Byte(High(adjusted)) + (IF low >= 10 THEN (low + 6) % 16 ELSE low)],
                   Byte(high) >= 128, FALSE, high >= 160, FALSE)

ADCDecimal(s) ==
  LET low    == (s.a % 16) + (s.rv % 16) + Bit(s.sr, C)
      carry  == IF low >= 10 THEN 16 ELSE 0
      digit  == IF low >= 10 THEN (low + 6) % 16 ELSE low
      signed == Signed(High(s.a)) + Signed(High(s.rv)) + carry + digit
      high   == High(s.a) + High(s.rv) + carry
      adjusted == IF high >= 160 THEN high + 96 ELSE high
  IN  setNZCVflags([s EXCEPT !.a = Byte(High(adjusted)) + digit],
                   Byte(signed) >= 128, Byte(s.a + s.rv + Bit(s.sr, C)) = 0, high >= 160, OutOfRange(signed))

SBCDecimal(s) ==
  LET borrowIn == 1 - Bit(s.sr, C)
      signed == Signed(s.a) - Signed(s.rv) - borrowIn
      low    == (s.a % 16) - (s.rv % 16) - borrowIn
      borrow == IF low < 0 THEN 16 ELSE 0
      digit  == (IF low < 0 THEN low + 10 ELSE low) % 16
      high   == High(s.a) - High(s.rv) - borrow
      adjusted == IF high < 0 THEN high + 160 ELSE high
      t      == setNZVflags(s, Byte(signed) >= 128, Byte(signed) = 0, OutOfRange(signed))
  IN  [t EXCEPT !.a = Byte(adjusted + digit), !.sr = SetFlag(@, C, high >= 0)]

ADCCalc(s) == IF Flag(s.sr, D) THEN ADCDecimal(s) ELSE Add(s, s.rv)
SBCCalc(s) == IF Flag(s.sr, D) THEN SBCDecimal(s) ELSE Subtract(s, s.rv)

-----------------------------------------------------------------------------
(* Memory: 'ram' holds what has been written since the start, below the    *)
(* ROM at RomStart; the rest is a pattern in which neighbours, and the     *)
(* same place in the next page, differ.  `b1' and `b2' follow the opcode   *)
(* at CodeStart.                                                           *)

CodeStart == 1277   \* two bytes before the end of a page
RomStart  == 49152

Content(s, adr) ==
  CASE adr \in DOMAIN s.ram -> s.ram[adr]
    [] adr \notin DOMAIN s.ram /\ adr = CodeStart + 1 -> s.b1
    [] adr \notin DOMAIN s.ram /\ adr = CodeStart + 2 -> s.b2
    [] OTHER -> Byte(s.seed + 127 * adr + 128 * (adr \div 256))

Writable(adr) == adr < RomStart

Stored(s, adr, v) ==
  LET ram == [n \in {adr} \cup DOMAIN s.ram |-> IF n = adr THEN v ELSE s.ram[n]]
  IN  [s EXCEPT !.writes = Append(@, <<adr, v>>), !.ram = IF Writable(adr) THEN ram ELSE @]

=============================================================================
