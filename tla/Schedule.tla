------------------------------ MODULE Schedule ------------------------------
(***************************************************************************)
(* The time of the emulated devices.  Engine::run divides the time into    *)
(* periods of the low rate.  At the start of a period it takes the devices *)
(* of the low rate to its end; then it steps the processor and, after each *)
(* step, takes the devices scheduled at the rate of the processor to the   *)
(* time reached and those of the high rate whenever that period wraps.     *)
(*                                                                         *)
(* One device stands for each way of keeping time: a PIA, which has the    *)
(* time of its last call; a keyboard, which ignores calls that come early; *)
(* a speaker, which makes one sample per call; a VIA, which works in       *)
(* cycles of its own clock and is advanced a cycle by every read; and a    *)
(* video ULA, whose time is that of the last line plus the pixels drawn.   *)
(* Their other state is left out, and so is a halted processor: no time    *)
(* passes then.                                                            *)
(*                                                                         *)
(* A definition named after another one with a suffix is a plausible error *)
(* in it, against which the properties are tested.                         *)
(***************************************************************************)
EXTENDS Integers

CONSTANTS
  LowPeriod,   \* CPU_cycles_per_low_rate_cycle
  HighPeriod,  \* CPU_cycles_per_high_rate_cycle
  Cycles,      \* the cycles instructions take, clock stretching apart
  MaxReads,    \* reads of the VIA by one instruction
  ViaCycle,    \* ticks of a cycle of the VIA; its accesses are stretched accordingly
  Refreshes,   \* the keyboard's refresh times at the speeds of the menu
  Modes,       \* video modes: pixels of a character, pixel rate (ticks at 2 MHz)
  Fetches,     \* sets of numbers: the characters of a call that are found in the video memory
  LineChars,   \* characters of a scan line (CRTC R0)
  HSync,       \* the character at which horizontal synchronisation begins (CRTC R2)
  FieldLines,  \* scan lines of a field
  IntRange,    \* number of values of an int
  LongRange,   \* number of values of a uint64_t
  SumsWiden,   \* does the compiled code add ints that are stored in 64 bits, in 64 bits?
  Horizon      \* bound on the time

Stretches == (ViaCycle - 1)..(2 * ViaCycle - 2)

\* A step is shorter than the period of the high rate: 32 or 64 ticks in the machines
\* that are configured, of which an instruction takes 16 at most.
ASSUME ScheduleAssumption ==
  /\ LowPeriod \in Nat \ {0} /\ HighPeriod \in Nat \ {0} /\ ViaCycle \in Nat \ {0}
  /\ MaxReads \in Nat
  /\ Cycles \subseteq Nat \ {0}
  /\ \A c \in Cycles : c + MaxReads * (2 * ViaCycle - 2) < HighPeriod
  /\ HighPeriod > 1 /\ LineChars \in Nat \ {0} /\ FieldLines \in Nat \ {0}
  /\ Refreshes \subseteq Nat \ {0} /\ Refreshes # {}
  /\ IntRange \in Nat /\ LongRange \in Nat /\ Horizon \in Nat
  /\ SumsWiden \in BOOLEAN

VARIABLES
  mTicks,     \* Engine::mTicks
  end_cycle,  \* Engine::run: the end of the period
  cpu,        \* which processor, its stretched cycles and pending access
  pia,        \* PIA8255::mTicks
  keyboard,   \* BeebKeyboard: mTicks, mKeyboardRefreshCycles and mBREAK
  samples,    \* AtomSpeaker: samples made so far
  via,        \* VIA6522: mTicks and pRESET
  video       \* BeebVideoULA and the CRTC's position in the field

vars == <<mTicks, end_cycle, cpu, pia, keyboard, samples, via, video>>

\* Conversions between the integer types.
ToUnsigned(x) == x % LongRange
ToInt(x) == ((x + IntRange \div 2) % IntRange) - IntRange \div 2

\* The sum of two ints: what overflows is undefined and depends on the compiled code.
IntSum(a, b) == IF SumsWiden THEN a + b ELSE ToInt(a + b)

Round(a, b) == (2 * a + b) \div (2 * b)

-----------------------------------------------------------------------------
(* Devices of the low rate.                                                *)

KeyboardUntilDoubled(k, pressed, tick) ==
  IF tick < k.ticks + 2 * k.refresh THEN k
  ELSE [k EXCEPT !.ticks = tick, !.BREAK = ~pressed]

\* The keyboard is polled, and BREAK found pressed or not, unless the call comes early.
KeyboardUntil(k, pressed, tick) ==
  IF tick < ToUnsigned(ToInt(k.ticks + k.refresh)) THEN k
  ELSE [k EXCEPT !.ticks = tick, !.BREAK = ~pressed]

-----------------------------------------------------------------------------
(* The VIA: its time and the level of RESET it has seen.                   *)

\* The first time not before stop: single ticks up to a cycle of the device's clock,
\* then whole cycles.  The start of a RESET takes it to stop.
ViaUntil(v, reset, stop) ==
  LET cycle(t) == ViaCycle * ((t + ViaCycle - 1) \div ViaCycle)
      ticks == IF v.pRESET /\ ~reset THEN stop
               ELSE IF stop <= v.ticks THEN v.ticks
               ELSE IF stop <= cycle(v.ticks) THEN stop
               ELSE cycle(stop)
  IN [ticks |-> ticks, pRESET |-> reset]

\* A read first advances the VIA by a cycle.
ViaRead(v, reset) == ViaUntil(v, reset, v.ticks + ViaCycle)

\* The VIA after so many reads.
ViaReads(v, reset, reads) ==
  LET after[n \in 0 .. reads] == IF n = 0 THEN v ELSE ViaRead(after[n - 1], reset)
  IN after[reads]

-----------------------------------------------------------------------------
(* The video ULA.                                                          *)

CharPixels(v) == v.mode[1]
PixelRate(v)  == v.mode[2]

\* The time of the pixels drawn in the line: at a tick rate of 2 MHz mTickRate cancels
\* the factor of the pixel rate.
LineTime(v) == ToUnsigned(IntSum(v.ref, Round(v.pixels, PixelRate(v))))

DrawPixels(v) ==
  LET drawn == [v EXCEPT !.pixels = @ + CharPixels(v), !.pos = @ + 1] IN
  [drawn EXCEPT !.ticks = LineTime(drawn)]

\* Half a line more between two fields, during which the CRTC stands still.  At its end the
\* time is computed once more, by the pixel rate of the mode then selected (the visible
\* part of a line, 750 or 630 pixels wide, is never a whole number of characters).
HalfLine(v) ==
  IF v.pos >= LineChars \div 2
  THEN [v EXCEPT !.ticks = LineTime(v), !.ref = ToInt(LineTime(v)),
                 !.halfLine = FALSE, !.pixels = 0, !.pos = 0]
  ELSE DrawPixels(v)

HorizontalSyncKeepsPixels(v) == [v EXCEPT !.ref = ToInt(v.ticks), !.pos = 0]
HorizontalSync(v) == [v EXCEPT !.ref = ToInt(v.ticks), !.pixels = 0, !.pos = 0]

\* What the CRTC signals at the character it is at, and its step to the next one.
CRTCChar(v) ==
  LET vs == [v EXCEPT !.halfLine = @ \/ (v.line = 0 /\ v.col = 0)]
      hs == IF v.col = HSync THEN HorizontalSync(vs) ELSE vs
      newLine == v.col + 1 = LineChars
  IN [hs EXCEPT !.col = (@ + 1) % LineChars,
                !.line = IF newLine THEN (@ + 1) % FieldLines ELSE @]

\* A character whose address is outside the video memory is not drawn, but takes time:
\* until endCycle.
AdvanceChar(v, fetched, endCycle) ==
  CASE v.halfLine               -> HalfLine(v)
    [] ~v.halfLine /\ fetched   -> DrawPixels(CRTCChar(v))
    [] ~v.halfLine /\ ~fetched  -> [CRTCChar(v) EXCEPT !.ticks = endCycle]

\* A character takes at least one tick.
TimedChar(v, fetched, endCycle) ==
  LET p_cycle == ToInt(v.ticks)
      next == AdvanceChar(v, fetched, endCycle)
  IN IF next.ticks <= ToUnsigned(p_cycle)
     THEN [next EXCEPT !.ticks = ToUnsigned(IntSum(p_cycle, 1))]
     ELSE next

VideoState ==
  [ticks : Nat, ref : Int, pixels : Nat, pos : Nat, halfLine : BOOLEAN,
   col : 0..(LineChars - 1), line : 0..(FieldLines - 1), mode : Modes]

\* endCycle is the time to reach at the first character, and where the one before it has
\* ended at the others.
EndCycle(u, n, stop) == IF n = 1 THEN stop ELSE u.ticks

\* Characters are drawn until stop; each takes at least one tick, which says how many
\* are enough.
VideoUntil(v, fetches, stop) ==
  LET until(u, n) == IF u.ticks < stop THEN TimedChar(u, n \in fetches, EndCycle(u, n, stop)) ELSE u
      enough == IF v.ticks < stop THEN stop - v.ticks ELSE 0
      after[n \in 0 .. enough] == IF n = 0 THEN v ELSE until(after[n - 1], n)
  IN after[enough]

-----------------------------------------------------------------------------
(* The engine.                                                             *)

WrappedAtZero(p_cycle_count, ticks) == ticks % HighPeriod = 0 /\ ticks # p_cycle_count

\* mTicks has passed a multiple of the period of the high rate.
Wrapped(p_cycle_count, ticks) == ticks % HighPeriod < p_cycle_count % HighPeriod

\* A period begins: the speed the user has chosen takes effect, and the devices of
\* the low rate are taken to the end of the period.
StartPeriod ==
  /\ mTicks >= end_cycle
  /\ mTicks < Horizon
  /\ end_cycle' = mTicks + LowPeriod
  /\ pia' = mTicks + LowPeriod
  /\ \E refresh \in Refreshes \cup {keyboard.refresh}, pressed \in BOOLEAN :
       keyboard' = KeyboardUntil([keyboard EXCEPT !.refresh = refresh], pressed, mTicks + LowPeriod)
  /\ UNCHANGED <<mTicks, cpu, samples, via, video>>

\* A step of the processor that takes so long, reads the VIA so often and may select
\* another video mode or other addresses for the picture, and the devices that follow it.
Advance(time, reads) ==
  /\ mTicks < end_cycle
  /\ mTicks' = mTicks + time
  /\ via' = ViaUntil(ViaReads(via, keyboard.BREAK, reads), keyboard.BREAK, mTicks')
  /\ \E mode \in Modes, fetches \in Fetches :
       video' = VideoUntil([video EXCEPT !.mode = mode], fetches, mTicks')
  /\ samples' = IF Wrapped(mTicks, mTicks') THEN samples + 1 ELSE samples
  /\ UNCHANGED <<end_cycle, pia, keyboard>>

\* The instruction-accurate processor: each access to the VIA stretches the clock.
Instruction ==
  /\ cpu.kind = "CPU_6502"
  /\ \E cycles \in Cycles, reads \in 0..MaxReads :
       /\ reads < cycles
       /\ \E stretched \in (reads * (ViaCycle - 1))..(reads * (2 * ViaCycle - 2)) :
            Advance(cycles + stretched, reads)
  /\ UNCHANGED cpu

\* The cycle-accurate processor: a cycle by which an access is stretched ...
StretchedCycle ==
  /\ cpu.kind = "CPU_6502CC"
  /\ \E left \in IF cpu.pending THEN {cpu.stretched} ELSE Stretches :
       /\ left > 0
       /\ cpu' = [cpu EXCEPT !.stretched = left - 1, !.pending = TRUE]
  /\ Advance(1, 0)

\* ... and the cycle that makes the access.  A stretched access may be one to the VIA.
AccessCycle ==
  /\ cpu.kind = "CPU_6502CC"
  /\ cpu.stretched = 0
  /\ cpu' = [cpu EXCEPT !.pending = FALSE]
  /\ \E reads \in IF cpu.pending \/ 0 \in Stretches THEN 0..1 ELSE {0} : Advance(1, reads)

Init ==
  /\ mTicks = 0 /\ end_cycle = 0 /\ pia = 0 /\ samples = 0
  /\ cpu \in [kind : {"CPU_6502", "CPU_6502CC"}, stretched : {0}, pending : {FALSE}]
  /\ \E refresh \in Refreshes :
       keyboard = [ticks |-> 0, refresh |-> refresh, BREAK |-> TRUE]
  /\ via = [ticks |-> 0, pRESET |-> TRUE]
  /\ video \in [ticks : {0}, ref : {0}, pixels : {0}, pos : {0}, halfLine : {FALSE},
                col : {0}, line : {0}, mode : Modes]

Next == StartPeriod \/ Instruction \/ StretchedCycle \/ AccessCycle

Spec == Init /\ [][Next]_vars

=============================================================================
