---------------------------- MODULE VIAProperties ----------------------------
(***************************************************************************)
(* What the VIA promises to its program and to the devices around it.      *)
(***************************************************************************)
EXTENDS VIA6522

Timer1Type == [counter : -1 .. Base * Base - 1, high : Bytes, low : Bytes, lowWritten : BOOLEAN,
               running : BOOLEAN, first : BOOLEAN]
\* T2 is never loaded: it only counts down from zero.
Timer2Type == [counter : -(Base * Base) .. 0, previous : -(Base * Base) .. 0, high : Bytes,
               running : BOOLEAN]
ShiftType == [bits : [1 .. Width -> BOOLEAN], shifts : 0 .. Width - 1, start : BOOLEAN,
              pulse : BOOLEAN, pPulse : BOOLEAN, interrupt : BOOLEAN, generate : BOOLEAN,
              mode : 0 .. 7]

ViaType == [IFR : SUBSET Flags, IER : SUBSET Flags, irq : BOOLEAN, ddr : SUBSET Lines,
            acr : ACRs, pcr : PCRs,
            in : SUBSET Lines, pIn : SUBSET Lines, now : SUBSET Lines, out : SUBSET Lines,
            latched : SUBSET Lines, t1 : Timer1Type, t2 : Timer2Type, sr : ShiftType]

TypeOK == via \in ViaType /\ setup \in Setups

\* The IRQ output is low exactly while a flag is set that is enabled, after any access
\* and any cycle, whichever of the seven sources, acknowledgements and enables moved
\* last; only a reset leaves the output as it was until the next one of them.
IrqFollowsFlags == ~hist.fresh => (via.irq <=> via.IFR \cap via.IER # {})

\* No write goes to T2CL, which ends up in the latch of T1.
LatchesKept == \A w \in setup.writes : w.reg # "T2CL"

\* The first countdown of T1 ends n + 1 cycles after T1CH was written, each later
\* one n + 2 cycles after the previous one, n being what T1CH started with or what the
\* latches held; T1 sets its flag then and at no other time (unless the very
\* access clears it), though modes and latches are changed in the meantime.
T1OnTime ==
  [][LatchesKept /\ hist'.op \in ({"cycle"} \cup Registers) \ {"T1CL"} /\ hist.t1Due # Unknown =>
       /\ hist.t1Due = 1 => "T1" \in via'.IFR
       /\ "T1" \in via'.IFR \ via.IFR => hist.t1Due = 1]_vars

\* In the one-shot mode with output, PB7 is low from the write of T1CH to the
\* moment the flag is set.
PB7Pulse == hist.pulse /\ hist.t1Due # Unknown => ("PB7" \notin via.out <=> hist.t1Due > 0)

\* A control line sets its flag only when its level has changed since the last cycle:
\* neither the choice of the active edge, nor an acknowledgement, nor a reset makes an
\* interrupt out of a steady level.
FlagNeedsEdge ==
  [][~setup.responsive =>
       \A l \in ControlLines :
         l \in via'.IFR \ via.IFR => (l \in via.in) # (l \in hist.seen)]_vars

\* A transition to the active level between two cycles is not missed, whatever the
\* program has done to the modes, flags and enables in the meantime.
TransitionsDetected ==
  [][hist'.op = "cycle" /\ ~setup.responsive =>
       \A l \in ControlLines :
         IsInput(via, l) /\ (l \in via.in) # (l \in hist.seen) /\ (l \in via.in) = Positive(via, l)
           => l \in via'.IFR]_vars

\* With latching on, what the program reads of port A once CA1 has fallen is what the port
\* had in the last cycle before that edge, in however many cycles the device moves on and
\* the program acknowledges and changes modes; until CA1 rises (which latches anew,
\* whether the program has read the port or not).
LatchedAtEdge == hist.holding => via.latched \cap PALines = hist.held

\* The bit shifted in on a rising edge of CB1 is the one the device has put on
\* CB2 in answer to that edge, not the one before.
ShiftAnswered ==
  [][(hist'.op = "cycle" /\ via.acr.sr = 2 /\ "CB1" \in via'.out \ via.out)
       => via'.sr.bits[Width] = ("CB2" \in via'.in)]_vars

\* A byte that is shifted in at phi2 rate takes two cycles a bit, whatever the shift
\* clock's level was at the start: the flag is set then, and not before.
ShiftOnTime ==
  [][(hist'.op = "cycle" /\ hist.shiftAge > 0) =>
       /\ hist.shiftAge >= 2 * Width => "SR" \in via'.IFR
       /\ "SR" \in via'.IFR \ via.IFR => hist.shiftAge >= 2 * Width - 1]_vars

-----------------------------------------------------------------------------
(* Why it does: what the chip holds is what the history makes of it after   *)
(* every step, in the middle of a countdown or of a byte as well.          *)

HistType == [op : {"reset", "cycle", "write", "input"} \cup Registers, fresh : BOOLEAN,
             seen : SUBSET Lines, t1Due : Int, t1Low : Bytes, t1High : Bytes,
             pulse : BOOLEAN, shiftAge : Nat, latching : BOOLEAN,
             held : SUBSET Lines, holding : BOOLEAN]

\* The levels that edges are detected against are those of the last cycle.
SeenInv == ~setup.responsive => hist.seen = via.pIn

\* While CA1 is high, port A is latched as the last cycle has seen it, and then held.
LatchInv ==
  /\ hist.latching /\ "CA1" \in hist.seen => via.latched \cap PALines = hist.seen \cap PALines
  /\ LatchedAtEdge

\* The shift clock has no edge between two cycles.
PulseInv == via.sr.pPulse = via.sr.pulse

\* The cycles that are left of a countdown: it takes one or two to go below zero.
CyclesLeft(s) == s.t1.counter + (IF s.t1.first THEN 1 ELSE 2)

\* The history knows how much is left of a countdown.
T1Inv ==
  LatchesKept =>
    /\ via.t1.low = hist.t1Low /\ via.t1.high = hist.t1High
    /\ hist.t1Due # Unknown =>
         /\ via.t1.running <=> hist.t1Due > 0
         /\ hist.t1Due > 0 => hist.t1Due = CyclesLeft(via)

\* A pulse on PB7 lasts as long as a first countdown.
PB7Inv ==
  hist.pulse =>
    /\ via.acr.t1 = 2 /\ hist.t1Due # Unknown
    /\ via.t1.running <=> hist.t1Due > 0
    /\ hist.t1Due > 0 => hist.t1Due = CyclesLeft(via) /\ via.t1.first
    /\ "PB7" \notin via.out <=> hist.t1Due > 0

\* Each second cycle has shifted a bit, beginning with the first or the second one.
ShiftInv ==
  hist.shiftAge > 0 =>
    /\ via.acr.sr = 2 /\ via.sr.start
    /\ via.sr.mode # 2 => via.sr.shifts = 0
    /\ 2 * via.sr.shifts \in (IF via.sr.pulse THEN {hist.shiftAge - 1, hist.shiftAge}
                              ELSE {hist.shiftAge - 1, hist.shiftAge - 2})

IInv == /\ TypeOK /\ hist \in HistType /\ IrqFollowsFlags
        /\ SeenInv /\ LatchInv /\ PulseInv /\ T1Inv /\ PB7Inv /\ ShiftInv

=============================================================================
