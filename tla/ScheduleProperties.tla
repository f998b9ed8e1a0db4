------------------------- MODULE ScheduleProperties -------------------------
(***************************************************************************)
(* What the schedule promises about the time of the devices.               *)
(***************************************************************************)
EXTENDS Schedule

TypeOK ==
  /\ mTicks \in Nat /\ end_cycle \in Nat /\ pia \in Nat /\ samples \in Nat
  /\ cpu \in [kind : {"CPU_6502", "CPU_6502CC"}, stretched : Nat, pending : BOOLEAN]
  /\ keyboard \in [ticks : Nat, refresh : Nat \ {0}, BREAK : BOOLEAN]
  /\ via \in [ticks : Nat, pRESET : BOOLEAN]
  /\ video \in VideoState

\* The longest a scan line may take.
LongestLine ==
  CHOOSE t \in {Round(LineChars * m[1], m[2]) : m \in Modes} :
    \A m \in Modes : Round(LineChars * m[1], m[2]) <= t

\* A device of the low rate is never more than a period ahead of the processor nor more
\* than a step behind it, and the keyboard, which skips calls that come early, is
\* polled once per refresh time: whatever speed is selected, and however the last step
\* of a period overruns its end.
LowRateInTime ==
  /\ pia <= mTicks + LowPeriod
  /\ mTicks < pia + HighPeriod
  /\ mTicks < keyboard.ticks + keyboard.refresh + HighPeriod

\* After every step the devices scheduled with the processor have reached its time.
\* The VIA is ahead of it by a cycle at most, although each read advances it by one and
\* a RESET may take it out of step with its clock; and the picture by less than a line,
\* although a change of the video mode rescales the part of the line already drawn.
ViaInTime   == mTicks <= via.ticks /\ via.ticks <= mTicks + ViaCycle
VideoInTime == mTicks <= video.ticks /\ video.ticks < mTicks + LongestLine
InstrInTime == ViaInTime /\ VideoInTime

\* The speaker makes one sample per period of the high rate, although periods are only
\* recognised by a remainder that has become smaller.
HighServed == samples = mTicks \div HighPeriod

=============================================================================
