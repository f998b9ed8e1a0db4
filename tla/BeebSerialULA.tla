--------------------------- MODULE BeebSerialULA ---------------------------
(***************************************************************************)
(* The serial ULA of the BBC Micro (shared/BeebSerialULA.cpp), between the *)
(* ACIA, the cassette recorder and the RS423 line: it tells the tones of a *)
(* tape apart by the length of half a cycle, detects the carrier, and      *)
(* makes tones from what the ACIA sends.                                   *)
(*                                                                         *)
(* Some outputs call the ACIA directly, so the functions map both chips,   *)
(* d.ula and d.acia.  Counters that are only compared with a limit stop    *)
(* just beyond it.                                                         *)
(***************************************************************************)
EXTENDS ACIA6850

CONSTANT MinCarrier  \* half cycles that make a carrier (mMinCarrierHalfCycles)

ASSUME ULAAssumption == MinCarrier \in Nat

\* Half cycles of the tones of 1200 and 2400 Hz, with a tolerance of 30%.
LowToneHalfCycle  == Round(TickRate, 2400)
HighToneHalfCycle == Round(TickRate, 4800)
LowTone(n)  == n \in Round(7 * TickRate, 24000) .. Round(13 * TickRate, 24000)
HighTone(n) == n \in Round(7 * TickRate, 48000) .. Round(13 * TickRate, 48000)
Silence == Round(13 * TickRate, 24000)

\* Counting up to a limit.
CountTo(limit, n) == IF n < limit THEN n + 1 ELSE n

\* Clock rates selected by the control register; the receiver's code has its bits the
\* other way round.
Rate(code) ==
  CASE code = 0 -> 1228800 [] code = 1 -> 614400 [] code = 2 -> 307200 [] code = 3 -> 153600
    [] code = 4 -> 76800   [] code = 5 -> 19200  [] code = 6 -> 9600   [] code = 7 -> 4800
Reversed(code) == 4 * (code % 2) + 2 * ((code \div 2) % 2) + code \div 4
CassetteRate == 19200

-----------------------------------------------------------------------------
(* Outputs.                                                                *)

SetRxD(d, level) == [d EXCEPT !.acia.RxD = level]

SetDCD(d, level) ==
  IF d.ula.DCD = level THEN d ELSE [d EXCEPT !.ula.DCD = level, !.acia = CarrierDetect(@, level)]

\* processPortUpdate: on the RS423 line the data of the ACIA are forwarded to the
\* line, and those of the line to the ACIA; with a cable they are the same.
Forward(d) ==
  IF d.ula.serial /\ d.acia.TxD # d.ula.TxD
  THEN SetRxD([d EXCEPT !.ula.TxD = d.acia.TxD], IF d.ula.cable THEN d.acia.TxD ELSE d.acia.RxD)
  ELSE [d EXCEPT !.ula.TxD = d.acia.TxD]

\* A write of the control register.
WriteByte(d, cr) ==
  LET rx == IF cr.serial THEN Rate(Reversed(cr.rx)) ELSE CassetteRate
      s  == [d EXCEPT !.ula.serial = cr.serial, !.ula.motor = cr.motor,
                      !.acia = processAnaloguePortUpdate(@, rx, Rate(cr.tx))]
  IN  IF cr.serial THEN SetDCD(s, 0) ELSE s

-----------------------------------------------------------------------------
(* Cassette input.                                                         *)

\* What the tone of a half cycle of n ticks makes of RxD.
Heard(n) == CASE HighTone(n) -> 1 [] LowTone(n) -> 0 [] OTHER -> -1

Tone(d, n) ==
  CASE ~d.ula.carrier -> SetRxD(d, 1)
    [] d.ula.carrier /\ Heard(n) = d.ula.lastTone -> d
    [] d.ula.carrier /\ Heard(n) # d.ula.lastTone ->
         SetRxD([d EXCEPT !.ula.lastTone = Heard(n)], IF Heard(n) = 0 THEN 0 ELSE 1)

\* A low tone for a whole cycle, normally a start bit, deactivates DCD.
CountHalfCycle(d, n) ==
  IF HighTone(n)
  THEN [d EXCEPT !.ula.highs = CountTo(MinCarrier + 1, @), !.ula.lows = 0]
  ELSE IF d.ula.lows >= 1
       THEN SetDCD([d EXCEPT !.ula.lows = 2, !.ula.highs = 0], 1)
       ELSE [d EXCEPT !.ula.lows = 1]

DetectCarrier(d) ==
  IF d.ula.highs > MinCarrier /\ d.ula.DCD = 1
  THEN [SetDCD(d, 0) EXCEPT !.ula.carrier = TRUE]
  ELSE d

Listen(d) ==
  IF d.ula.casIn # d.ula.level
  THEN DetectCarrier(CountHalfCycle(Tone([d EXCEPT !.ula.level = d.ula.casIn, !.ula.levelCnt = 0],
                                         d.ula.levelCnt), d.ula.levelCnt))
  ELSE [d EXCEPT !.ula.levelCnt = CountTo(Silence + 1, @)]

\* The same level for too long is the loss of the carrier.
LoseCarrier(d) ==
  IF d.ula.levelCnt > Silence /\ d.ula.DCD = 0
  THEN SetRxD([SetDCD(d, 1) EXCEPT !.ula.highs = 0, !.ula.carrier = FALSE], 1)
  ELSE d

-----------------------------------------------------------------------------
(* Cassette output.                                                        *)

\* The tone changes with the data; a half cycle that is more than half over is ended.
ChangeTone(u) ==
  [u EXCEPT !.pTxD = u.TxD, !.toneCnt = 0,
            !.casOut = IF u.toneCnt + 1 > u.halfCycle \div 2 THEN 1 - @ ELSE @,
            !.halfCycle = IF u.TxD = 0 THEN LowToneHalfCycle ELSE HighToneHalfCycle]

ContinueTone(u) ==
  IF u.toneCnt + 1 = u.halfCycle
  THEN [u EXCEPT !.toneCnt = 0, !.casOut = 1 - @]
  ELSE [u EXCEPT !.toneCnt = @ + 1]

\* Without RTS or motor the output is silent.
MakeTone(u, rts) ==
  CASE rts = 1 \/ ~u.motor -> [u EXCEPT !.casOut = 0]
    [] rts = 0 /\ u.motor /\ u.TxD # u.pTxD -> ChangeTone(u)
    [] rts = 0 /\ u.motor /\ u.TxD = u.pTxD -> ContinueTone(u)

\* One round of advanceUntil.
TickULA(d) ==
  IF d.ula.serial THEN [d EXCEPT !.ula.casOut = 0]
  ELSE LET heard == Listen(d)
       IN  LoseCarrier([heard EXCEPT !.ula = MakeTone(@, heard.acia.RTS)])

ULAPoweredOn(cable) ==
  [serial |-> FALSE, motor |-> FALSE, cable |-> cable, DCD |-> 0, TxD |-> 1, casIn |-> 0, casOut |-> 0,
   level |-> 0, levelCnt |-> 0, carrier |-> FALSE, lastTone |-> -1, highs |-> 0, lows |-> 0,
   pTxD |-> 1, toneCnt |-> 0, halfCycle |-> HighToneHalfCycle]

=============================================================================
