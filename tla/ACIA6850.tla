------------------------------ MODULE ACIA6850 ------------------------------
(***************************************************************************)
(* The serial interface MC6850 (shared/ACIA6850.cpp): a transmitter and a  *)
(* receiver that sample a line at their own clocks, a status register and  *)
(* an interrupt.  The chip is a record; each function of the code maps it  *)
(* to the next one.  The status register is the set of the bits that are   *)
(* set; its IRQ bit is `irq'.                                              *)
(*                                                                         *)
(* Times are in ticks, TickRate of them a second, and are rounded as the   *)
(* code rounds them.                                                       *)
(***************************************************************************)
EXTENDS Integers

CONSTANT TickRate  \* ticks per second (mTickRate is in MHz)

ASSUME ACIAAssumption == TickRate \in Nat \ {0}

\* round() of a positive quotient.
Round(n, d) == (2 * n + d) \div (2 * d)

\* The word formats: -1 stands for no parity, 0 for even and 1 for odd parity.
Word(bits, parity, stop) == [bits |-> bits, parity |-> parity, stop |-> stop]
Words ==
  [w \in 0 .. 7 |->
     CASE w = 0 -> Word(7, 0, 2)  [] w = 1 -> Word(7, 1, 2)
       [] w = 2 -> Word(7, 0, 1)  [] w = 3 -> Word(7, 1, 1)
       [] w = 4 -> Word(8, -1, 2) [] w = 5 -> Word(8, -1, 1)
       [] w = 6 -> Word(8, 0, 1)  [] w = 7 -> Word(8, 1, 1)]

\* The control register: clock divider, word format, transmit control, receive interrupt.
MasterReset == 3
ClearedCR == [div |-> 0, word |-> 0, tx |-> 0, rie |-> FALSE]
Dividers == [d \in 0 .. 2 |-> CASE d = 0 -> 1 [] d = 1 -> 16 [] d = 2 -> 64]

-----------------------------------------------------------------------------
(* The interrupt.                                                          *)

Requested(a) ==
  \/ a.cr.tx = 1 /\ "TDRE" \in a.sr
  \/ a.cr.rie /\ a.sr \cap {"RDRF", "OVRN", "DCD"} # {}

updateIRQ(a) == [a EXCEPT !.irq = Requested(a)]

\* The interrupt is computed anew while it is requested and when something has changed.
Updated(old, new) ==
  IF old.irq \/ new.sr # old.sr \/ new.cr # old.cr THEN updateIRQ(new) ELSE new

-----------------------------------------------------------------------------
(* The registers.                                                          *)

\* Clock periods in ticks, from the clocks and the divider.
update_settings(a) ==
  [a EXCEPT !.rxDivCycles = Round(TickRate, a.rxClk \div a.clkDiv),
            !.txDivCycles = Round(TickRate, a.txClk \div a.clkDiv)]

\* The clocks of receiver and transmitter, set one after the other: the transmitter's
\* only counts divided.
processAnaloguePortUpdate(a, rxClk, txClk) ==
  update_settings([a EXCEPT !.rxClk = rxClk, !.txClk = txClk, !.rxClkCycles = Round(TickRate, rxClk)])

ReadStatus(a) ==
  Updated(a, [a EXCEPT !.clearPending = @ \/ a.sr \cap {"OVRN", "DCD"} # {}])

ReadDataKeepsFull(a) ==
  Updated(a, [a EXCEPT !.sr = @ \ IF a.clearPending THEN {"OVRN", "DCD"} ELSE {},
                       !.clearPending = FALSE])

\* Overrun and loss of the carrier are cleared by reading the status and then the data.
ReadData(a) ==
  Updated(a, [a EXCEPT !.sr = @ \ ({"RDRF"} \cup IF a.clearPending THEN {"OVRN", "DCD"} ELSE {}),
                       !.clearPending = FALSE])

\* A master reset leaves the settings and the IRQ output as they are.
WriteMasterReset(a) ==
  [a EXCEPT !.cr = ClearedCR, !.sr = (@ \ {"CTS"}) \cup {"TDRE"}, !.powerOn = FALSE,
            !.RTS = IF a.powerOn THEN 1 ELSE @, !.rx = "none", !.tx = "none"]

WriteControl(a, cr) ==
  IF cr.div = MasterReset THEN WriteMasterReset(a)
  ELSE Updated(a, update_settings(
         [a EXCEPT !.cr = cr, !.clkDiv = Dividers[cr.div], !.format = Words[cr.word],
                   !.RTS = IF cr.tx = 2 THEN 1 ELSE 0,
                   !.TxD = IF cr.tx = 3 THEN 0 ELSE @]))

WriteData(a, data) ==
  Updated(a, update_settings(
    [a EXCEPT !.tdr = data, !.sr = @ \ {"TDRE"}, !.txPending = @ \/ a.tx = "none"]))

-----------------------------------------------------------------------------
(* A tick.                                                                 *)

FindStartBitAtEnd(a) ==
  LET low == IF a.RxD = 0 THEN a.rxLow + 1 ELSE 0
  IN  IF low > a.clkDiv
      THEN [a EXCEPT !.rxLow = low, !.mid = a.ticks, !.rx = "data", !.rxBits = 0, !.rxBuffer = 0,
                     !.rxPar = 0, !.sr = @ \ {"PE"}]
      ELSE [a EXCEPT !.rxLow = low]

\* A start bit has been low for half of its time: its middle is the reference for
\* the samples to follow.
FindStartBit(a) ==
  LET low == IF a.RxD = 0 THEN a.rxLow + 1 ELSE 0
  IN  IF low > a.clkDiv \div 2
      THEN [a EXCEPT !.rxLow = low, !.mid = a.ticks, !.rx = "data", !.rxBits = 0, !.rxBuffer = 0,
                     !.rxPar = 0, !.sr = @ \ {"PE"}]
      ELSE [a EXCEPT !.rxLow = low]

AfterData(format) == IF format.parity = -1 THEN "stop" ELSE "parity"

ReceiveDataBit(a) ==
  [a EXCEPT !.rxBuffer = @ \div 2 + 128 * a.RxD, !.rxPar = (@ + a.RxD) % 2, !.rxBits = @ + 1,
            !.rx = IF a.rxBits + 1 = a.format.bits THEN AfterData(a.format) ELSE @]

\* The parity bit is compared after it has been counted itself.
ReceiveParityBit(a) ==
  LET parity == (a.rxPar + a.RxD + a.format.parity) % 2
  IN  [a EXCEPT !.rxPar = (@ + a.RxD) % 2, !.rx = "stop",
                !.sr = IF a.RxD # parity THEN @ \cup {"PE"} ELSE @]

\* A framing error sets the bit of the parity error; a byte that has not been read
\* stays in the register.
ReceiveStopBit(a) ==
  [a EXCEPT !.rdr = IF "RDRF" \in a.sr THEN @ ELSE a.rxBuffer,
            !.sr = @ \cup {"RDRF"} \cup IF a.RxD = 1 THEN {} ELSE {"PE"},
            !.rx = "start", !.rxLow = 0, !.rxBuffer = 0]

Receive(a) ==
  CASE a.rx = "start"  -> IF a.ticks % a.rxClkCycles = 0 THEN FindStartBit(a) ELSE a
    [] a.rx = "none"   -> a
    [] (a.ticks - a.mid) % a.rxDivCycles # 0 -> a
    [] a.rx = "data"   -> ReceiveDataBit(a)
    [] a.rx = "parity" -> ReceiveParityBit(a)
    [] a.rx = "stop"   -> ReceiveStopBit(a)

\* An idle transmitter takes the byte that waits, or lets the line rest.
NextByte(a) ==
  CASE a.tx # "none" -> a
    [] a.tx = "none" /\ a.txPending  -> [a EXCEPT !.tx = "start", !.txPending = FALSE, !.tdrBuf = a.tdr]
    [] a.tx = "none" /\ ~a.txPending -> [a EXCEPT !.TxD = 1]

SendDataBit(a) ==
  [a EXCEPT !.TxD = a.tdrBuf % 2, !.tdrBuf = @ \div 2, !.txPar = (@ + a.tdrBuf) % 2, !.txBits = @ + 1,
            !.tx = IF a.txBits + 1 = a.format.bits THEN AfterData(a.format) ELSE @]

\* The register is empty when the byte has left the chip.
SendStopBit(a) ==
  LET over == a.stopBits + 1 = a.format.stop
  IN  [a EXCEPT !.TxD = 1, !.stopBits = @ + 1, !.tx = IF over THEN "none" ELSE @,
                !.sr = IF over /\ "CTS" \notin a.sr THEN @ \cup {"TDRE"} ELSE @]

SendBit(a) ==
  CASE a.tx = "start"  -> [a EXCEPT !.TxD = 0, !.stopBits = 0, !.tx = "data", !.txBits = 0,
                                    !.txPar = IF a.format.parity = 0 THEN 0 ELSE 1]
    [] a.tx = "data"   -> SendDataBit(a)
    [] a.tx = "parity" -> [a EXCEPT !.TxD = a.txPar, !.tx = "stop"]
    [] a.tx = "stop"   -> SendStopBit(a)
    [] a.tx = "none"   -> a

Send(a) == IF a.ticks % a.txDivCycles = 0 THEN SendBit(NextByte(a)) ELSE a

TickForgetsIRQ(a) == [Send(Receive(a)) EXCEPT !.ticks = @ + 1]

\* One round of advanceUntil.
Tick(a) ==
  LET t == Send(Receive(a))
  IN  [IF t.sr # a.sr THEN updateIRQ(t) ELSE t EXCEPT !.ticks = @ + 1]

-----------------------------------------------------------------------------
\* processPortUpdate: DCD has changed, as the carrier comes (0) or goes (1).
CarrierDetect(a, level) ==
  IF level = 0
  THEN Updated(a, [a EXCEPT !.DCD = level, !.rxLow = 0, !.rx = "start"])
  ELSE Updated(a, [a EXCEPT !.DCD = level, !.sr = @ \cup {"DCD"}])

\* After power on, when the serial ULA has delivered CTS and DCD, both low.
PoweredOn ==
  [cr |-> ClearedCR, sr |-> {"CTS"}, irq |-> FALSE, rdr |-> 0, tdr |-> 0, tdrBuf |-> 0, powerOn |-> TRUE,
   clearPending |-> FALSE, RxD |-> 1, TxD |-> 1, RTS |-> 1, DCD |-> 0,
   clkDiv |-> 1, format |-> Word(7, -1, 1), rxClk |-> 1, txClk |-> 1,
   rxClkCycles |-> 1, rxDivCycles |-> 1, txDivCycles |-> 1, ticks |-> 0,
   rx |-> "start", rxLow |-> 0, rxBits |-> 0, rxBuffer |-> 0, rxPar |-> 0, mid |-> 0,
   tx |-> "none", txBits |-> 0, txPar |-> 0, stopBits |-> 0, txPending |-> FALSE]

=============================================================================
