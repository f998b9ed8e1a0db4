------------------------------- MODULE SDCard -------------------------------
(***************************************************************************)
(* The SD card (shared/SDCard.cpp) on its four SPI lines.  A command has   *)
(* 48 bits and begins with `01'; the answer to it, and the data token that *)
(* may follow, are shifted out while the master's next bits come in.       *)
(*                                                                         *)
(* A card is a record s: `rx', `rxBits', `rxReg', `request' and `token'    *)
(* for what comes in, `tx', `sent', `txReg', `response' and `data' for     *)
(* what goes out.  mReceivedBytes and mSentBytes are the bits divided by   *)
(* eight; the length of a response or data token is that of its sequence;  *)
(* what has been used is forgotten.  Application commands are left out:    *)
(* mPendingAppCmd is never set.                                            *)
(*                                                                         *)
(* `open' says whether the file of the image could be opened.  What a read *)
(* finds when it could not, the token left by an earlier command, is       *)
(* abstracted to an image of one byte throughout.                          *)
(*                                                                         *)
(* A definition named after another one with a suffix is a plausible error *)
(* in it, against which the properties are tested.                         *)
(***************************************************************************)
EXTENDS Integers, Sequences, Bitwise

CONSTANTS
  Base     \* what a byte of an address or length counts: 256 in the code

ASSUME BaseAssumption == Base \in 2 .. 256

Illegal == 255

NoCard ==
  [inserted |-> FALSE, open |-> FALSE, image |-> <<>>, initialised |-> FALSE, reset |-> FALSE, pclk |-> 0, miso |-> 1,
   rx |-> "IDLE", rxBits |-> 0, rxReg |-> 0, request |-> <<>>, start |-> FALSE, token |-> <<>>,
   tx |-> "IDLE", sent |-> 0, txReg |-> 0, response |-> <<>>, data |-> <<>>,
   cmd |-> Illegal, blockLen |-> 0, writeAdr |-> 0]

ejectCard(s) == [s EXCEPT !.inserted = FALSE, !.reset = FALSE]

\* The card replaces one that is still there, and is there even when its file cannot be
\* opened.
insertCard(s, image, open) == [s EXCEPT !.inserted = TRUE, !.open = open, !.image = image]

-----------------------------------------------------------------------------
(* Check sums, computed for the master: the card checks none.              *)

BitOf(byte, i) == (byte \div 2^(8 - i)) % 2

crc7(bytes) ==
  LET Reduced(c) == IF c >= 128 THEN c ^^ 137 ELSE c
      crc[i \in 0 .. 8 * Len(bytes)] ==
        IF i = 0 THEN 0
        ELSE Reduced(((2 * crc[i - 1]) % 256) ^^ (IF i % 8 = 1 THEN bytes[i \div 8 + 1] ELSE 0))
  IN  crc[8 * Len(bytes)]

crc16(bytes) ==
  LET Shifted(c, bit) == IF c \div 32768 # bit THEN ((2 * c) % 65536) ^^ 4129 ELSE (2 * c) % 65536
      crc[i \in 0 .. Len(bytes)] ==
        IF i = 0 THEN 65535
        ELSE LET before == crc[i - 1]
                 bits[k \in 0 .. 8] == IF k = 0 THEN before ELSE Shifted(bits[k - 1], BitOf(bytes[i], k))
             IN  IF before \in 0 .. 65535 THEN bits[8] ELSE before
  IN  crc[Len(bytes)]

-----------------------------------------------------------------------------
(* Commands.                                                               *)

Known == {0, 1, 6, 8, 9, 10, 12, 13, 16, 17, 18, 24, 25, 27, 28, 29, 30, 32, 33, 38, 42, 55, 56, 58, 59}

\* Answered as an illegal command.
Unsupported == Known \ {0, 1, 8, 10, 16, 17, 24, 56}

validCmd(s) ==
  /\ s.request[1] \div 64 = 1
  /\ s.request[1] % 64 \in Known
  /\ s.reset \/ s.request[1] % 64 = 0

Number(a, b, c, d) == ((a * Base + b) * Base + c) * Base + d

recover(s) == [s EXCEPT !.tx = "IDLE", !.rx = "IDLE", !.rxBits = 0, !.start = FALSE]

\* A response starts where the previous one has got to.
Respond(s, response) == [s EXCEPT !.response = response, !.tx = "RSP_WAIT"]

OK  == <<255, 0, 255>>
Neg == <<255, 4, 255>>

\* The start of a block, its bytes, check sum and a byte of ones.
Block(bytes) == <<254>> \o bytes \o <<crc16(bytes) \div 256, crc16(bytes) % 256, 255>>

RespondWithBlock(s, bytes) == [Respond(s, OK) EXCEPT !.data = Block(bytes), !.tx = "RSP_DATA_WAIT"]

Resized(bytes, n) == [i \in 1 .. n |-> IF i <= Len(bytes) THEN bytes[i] ELSE 0]

CheckPattern(request) ==
  LET content == <<8, 0, 0, request[4] % 16, request[5]>>
  IN  <<255>> \o content \o <<(2 * crc7(content) + 1) % 256, 255>>

CID == [i \in 1 .. 16 |-> IF i = 16 THEN 1 ELSE 0]

execBaseCmd(s) ==
  LET r == s.request
      n == r[1] % 64
      t == [s EXCEPT !.cmd = n, !.rx = "IDLE", !.rxBits = 0, !.request = <<>>]
      adr == Number(r[2], r[3], r[4], r[5])
  IN  CASE n = 0  -> [Respond(t, <<255, 1, 255>>) EXCEPT !.reset = TRUE]
        [] n \in {1, 56} -> Respond(t, OK)
        [] n = 8  -> Respond(t, CheckPattern(r))
        [] n = 10 -> RespondWithBlock(t, CID)
        [] n = 16 -> [Respond(t, OK) EXCEPT !.blockLen = Number(r[2], r[3], r[4], r[2])]
        [] n = 17 -> RespondWithBlock(t, [i \in 1 .. s.blockLen |-> s.image[adr + i - 1]])
        [] n = 24 -> [Respond(t, OK) EXCEPT !.writeAdr = Number(r[2], r[3], r[4], r[2]), !.rx = "DATA_WAIT",
                                            !.token = Resized(@, s.blockLen + 3)]
        [] n \in Unsupported -> Respond(t, Neg)

\* A file that is not open keeps nothing.
writeBlockData(s) ==
  LET at == [a \in s.writeAdr .. s.writeAdr + s.blockLen - 1 |-> s.token[a - s.writeAdr + 2]]
  IN  IF s.open THEN [a \in DOMAIN s.image \cup DOMAIN at |-> IF a \in DOMAIN at THEN at[a] ELSE s.image[a]]
      ELSE s.image

execCmd(s) == IF validCmd(s) THEN execBaseCmd(s) ELSE recover([s EXCEPT !.request = <<>>])

processMasterDataStaysBusy(s) ==
  IF s.cmd # 24 THEN recover(s)
  ELSE [s EXCEPT !.image = writeBlockData(s),
                 !.data = <<5, 0, 0, 0, 0, 0, 0, 0, 0, 0, 0>>, !.tx = "DATA_WAIT", !.rxBits = 0]

\* The block is written and 'accepted' answered, whether the file has taken it or not;
\* nine busy bytes follow.
processMasterData(s) ==
  IF s.cmd # 24 THEN recover(s)
  ELSE [s EXCEPT !.image = writeBlockData(s),
                 !.data = <<5, 0, 0, 0, 0, 0, 0, 0, 0, 0, 255>>, !.tx = "DATA_WAIT", !.rxBits = 0]

-----------------------------------------------------------------------------
(* Bits from the master, on the rising edge of the clock.                  *)

ShiftedIn(s, mosi) == ((2 * s.rxReg) % 256) + mosi

CommandBit(s, mosi) ==
  LET bits == s.rxBits + 1
      reg  == ShiftedIn(s, mosi)
      t    == [s EXCEPT !.rxBits = bits, !.rxReg = reg,
                        !.request = IF bits % 8 = 0 THEN Append(@, reg) ELSE @]
  IN  IF bits = 48 THEN execCmd(t) ELSE t

DataBitKeepsStart(s, mosi) ==
  LET reg   == ShiftedIn(s, mosi)
      first == ~s.start /\ reg = 254
      bits  == IF first THEN 8 ELSE s.rxBits + 1
      start == s.start \/ first
      t     == [s EXCEPT !.rxBits = bits, !.rxReg = reg, !.start = start,
                         !.token = IF start /\ bits % 8 = 0 THEN [@ EXCEPT ![bits \div 8] = reg] ELSE @]
  IN  IF bits = 8 * Len(s.token) THEN processMasterData([t EXCEPT !.rx = "IDLE"]) ELSE t

\* The bits are counted before the start of the block has been seen, too.
DataBit(s, mosi) ==
  LET reg   == ShiftedIn(s, mosi)
      first == ~s.start /\ reg = 254
      bits  == IF first THEN 8 ELSE s.rxBits + 1
      start == s.start \/ first
      t     == [s EXCEPT !.rxBits = bits, !.rxReg = reg, !.start = start,
                         !.token = IF start /\ bits % 8 = 0 THEN [@ EXCEPT ![bits \div 8] = reg] ELSE @]
  IN  IF bits = 8 * Len(s.token) THEN processMasterData([t EXCEPT !.rx = "IDLE", !.start = FALSE]) ELSE t

processRxBits(s, mosi) ==
  CASE s.rx = "IDLE" -> [s EXCEPT !.cmd = Illegal, !.rx = IF mosi = 1 THEN "PREAMBLE_WAIT" ELSE @]
    [] s.rx = "PREAMBLE_WAIT" /\ mosi = 0 -> [s EXCEPT !.rxBits = @ + 1]
    [] s.rx = "PREAMBLE_WAIT" /\ mosi = 1 ->
         IF s.rxBits = 1 THEN [s EXCEPT !.rx = "CMD_WAIT", !.rxReg = 1, !.rxBits = 2, !.request = <<>>]
         ELSE [s EXCEPT !.rxBits = 0]
    [] s.rx = "CMD_WAIT"  -> CommandBit(s, mosi)
    [] s.rx = "DATA_WAIT" -> DataBit(s, mosi)

-----------------------------------------------------------------------------
(* Bits to the master, on the falling edge.                                *)

\* A byte past the end is whatever lies there.
ByteAt(bytes, n, stray) == IF n <= Len(bytes) THEN bytes[n] ELSE stray

generateTxBits(s, stray) ==
  LET bytes == IF s.tx = "DATA_WAIT" THEN s.data ELSE s.response
      reg   == IF s.sent % 8 = 0 THEN ByteAt(bytes, s.sent \div 8 + 1, stray) ELSE (2 * s.txReg) % 256
      t     == [s EXCEPT !.txReg = reg, !.miso = reg \div 128, !.sent = @ + 1]
  IN  IF s.tx = "IDLE" THEN s
      ELSE IF t.sent # 8 * Len(bytes) THEN t
      ELSE IF s.tx = "RSP_DATA_WAIT" THEN [t EXCEPT !.sent = 0, !.tx = "DATA_WAIT", !.response = <<>>]
      ELSE [t EXCEPT !.sent = 0, !.tx = "IDLE", !.response = <<>>, !.data = <<>>]

-----------------------------------------------------------------------------
\* Before the first command 74 ones are counted, whether the card is selected or not.
CountOnes(s, mosi) ==
  LET n == IF mosi = 1 THEN s.rxBits + 1 ELSE 0
  IN  IF n = 74 THEN [s EXCEPT !.rx = "PREAMBLE_WAIT", !.rxBits = 0, !.initialised = TRUE]
      ELSE [s EXCEPT !.rxBits = n]

processPortUpdateNoEdge(s, clk, mosi, sel, stray) ==
  LET t == CASE clk = 1 /\ ~s.initialised -> CountOnes(s, mosi)
             [] clk = 1 /\ s.initialised /\ sel = 0 -> processRxBits(s, mosi)
             [] clk = 0 /\ sel = 0 -> generateTxBits(s, stray)
             [] OTHER -> s
  IN  IF s.inserted THEN [t EXCEPT !.pclk = clk] ELSE s

\* The clock may be updated without a change: it has two sources.
processPortUpdate(s, clk, mosi, sel, stray) ==
  LET t == CASE clk = 1 /\ ~s.initialised -> CountOnes(s, mosi)
             [] clk = 1 /\ s.initialised /\ sel = 0 -> processRxBits(s, mosi)
             [] clk = 0 /\ sel = 0 -> generateTxBits(s, stray)
             [] OTHER -> s
  IN  IF s.inserted /\ clk # s.pclk THEN [t EXCEPT !.pclk = clk] ELSE s

=============================================================================
