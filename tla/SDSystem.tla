------------------------------ MODULE SDSystem ------------------------------
(***************************************************************************)
(* The SD card and a filing system that uses it as MMFS does: it switches  *)
(* the card on with 80 clocks, CMD0, CMD1 and CMD16, reads and writes      *)
(* blocks, waits for each answer for some bytes, and starts again, with    *)
(* what it was asked, when none comes.  The user exchanges the card        *)
(* between two operations, by the menu of GUI.cpp, and may choose a file   *)
(* that cannot be opened.  The driver is not part of the emulator; it is   *)
(* modelled from the sequences that the comments of SDCard.cpp describe.   *)
(***************************************************************************)
EXTENDS SDCard

CONSTANTS
  Addresses, Blocks,   \* what is read and written
  OtherCommands,       \* commands that may be sent in between
  None,
  MaxPolls             \* bytes the driver waits for an answer

VARIABLES
  sd,    \* the card and its slot
  drv    \* the driver

vars == <<sd, drv>>

BlockLen == Base

Requests ==
  [kind : {"read"}, adr : Addresses] \cup [kind : {"write"}, adr : Addresses, data : Blocks]
Cmd(n) == [kind |-> "cmd", n |-> n]

\* An image with the given blocks.
ImageOf(store) ==
  [i \in UNION {a .. a + BlockLen - 1 : a \in Addresses} |->
     LET a == CHOOSE a \in Addresses : i \in a .. a + BlockLen - 1 IN store[a][i - a + 1]]

StoreOf(image) == [a \in Addresses |-> [i \in 1 .. BlockLen |-> image[a + i - 1]]]

\* Addresses and lengths are multiples of Base below its square.
Digits(n) == <<0, 0, n \div Base, 0>>

Argument(o) ==
  CASE o.kind \in {"read", "write"} -> Digits(o.adr)
    [] o.kind = "cmd" /\ o.n = 16   -> Digits(BlockLen)
    [] o.kind = "cmd" /\ o.n = 8    -> <<0, 0, 1, 170>>
    [] OTHER                        -> <<0, 0, 0, 0>>

Number6(o) == CASE o.kind = "read" -> 17 [] o.kind = "write" -> 24 [] o.kind = "cmd" -> o.n

Request48(o) == <<64 + Number6(o)>> \o Argument(o) \o <<255>>

Ones(n) == [i \in 1 .. n |-> 255]

-----------------------------------------------------------------------------
(* The driver: `out' holds the bytes it still sends, `todo' the commands.  *)

Setup == <<Cmd(0), Cmd(1), Cmd(16)>>

Power(d) ==
  [d EXCEPT !.step = "power", !.out = Ones(10), !.polls = 0, !.sel = 0, !.steady = sd'.inserted,
            !.todo = Setup \o (IF d.pending = None THEN <<>> ELSE <<d.pending>>)]

\* A relaxed driver deselects the card for a byte, waits before it sends a block, and
\* reads check sums.
Send(d) ==
  IF d.relaxed THEN [d EXCEPT !.step = "pause", !.sel = 1, !.out = Ones(1)]
  ELSE [d EXCEPT !.step = "send", !.out = Request48(Head(d.todo))]

Expect(d, step) == [d EXCEPT !.step = step, !.out = Ones(1), !.polls = 0]

\* `gaveUp' is what a card that has stayed in its slot has not answered.
Poll(d) ==
  IF d.polls = MaxPolls
  THEN [Power([d EXCEPT !.block = <<>>]) EXCEPT !.gaveUp = IF d.steady THEN Head(d.todo) ELSE None]
  ELSE [d EXCEPT !.out = Ones(1), !.polls = @ + 1]

Completed(d, answer) ==
  LET o == Head(d.todo)
      t == [d EXCEPT !.todo = Tail(@), !.block = <<>>]
      u == IF o.kind = "cmd" THEN t ELSE [t EXCEPT !.pending = None, !.answer = answer]
  IN  IF u.todo = <<>> THEN [u EXCEPT !.step = "idle", !.polls = 0] ELSE Send(u)

Read(d) == IF Head(d.todo).kind = "cmd" THEN 16 ELSE BlockLen

\* What the driver does when it has sent one byte and received another.
Byte(d, byte) ==
  LET o == Head(d.todo)
      t == [d EXCEPT !.out = Tail(@), !.gaveUp = None]
  IN  CASE t.out # <<>>         -> t
        [] t.out = <<>> /\ d.step = "power" -> Send(t)
        [] t.out = <<>> /\ d.step = "pause" -> [t EXCEPT !.step = "send", !.sel = 0, !.out = Request48(o)]
        [] t.out = <<>> /\ d.step = "send"  -> Expect(t, "response")
        [] d.step = "response" /\ byte = 255 -> Poll(t)
        [] d.step = "response" /\ byte # 255 ->
             CASE o.kind = "write" -> [t EXCEPT !.step = "data",
                                        !.out = Ones(IF d.relaxed THEN 1 ELSE 0) \o <<254>> \o o.data \o Ones(2)]
               [] o.kind = "read" \/ o = Cmd(10) -> Expect(t, "token")
               [] OTHER -> Completed(t, None)
        [] d.step = "token" -> IF byte = 254 THEN Expect(t, "block") ELSE Poll(t)
        [] d.step = "block" ->
             LET got == Append(d.block, byte)
             IN  IF Len(got) = Read(d) + (IF d.relaxed THEN 2 ELSE 0)
                 THEN Completed(t, SubSeq(got, 1, Read(d)))
                 ELSE [t EXCEPT !.block = got, !.out = Ones(1)]
        [] t.out = <<>> /\ d.step = "data" -> Expect(t, "accept")
        [] d.step = "accept" -> IF byte % 32 = 5 THEN Expect(t, "busy") ELSE Poll(t)
        [] d.step = "busy"   -> IF byte = 255 THEN Completed(t, o.data) ELSE Poll(t)

-----------------------------------------------------------------------------
NewDriver ==
  [step |-> "power", out |-> Ones(10), sel |-> 0, polls |-> 0, todo |-> Setup,
   pending |-> None, block |-> <<>>, answer |-> None, relaxed |-> FALSE,
   steady |-> FALSE, gaveUp |-> None]

Init == sd = NoCard /\ drv = NewDriver

\* The clock has two sources, and each of them may update the port: a level is seen
\* once or twice.
Level(s, clk, mosi, again, stray) ==
  LET t == processPortUpdate(s, clk, mosi, drv.sel, stray)
  IN  IF again THEN processPortUpdate(t, clk, mosi, drv.sel, stray) ELSE t

\* The card after n bits of a byte, and what the master has received: it samples its
\* input on the rising edge, before the card changes it on the falling one.
Clocked(byte, n, again, stray) ==
  LET bits[k \in 0 .. n] ==
        IF k = 0 THEN [sd |-> sd, in |-> 0]
        ELSE LET before == bits[k - 1]
                 high   == Level(before.sd, 1, BitOf(byte, k), again, stray)
                 low    == Level(high, 0, BitOf(byte, k), again, stray)
             IN  [sd |-> low, in |-> 2 * before.in + high.miso]
  IN  bits[n]

\* Nobody else touches the lines during a byte.
Transfer ==
  /\ drv.out # <<>>
  /\ \E again \in BOOLEAN, stray \in {0, 255} :
       LET after == Clocked(Head(drv.out), 8, again, stray)
       IN  sd' = after.sd /\ drv' = Byte(drv, after.in)

\* The filing system is asked for a block, or sends another command.
Ask(r) ==
  /\ drv.step = "idle" /\ r \in Requests
  /\ \E relaxed \in BOOLEAN :
       drv' = Send([drv EXCEPT !.pending = r, !.todo = <<r>>, !.answer = None, !.relaxed = relaxed])
  /\ UNCHANGED sd

Other(n) ==
  /\ drv.step = "idle"
  /\ drv' = Send([drv EXCEPT !.todo = <<Cmd(n)>>, !.relaxed = FALSE])
  /\ UNCHANGED sd

BetweenOperations == drv.step \in {"idle", "power"}

\* The menu inserts into an empty slot only.
Insert ==
  /\ BetweenOperations /\ ~sd.inserted
  /\ \E store \in [Addresses -> Blocks] : sd' = insertCard(sd, ImageOf(store), TRUE)
  /\ drv' = [drv EXCEPT !.steady = FALSE]

\* A file that cannot be opened: it may be read-only, say.  The menu still offers to insert
\* a card then, but does not do it.
InsertUnopened ==
  /\ BetweenOperations /\ ~sd.inserted
  /\ \E byte \in {0, 255} :
       sd' = insertCard(sd, [i \in DOMAIN ImageOf([a \in Addresses |-> <<>>]) |-> byte], FALSE)
  /\ drv' = [drv EXCEPT !.steady = FALSE]

\* The menu offers it after a card has been inserted successfully.
Eject ==
  /\ BetweenOperations /\ sd.inserted /\ sd.open
  /\ sd' = ejectCard(sd)
  /\ drv' = [drv EXCEPT !.steady = FALSE]

Next ==
  \/ Transfer \/ Insert \/ InsertUnopened \/ Eject
  \/ \E r \in Requests : Ask(r)
  \/ \E n \in OtherCommands : Other(n)

\* Weak fairness of Transfer, which is enabled while the driver has something to send.
Fairness == []<>(drv.out = <<>>) \/ []<><<Transfer>>_vars

Spec == Init /\ [][Next]_vars /\ Fairness


=============================================================================
