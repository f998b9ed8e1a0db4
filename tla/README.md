# Verification of AtomEmulUtils

AtomEmulUtils emulates 8-bit computers built around the 6502 processor (Acorn Atom, BBC Micro and
others). A memory map file names the devices of a system, places them in the
address space and wires their ports together. The engine then executes the processor, and the other
devices follow its time. A debugger with a command line of its own can stop the processor, step it
and wait for breakpoints while the engine runs in another thread.

This directory holds TLA+ models of that code, TLC configurations that check them, and theorems
about them that the TLA+ proof system checks.

- Part 1 is the inventory: the parts of the emulator, what each keeps and does, and what makes it
  correct.
- Part 2 says which module models which part, and how.
- Part 3 says what each run checks, with the bounds and the fairness.
- Part 4 is about the proofs.
- Part 5 lists where the code departs from what its documents say.
- Part 6 says what is not modelled, and in which order it is to come.

`PROJECT.json` is the index: components, runs, the source lines of every definition (`map`), the
errors against which each property has been tried (`mutants`), the hazards and the theorems.

To check a run or a proof, in this directory:

    tlc -workers 2 -config MCCPU.cfg MCCPU.tla
    tlapm VIAProofs.tla

## 1. The system

### 1.1 Parts and their state

| Part (files in `src/shared`) | State | Operations |
|---|---|---|
| **Port network**: `Device`, `ConnectionManager` | `valOut`, `valIn` of each port, the list of inputs of each output, the sources of each input, the arbitration flag, each source's last request (`dstVal`) | `connect` (a CONNECT line), `updatePort`, `updatePorts`, `processPortUpdate` |
| **Engine run control**: `Engine`, the thread and commands of `Debugger` | `mState`, `mSteps`, `mRetAdr`, `mBreakPoint`, `mRecurringTracing`, `mExecMutex`; `mWaitingEnabled`, `mDebuggerWaiting`, `mQuit` | `run`, `checkForBreakPoint`, `step`, `cont`, `halt`, `setBreakPointAndWait`, `exit`, the menu items |
| **Emulated time**: `Engine::run`, `TimedDevice`, `ClockedDevice` | `mTicks` of the engine and of each device, `mCycle` of clocked devices | `advanceUntil` at one of three rates (per instruction, high, low) |
| **6502, cycle accurate**: `P6502CC`, `P6502` | `mInstrExeState`, two cycle counters, pending interrupts, the bus, the clock stretching, registers | `step`, 56 instructions as micro programs, RESET/NMI/IRQ sequences |
| **6502, instruction accurate**: `P6502IC` | registers, pending interrupts | `step` |
| **VIA 6522** | two timers, shift register, port latches, IFR, IER, ACR, PCR | `advanceUntil`, `readByte`, `writeByte`, `reset` |
| **PIA 8255** | control word, three ports | `advanceUntil`, `readByte`, `writeByte` |
| **ACIA 6850** | CR, SR, TDR, RDR, receiver and transmitter states, bit counters, divided clocks | the same, and `processPortUpdate` for DCD and CTS |
| **BBC serial ULA and tape**: `BeebSerialULA`, `TapeRecorder`, `CSWCodec`, `AtomCUTSInterface` | half-cycle lengths, carrier state, tone synthesis; position in the pulses | bit cells to serial data and back; play, record, rewind; reading and writing of CSW pulses |
| **SD card** | receive and transmit modes of the SPI bus, counters of bits and bytes, block address | clock edges as port updates, commands 0, 1, 8, 10, 16, 17, 24, 55, 58; insertion and ejection of an image |
| **ADC 7002** | conversion in progress, its remaining cycles, EOC | start by a write, end by time |
| **CRTC 6845**, **BBC video ULA**, **SAA5050**, **VDU 6847** | row, line and character counters, sync, cursor, field parity, palette | `advanceUntil` character by character, register writes |
| **SN76489** | three tone generators, a noise generator, first byte of a two-byte write | `processPortUpdate` on WE, `advanceUntil` |
| **Keyboards**, **Latch 74LS259**, **BBC ROM select** | key matrix, auto scan, pasting; eight latched bits; the selected slot | `processPortUpdate`, `advanceUntil`, `writeByte` |
| **Memory map**: `MemorySegmentTree`, `MemoryProxyDevice`, `MemoryMappedDevice`, `RAM`, `ROM` | a balanced tree of address segments, the device a proxy has selected, access ratios | `insert`, `find`, chip selects, triggers on access |
| **Device manager** | the devices and the lines of the memory map file | reading, creation, power on and reset in order |
| Debugger commands, tracing, disassembler, GUI, display, sound output, programs | formats, tables and calls of the Allegro library | input and output |

### 1.2 How the parts interact

- A device changes an output with `updatePort`, which copies the value, shifted, masked or inverted,
  into each connected input. If the CONNECT line says `:P`, the destination's `processPortUpdate`
  runs in the middle of that loop and may call `updatePort` again. All of this is one thread, but
  it is deeply re-entrant.
- The processor reads and writes memory-mapped devices. A slow device stretches its clock, and a
  VIA advances itself by a cycle when it is read.
- The engine thread calls the processor's `step` under `mExecMutex`: an instruction with `P6502IC`,
  a clock cycle with `P6502CC`. The debugger thread writes the run
  state, in part under that mutex and in part without it, and polls until the processor has
  stopped or the user has chosen "Stop waiting".
- IRQ, NMI and RESET are ports like all others. The IRQ inputs have several sources, which are
  combined by the arbitration of `updateDstPortValue`.

### 1.3 What is hard, and what makes a part correct

| Part | Hard behaviour | What has to hold |
|---|---|---|
| Port network | nested updates, early exits on "nothing changed", power on while half the devices have not been reset | inputs agree with what the outputs drive once no update is in progress; a shared line is low while one source asks for it |
| Run control | two threads, writes without the mutex, polling, shutdown; a processor that is called once an instruction, or once a clock cycle | a step executes what it promises; nobody waits for ever; registers change between two calls of the processor only |
| Emulated time | three rates in one loop, wrap-around tests | no device ahead of the processor by more than its rate; each high-rate period served once |
| 6502 | interrupts at any cycle, RDY, stretched accesses, a micro program that BRK, NMI and IRQ share | no interrupt lost or late, exact cycles, each write once, the right return address, no dead end |
| VIA | seven interrupt sources, counters that expire at different values the first and later times, edges between cycles, a device answering within a cycle | IRQ follows the flags; timers expire on the cycle; no edge lost or invented |
| ACIA, serial ULA, tape | bit cells of varying length, sampling in the middle of a bit, overrun, carrier detection | a byte sent is the byte received; each overrun, lost carrier and received byte raises its flag once |
| SD card | a command and a data block interleaved bit by bit with select and deselect; a clock line with two sources; a card exchanged under the driver's feet | the response of a command follows it; a block read is the block last written |
| The two 6502 | the same instruction written twice, as micro cycles that share a bus and at once | the same registers, accesses and time, at wrapping indices and page crossings |
| Memory map | overlapping devices, chip selects that change in the middle of an access | at most one device answers; the tree finds each address that was inserted |
| CRTC, video | registers rewritten in the middle of a field | counters stay in range and a field ends |

The hazards in `PROJECT.json` are the hard behaviours of the modelled parts and of the scheduling,
each at the line where it bites and with the properties that would catch it.

## 2. The models

In every module a definition whose name is that of another one with a suffix (`TakeIRQLate`,
`CountShiftOneMore`, `RecordedOnChange`, ...) is a plausible error in it. The specification does
not use it; `PROJECT.json` names the property that fails when it takes the place of the correct
one.

    PortNetwork -- PortProperties --+-- MCPorts
                        |           +-- PortProofs
                        +-- INSTANCE WiredAndLine
    EngineControl -- EngineProperties --+-- MCEngine
                                        +-- EngineProofs
    P6502CC -- CPUProperties --+-- MCCPU
                               +-- CPUProofs
    VIA6522 -- VIAProperties --+-- MCVia
                               +-- VIAProofs
    Codec6502 -- P6502 --+-- P6502CCInstr -- InstrProperties --+-- MCInstr
                         |                        |            +-- InstrStepProofs -- InstrProofs
                         +-- P6502ICInstr --------+ (an INSTANCE)
    SDCard -- SDSystem -- SDProperties -- MCSDCard
                              +-- INSTANCE BlockStore
    ACIA6850 -- BeebSerialULA --+
                TapeRecorder ---+-- SerialSystem -- SerialProperties --+-- MCSerial
                                                        |              +-- SerialProofs
                                                        +-- INSTANCE Channel
    Schedule -- ScheduleProperties --+-- MCSchedule
                                     +-- ScheduleProofs

### 2.1 The port network: `PortNetwork`, `PortProperties`, `WiredAndLine`

A system has three phases: its CONNECT lines are read (`Connect`, in any order), its devices are
powered (`PowerOn`, `ForceOut`, one output after the other in any order, `Started`), and it runs
(`Drive`: a device updates a port). A port value is the set of its high bits, so that `&` is
`\cap`, `|` is `\cup` and a shift moves every element.

`updatePort` is not one step. `stack` is the chain of calls in progress, innermost first, and each
element remembers which inputs are still to be served. `Deliver` is one round of the loop
(`updateDstPortValue` and the start of the handler), `React` an update the handler makes,
`HandlerDone` its return and `Return` the end of the loop. `Reacts` says which ports a handler may
update; which of them it updates, in which order and with which values is left open.

`arbitration` is computed at every `Connect` just as `ConnectionManager::connect` does, from the
connections made up to then. `dstVal` is what each source last asked for, kept also when the input
does not change; `FirstRef` is the search that finds its record. The qualifiers of a CONNECT line
are compared as the code compares them: only the last letter is recognised.

`WiredAndLine` is the abstract promise of an arbitrated input: an open-collector line, each of
whose wires is high exactly when every source attached to it asks for high. `LineIsWiredAnd` says
that `PortNetwork` implements it, with the requests mapped to `dstVal` and the line to `valIn`.

What a memory map has to see to, for these promises to hold, is stated in `PortProperties` and part
of no action: no two CONNECT lines join the same two ports (`UniqueRoutes`), the handlers of an
update do not lead back to the port that is being updated (`RankedCalls`, by the constant `Rank`,
the depth at which a port is updated), and an input of which two connections share a bit is an
arbitrated one (`SharedBitsArbitrated`). `MCPorts` assumes it of the wiring
it is about, and TLC evaluates the assumption.

Two kinds of wiring are outside these assumptions, and so outside `LinesSettled`, `CallsCorrect`, `SettledCorrect`
and `LineCorrect`:

- an input with two sources that is *not* arbitrated, of which the shipped BBC map has one: the clock of the card,
  `MMFS_CARD:CLK`, is wired from two ports of the user VIA (`Examples/Beeb/ROMs/BeebMemoryMap.txt:120`, `122`).
  The last writer wins, whatever the other source drives. `ArbitratedIsAnd` says nothing of such an input. What the
  card makes of the levels it is given, repeated ones included, is in 2.6;
- a cycle of `:P` connections. Nothing in the code prevents a map that has one, and whether its nested updates end, and
  with which values, depends on the handlers. Calls in a ranked wiring end by its finiteness; that is not stated as a property.

Left out: analogue ports (an assignment and a callback, no arbitration) and the port writes of the
debugger.

### 2.2 The run control: `EngineControl`, `EngineProperties`

Two program counters, `ePC` for `Engine::run` with the menu and the shutdown, `dPC` for
`Debugger::run` and the commands that use the engine. A step is what the code does between two
points at which the other thread can be noticed:

- a section under `mExecMutex` that only the debugger thread's own polling or setting occupies is
  one step, enabled while the mutex is free (`SetStep`, `PollStep`, `PollDetects`, ...), for the
  other thread cannot tell when in it the write is made, except where it reads without the mutex;
- the engine thread's section is five steps, `LockForStep`, `TestRunning`, `Execute`,
  `ReadForCheck` and `WriteAndUnlock` with a read and a later write of `mState`, because
  `Engine::cont` and the ends of `step` and `setBreakPointAndWait` write it without the mutex.

The processor is one of the two (`microCycles`), and `Execute` is one call of its `step`. With `P6502IC` that is an
instruction, with the entry of an interrupt handler before it if one is requested. With `P6502CC` it is a clock
cycle: `MicroCycle` is one within an instruction, `Instruction` the one that ends it, and an interrupt sequence counts as
an instruction of its own. `IdleStep` is a call that executes nothing (RESET or RDY low, a stretched cycle). After
each call `checkForBreakPoint` decides (`ReadForCheck`, `Decision`), and does so only where an opcode is about to be
fetched (`FetchingOpcode`, `Engine.cpp:339`). `halt` may therefore stop `P6502CC` within an instruction, and
the first instruction a step command counts is then the rest of that one; `midway` remembers it.

Of the program, calls, returns and where it goes are kept: `Instructions` is any instruction at an address, with `calls`,
the return addresses on the stack. `mCPURetAdr` is computed anew at each call of `step` (`Engine.cpp:238`) from `GetPC`,
which in `P6502CC` has counted the bytes fetched so far, and the end of a skip is the comparison of two addresses, as in the code
(`Engine.cpp:382`). A program that takes a return address off its stack is one that jumps. The seven kinds of breakpoint are
one mode, and an instruction only says whether it matches. An emulation period is `PeriodSteps` steps.

History variables: `executed`, the instructions since the command began, `hit`, whether the breakpoint was matched, `base` and `from`,
calls and address when the skip began, and `odd`, the ways other than the return by which a command may have come to
where it is: a jump to the address behind the JSR, a recursive call of it, an interrupt served in the JSR's own step, a step that
executed nothing. The properties name those they exclude. `Disturbances` says which of the
idle steps and interrupts happen in a run.

Left out: the windows of logged instructions, the speed control, the matching of each breakpoint
kind; the stack pointer, and with `P6502CC` the program counter, among the registers `rset` changes.

### 2.3 The cycle-accurate 6502: `P6502CC`, `CPUProperties`

The processor is one record and each function of the code maps it to the next one, so that
`MicroCycle` is the composition of the calls `executeInstrMicroCycle` makes: the pins, the latching
of NMI and IRQ, the choice between them at an instruction boundary, and the dispatch on
`mInstrExeState`. `Access` is a call of `step` that makes the access prepared by the previous one and
executes a micro cycle, `StretchClock` one that waits for a slow device, `Input` the movement of a
pin between two calls.

One instruction stands for each shape of micro program: NOP (implied and accumulator), LDI
(immediate), LDA, STA and INC at an absolute address (read, write, both), CLI, SEI, PLP, RTI and
BRK. `pc` is the distance of the program counter from the opcode last fetched, which is what the
saved return address is about; `at` is what the address bus points to. Of the status register I is
kept. What a program has put on its stack is any value.

Left out: the other addressing modes and instructions and the arithmetic, which are in 2.5, and the SO pin. Bound:
`AccessesSeen` caps the history's count of accesses in one instruction at 4; none makes more than 3.

### 2.4 The VIA: `VIA6522`, `VIAProperties`

Again one record: `Cycle` is one phi2 cycle of `advanceUntil` (sampling, shift register, timers,
control lines, levels remembered, IRQ), `ReadByte` and `WriteByte` are the register accesses,
`ResetState` is `reset`. A read first makes a cycle, as in the code; a write does not. `Input` is a
device that moves a line between two cycles. In a *responsive* setup a device may also move lines
within a cycle, when the VIA updates an output: that is the re-entrancy of `updatePort` seen from
here.

A byte has `Base` values and the shift register `Width` bits, so that the whole range of a 16-bit
counter (`Base * Base`) is explored; nothing in the code depends on 256 and 8 beyond the carry from
one byte to the next. IFR, IER, the directions and the levels are sets of names. PA0, PB0, PB6 and
PB7 are kept of the data lines; the others behave as PA0 and PB0 do.

Bound: T2 is decremented in every cycle for ever. Only its two low bytes and its sign are looked at,
so `Wrapped` keeps it between `-Base*Base` and 0. (The code's `int` would overflow after 2^31
cycles.)

`hist` is what the chip's documentation makes of the accesses: cycles until a timer is due, the
levels seen in the last cycle, cycles since a shift began, which access the step was, and what latching has to hold (`held`: port
A in the last cycle with CA1 high; `holding`: since CA1 fell, with latching on, until it rises or latching is turned off).
`IInv` relates it to the registers; it is the inductive invariant of part 4 and checked by
`via_timers`. What `T1OnTime` says of the latches is for setups that do not write T2CL
(`LatchesKept`), since the code stores that byte in the latch of T1.

Left out: what the debugger prints and saves of the state, the division of the clock.

### 2.5 The instructions: `Codec6502`, `P6502`, `P6502CCInstr`, `P6502ICInstr`, `InstrProperties`

The emulator has two 6502 processors. They share the instruction table (`Codec6502`) and the arithmetic
(`P6502`), and each has its own handlers for every addressing mode and instruction:
micro programs in `P6502CCInstr`, whole instructions in `P6502ICInstr`. `InstrProperties` runs both on
the same state: `StepCC` is one call of the first one's `step`, `AdvanceIC` one call of the other's
`advanceInstr`, and then registers, writes, reads of devices and time are compared. Of the reads, *which* device registers are read is
compared, not how often: the two processors do differ in that (part 5).

Each handler is an operator of its own name on the processor's record; those that the code writes
out some twenty times over (`BCCExecHdlr` ... `BVSExecHdlr`, the loads, the indexed modes) share a parameterised one. Bytes
are 0 to 255 and words 0 to 65535; every `% 256` and `% 65536` is one of the code's types or masks.
Memory is what an instruction has written (`ram`) over a fixed content, so that any address can be
read; above `RomStart` it is not writable.

The two are compared where they are meant to agree. Each place where the code makes them differ has a name,
and part 5 says what happens there:

- `MarkedWrongly`: SAX, SLO and SRE, of which the handlers or the table are wrong;
- `ModifiesElsewhere`: an instruction that modifies memory, with an index that crosses a page or on memory that
  cannot be written;
- `StaleOpcodePC`: JSR, BRK or a branch as the first instruction of an interrupt handler, while `mOpcodePC` is
  that of the interrupted instruction;
- `OperandOnStack`: JSR with the high byte of its operand in the stack page, where the return address may
  overwrite it: one processor reads it before the pushes, the other after;
- `ReadAfterShift`: a shift of A, after which only the cycle-accurate processor reads the next byte. It is excluded
  from `SameReads` only, and only where that byte is a device's.

After an instruction of the first, second or fourth kind no other follows (`NextInstruction`). The tests start as
a program does (`IsTest`): B is clear in the status register, since it is only set in copies on the stack.

### 2.6 The SD card: `SDCard`, `SDSystem`, `SDProperties`, `BlockStore`

`processPortUpdate` is one function of the card, from the lines and its record to the next record:
the counting of ones before the card is initialised, the bit that comes in and the bit that goes
out. The two directions have modes of their own and are framed by counters, as in the code. A byte
counts `Base` in an address or a length (256 in the code), so that blocks are short; the bytes
themselves, the commands and the check sums are those of the code.

The driver is not in the repository. `SDSystem` models it from the comments of `SDCard.cpp` on the
sequences MMFS uses: 80 clocks, CMD0, CMD1, CMD16, then reads and writes, polling for each answer
and starting again when none comes. It may deselect the card between commands, pause, leave check
sums unread, or send other commands. The user exchanges the card between two operations,
with the menu: "insert" without a card, "eject" after a successful insertion. `insertCard` also is what the code does when
a card is still inserted (its image is closed first). An image whose file cannot be opened (`InsertUnopened`)
leaves a card that answers, reads as a constant byte and keeps nothing that is written. Since the driver reads whole
tokens, an answer that is left unread is covered only where the driver gives up polling.

`BlockStore` is the abstract specification: requests one at a time, a read answered with the block
last written, a write in effect before its answer. A card that does not work (`works`) answers anything. `IsBlockStore` says that card and driver
implement it. Bound: `MaxPolls` bytes are clocked for each answer.

### 2.7 The serial interface and the tape: `ACIA6850`, `BeebSerialULA`, `TapeRecorder`, `SerialSystem`, `Channel`

Three devices as records and functions, one tick of `advanceUntil` at a time: the ACIA
(`Tick` is receiver, transmitter and interrupt), the serial ULA (`TickULA`: the tones of the input, the
carrier, the tones of the output) and the recorder (`TickTape`, with the pulses of a CSW file as bytes).
Lines that call the other device (RxD, DCD, the clocks) are calls here as well.

`SerialSystem` composes them as the engine does: after each access of the program all three
advance by a batch of ticks, one *after* the other (`Advance`). A program like the operating system's
serves the interrupts: it reads the status, then in another instruction the data, or writes the next byte.
The user's keys are operations of a plan. With a tape, the message is recorded and played back, in
one case after a cue and a rewind; on the line it comes back through a cable while more is sent.

`Channel` is the abstract specification: bytes come out as they went in. `IsChannel` says that the
whole, with its bit cells, rounded pulses and batches, implements it.

The tick rate is 0.2 MHz instead of 2 MHz, so that half cycles are 42 and 83 ticks instead of 417
and 833, and a batch of 2 or 3 ticks is as long as that of a very slow instruction: the errors are relatively
larger than in the emulator. A carrier needs 40 half cycles instead of 2400, still more than
the high half cycles of a byte (36): with fewer the receiver would be started again within a byte.
No time passes between the setting of the clocks and the program's other accesses but that of a batch.
A batch takes at least a tick (`BatchAssumption`).

### 2.8 The schedule: `Schedule`, `ScheduleProperties`

`StartPeriod` and `Advance` are the two halves of the loop of `Engine::run`: the devices of the low rate
first, for a whole period; then, after each step of the processor, those scheduled with it, and
those of the high rate when `Wrapped` sees that its period is over. One device stands for each way a
device keeps its time: a PIA (the time of its last call), the BBC keyboard (ignores early calls), the
speaker (one sample per call), the VIA (cycles of its own clock, one more at each read) and the video ULA
(time computed from the pixels drawn in a line). `int` and `uint64_t` keep their widths (`ToInt`, `ToUnsigned`)
with small ranges. The video ULA computes its time at the end of a half line too (`HalfLine`), and a character that is not found in
the video memory is not drawn and takes the time to the end of the call: `Fetches` says which are found. `ScheduleAssumption`
has every step shorter than the period of the high rate, so that a period skipped altogether is outside the model. Bound: `Horizon`.

## 3. The runs

Twelve runs: ten in which everything holds, and two that each show a disagreement between the code
and what is written about it.

| Run | Shows | Bounds, and why they are enough |
|---|---|---|
| `ports` | `ArbitratedIsAnd`: in the middle of nested updates too, an arbitrated input is the AND of what its sources asked for. `LineIsWiredAnd`: it implements `WiredAndLine`. `LinesSettled`: when no update is in progress, all inputs have what the outputs drive, shifted and inverted too | Three interrupt sources, one of them a keyboard that is moved by a `:P` handler, drives two inputs and is read back, inverted, on the port that selects it; values are shifted both ways. Three sources are needed for one to rise while another still holds the line, with a third bystander. Two slices of one input are in no instance (part 4 has every wiring); every order of the CONNECT lines and of power on is tried |
| `engine_safety` | `RegistersSafe`, `StepExact`, `SkipReturns`, `BreakGenuine` | Both processors; two places, the first with a JSR to either that returns to the second; two levels of calls and interrupts; instructions of up to two cycles, so that there is a cycle within one; steps of up to two, periods of two calls. A step spans two periods, a subroutine calls itself or is interrupted, `halt` falls between two cycles |
| `engine_live` | `StepEnds`, `StopWaitingWorks`, `MenuServed` | Both processors without interrupts and idle steps, one level, steps of one: what waits for what does not depend on more |
| `engine_skip` | violation of `StepsOver`, see part 5 | `P6502CC`, skip and halt |
| `cpu` | `NmiBeforeInstruction`, `IrqBeforeInstruction`, `SavesReturnAddress`, `CyclesCharged`, `WritesExact`, `NeverStuck` | Complete but for the access ratio, which is the BBC Micro's 2 (part 4 has every ratio); all four pins move at any cycle |
| `via_timers` | `T1OnTime`, `PB7Pulse`, and `IInv`: the registers agree with the history, in their ranges | Base 2: counters from 0 to 3, so that a count borrows from its high byte and a low byte is replaced in the middle of one; all four modes of T1, T2 beside it |
| `via_lines` | `FlagNeedsEdge`, `TransitionsDetected`, `LatchedAtEdge`, `ShiftAnswered`, `ShiftOnTime`, `IrqFollowsFlags` | Three setups: control lines in every input mode; latching, in however many cycles the device and the program go on after the edge; shifting with a device that answers; two bits a byte, so that there is a first and a last |
| `instr` | `SameResult`, `SameReads`, `SameTime`: the two processors agree. `DecimalArithmetic`: decimal ADC and SBC against decimal numbers. `Returns`: calls, interrupts and pushes are undone by their counterparts | Every opcode with four register files at the edges (wrapping indices and stack pointers, all flags), operands at page edges and in ROM, two memory contents; five instructions after an interrupt; ADC and SBC in both modes over 40 by 40 numbers. Errors of a handler show at an edge or for any operand |
| `sd_card` | `Answered`: a card that was in its slot answers every command it knows. `IsBlockStore`. `RequestsEnd`: what is asked of a card that stays is done in the end | Two addresses, two blocks that look like a start token and like a command, commands 2 (unknown), 8 (long answer) and 10 (a block), images that cannot be opened. The framing does not depend on more |
| `schedule` | `LowRateInTime`, `InstrInTime` (`ViaInTime` and `VideoInTime`), `HighServed`: no device is further ahead or behind than its rate allows; the speaker makes each sample once | Periods of 9 and 6 ticks, three refresh times, three video modes, a line of four characters, every or every second character found in the video memory, 20 ticks: the two rates coincide, cross and overrun; half lines, changes of the mode in a line and RESET happen |
| `serial` | `IsChannel`, `Delivered`: every byte once, in order, none lost or invented. `NoLostInterrupt` | Two bytes of two values (one with a long run of ones), with and without a pause, two formats, two batch sizes, three plans. The second byte is received in the phase the first one leaves behind; the silence before the carrier needs a long pulse |
| `instr_handler` | violation, see part 5 | the tests with an interrupt and JSR or NOP as the handler's first instruction |

Setups: a VIA that is used for everything at once has far too many states. Each setup is one use of
the chip with all the accesses that concern it, in any order and at any time. The theorems of part
4 are for every setup at once.

Deadlock is checked but where the system really ends: the window may be closed (`engine_safety`), the only commands are skip and halt
(`engine_skip`), the tests are over (`instr`, `instr_handler`), the plan is done (`serial`), the card is out and no request pending (`sd_card`),
the horizon is reached (`schedule`).

### Fairness

- **Run control**: both threads are scheduled (weak fairness of their steps) and the timer event
  that drives the menu comes. `std::mutex` promises no order, but the engine thread gives it up once
  a step of the processor and sleeps without it once a period, so that a thread that tries again and again
  gets it some time: strong fairness of the steps that take it. `PollGivesUp` has its own, as
  otherwise "Stop waiting" with a recurring breakpoint could look for the mutex only at moments when
  the breakpoint has just been matched. Nothing is assumed of the user.
- **6502**: the engine calls `step` again and again (weak fairness of `Step`). Nothing is assumed of
  the pins; `NeverStuck` says what happens if RESET and RDY stay high from some time on.
- **SD card**: the driver, which never waits without clocking the card, goes on while a request is
  pending. Nothing is assumed of the user and of new requests; `RequestsEnd` excludes a card that is out.
- **Port network, serial, schedule, instructions**: none. All that is promised there is a matter of time or of results,
  and is stated as safety properties at given times.
- **VIA**: none. "In time" is a matter of cycles, not of fairness: `T1OnTime` and `ShiftOnTime` are
  safety properties.

## 4. The proofs

TLC checks instances; these theorems hold for every value of the constants. The assumptions on
constants named in the last column are those the modules declare (`PortAssumption`, `EngineAssumption` and so
on); TLC evaluates them in the runs.

| Theorem | States | Assumptions |
|---|---|---|
| `PortProofs!TypeCorrect` | the wiring stays well typed, whatever the ports, masks and CONNECT lines | those of `PortNetwork` on its constants |
| `PortProofs!ArbitrationCorrect` | `[]ArbitratedIsAnd` | and `UniqueRoutes` |
| `PortProofs!CallsCorrect` | `[]IInv`: flags, requests and inputs agree with the outputs but for what the calls in progress have yet to deliver | `UniqueRoutes`, `RankedCalls`, `SharedBitsArbitrated` |
| `PortProofs!SettledCorrect` | `[]LinesSettled`: between updates every input has what the outputs drive | the same; not met by the clock of the card in the BBC map (2.1) |
| `PortProofs!LineCorrect` | `LineIsWiredAnd`: an arbitrated input implements `WiredAndLine` | the same, and that the line is an arbitrated input (`LineArbitrated`) |
| `EngineProofs!TypeCorrect` | the run state, both program counters and the step counter stay in their ranges | `EngineAssumption` |
| `EngineProofs!RegistersCorrect` | `[]RegistersSafe`: registers change between two calls of `step` only, and within an instruction of `P6502CC` only where `halt` stopped it | `EngineAssumption` |
| `EngineProofs!StepCorrect` | `[]StepExact`, with both processors | `EngineAssumption` |
| `EngineProofs!BreakCorrect` | `[]BreakGenuine` | `EngineAssumption` |
| `EngineProofs!SkipCorrect` | `[]SkipReturns`: of `P6502IC` only; of `P6502CC` it is false (part 5). A jump to the address behind the JSR and a recursive call are named in the property, not excluded from the model | `EngineAssumption` |
| `CPUProofs!MachineConsistent` | `[]IInv`: execution state, counters, program counter, bus, requests and writes agree | `CPUAssumption` |
| `CPUProofs!NmiInTime`, `IrqInTime` | `NmiBeforeInstruction`, `IrqBeforeInstruction` | `CPUAssumption` |
| `CPUProofs!ReturnAddressSaved` | `SavesReturnAddress` | `CPUAssumption` |
| `CPUProofs!TimeCharged`, `WritesMadeOnce` | `CyclesCharged`, `WritesExact` | `CPUAssumption` |
| `VIAProofs!TypeCorrect` | the registers stay well typed and the counters of timers and shifts in their ranges | `VIAAssumption` |
| `VIAProofs!IrqCorrect` | `[]IrqFollowsFlags` | `VIAAssumption` |
| `VIAProofs!HistoryKept` | `[]IInv`: the registers agree with what the documentation makes of the accesses | `VIAAssumption` |
| `VIAProofs!PulseExact`, `T1Exact` | `[]PB7Pulse`, `T1OnTime` | `VIAAssumption` |
| `VIAProofs!EdgesNeeded`, `EdgesSeen` | `FlagNeedsEdge`, `TransitionsDetected` | `VIAAssumption` |
| `VIAProofs!PortLatched` | `[]LatchedAtEdge`: port A is what it was before CA1 fell, until CA1 rises | `VIAAssumption` |
| `VIAProofs!BitAnswered`, `ByteOnTime` | `ShiftAnswered`, `ShiftOnTime` | `VIAAssumption` |
| `InstrProofs!Invariance` | `[]IInv` of `InstrProofs`: what the cycle-accurate 6502 still has to do leads to what the other one leaves at once | `InstrAssumption`: opcodes of the table, registers and operands that are bytes, B clear |
| `InstrProofs!ResultsAgree`, `ReadsAgree`, `TimesAgree` | `[]SameResult`, `[]SameReads` (the set of device registers), `[]SameTime`: for every opcode, all registers, operands, requests and contents of memory, and any number of instructions | `InstrAssumption` |
| `InstrProofs!DecimalsRight` | `[]DecimalArithmetic`: ADC and SBC of all decimal numbers, in both processors | `InstrAssumption` |
| `InstrProofs!SavedIsRestored` | `[]Returns`: what a call, BRK, an interrupt or a push saved is restored, at every stack pointer | `InstrAssumption` |
| `SerialProofs!NothingLost` | `[]NoLostInterrupt` | `BatchAssumption` |
| `ScheduleProofs!HighRate` | `[]HighServed`: the devices of the high rate are served once per period | `ScheduleAssumption`: no step is as long as that period |
| `ScheduleProofs!LowRate` | `[]LowRateInTime` | and `NoOverflow`: times below the horizon and a refresh fit an `int` |
| `ScheduleProofs!InTime` | `[]InstrInTime`: VIA and video circuits reach the time of the processor in every step; the VIA is a cycle ahead at most, the picture less than a line | `ViaClocks`; `VideoModes`: one mode is the slowest, and the sync is in the line; `PictureFits`: a line more than the horizon fits the `int` times. The run's constants satisfy all three |
| `ScheduleProofs!ViaRate` | `[]ViaInTime`, the part of `InstrInTime` about the VIA | and `ViaClocks`: the VIA has the clock of the processor or half of it |

**The arbitration.** `ArbitratedIsAnd` is not inductive: nothing in it says that a source that has
not delivered yet asks for nothing, nor that the arbitration flag no longer changes once values are
delivered. `RequestsInv` adds that each connection is made once, that nothing is delivered while the
wiring is read, that what a silent source asks for is "all high", and that only connected sources
have delivered. The step that matters is `Deliver` (`DeliverKeepsAnd`): the code compares the present
value of the input with one in which only this source's bits have been replaced, and returns early
if they agree. If they agree, this source's request equals the arbitrated value on its bits; as
that value was the AND of all requests before, replacing the request leaves the AND as it was.
`UniqueRoutes` is needed because the search of `updateDstPortValue` would record the requests of two
connections between the same ports in the first one (`FirstRefIsOwn`).

**The nested updates.** `LinesSettled` speaks of the states without an update in progress only, and is
of no use for a step. `IInv` of `PortProperties` says what holds in the middle of them: each connection has
delivered what its source drives (`Seen`), unless its source has not been forced out at power on or a
call in progress has yet to come to it (`Pending`). Two things could break that. An update nested in another one could
change the value the outer call is still delivering: `CallsInv` excludes it by the ranks, which rise from
each call to the one it makes, so that no port is being updated twice and every call delivers the
present value of its port. And a delivery could overwrite a bit that another source has
delivered, which `SharedBitsArbitrated` and the arbitration exclude: without arbitration the bits of two connections are
apart, with it the input is computed from all requests. `CallOpens`, `CallMoves` and
`CallEnds` are the three ways the stack moves. That the flags are right in the end although each is computed from
the connections made up to then is `FlagsComplete`.

**The refinement.** `LineCorrect` maps `dstVal` to the requests and `valIn` to the level of the line. A
delivery to the line is one step of `WiredAndLine` (`DeliveryPresents`), also when the code returns early: then
the input is what it was, and that is the AND of the new requests (`LineIsAnd`). All else leaves the line as it is
(`LineHeld`). The line is powered when the system starts to run: by then each source has been forced
out (`StartPowersUp`).

**The run control.** None of the three properties is inductive, since the debugger thread reads and
writes `mState` without the mutex. `IInv` of `EngineProofs` adds why that does no harm. `MutexInv` says in which
steps the engine thread holds the mutex. `RunningInv` says that what the engine thread has found
under the mutex stays true: the only writes without it put the processor into a running state, so that
a processor found running is still running when its instruction is executed. In the other
direction, a processor `rset` has found stopped is not started by anything but the shutdown, which
executes nothing. `StepInv` counts: the instructions executed and those left (`mSteps`) add up to the
argument, one more being in flight between `Execute` and the write of the new state (`Uncounted`). `BreakInv`
follows a match from the instruction through `eWrite` and `mState` to `triggered`. Each of the 37 actions
is a step of `ControlKept`, and `Execute` has one for each of what a call of `step` can be: only
`EndsInstruction` counts, and only with `cycle` 0 does `checkForBreakPoint` look. The proofs cover both processors and all lengths of
the period and of instructions.

`SkipReturns` needs to know what is on the stack of calls. `Inside` says that the return address the command waits for is
still there, on top of the calls it began with, with any number of later ones above of which none is the same
address. `SkipInv` follows it: from the JSR (`STEP_OVER`) to the comparison in `checkForBreakPoint` (`WAIT_ON_RET`), which takes place
between the instruction and the write of the new state. As long as nothing odd has happened the program is `Within` the subroutine, and not at the
address compared; an instruction pushes inside (`PushInside`), pops inside, or pops just the call the command waits for
(`PopInside`), and only then is it `Returned`. The comparison sees an address only: where a jump or a recursive call has led to it, which
`Oddities` records, nothing is said of the calls.

**The 6502.** The properties are about pairs of states, "the instruction ends in this cycle", and
none says where in an instruction the CPU is. `MicroState` does: for each execution state it gives the values
the two cycle counters, the program counter and the bus may have, as a table of the micro programs.
`PendingInv` is about the interrupt being served, `OwedInv` that an edge of NMI the CPU could see is
pending or being served, `WritesInv` that the writes counted by the history are those the micro program has made by
then. Each handler has a lemma `... Moves` that says how it takes such a state to the next (`Moved`): where the
end of an instruction has charged the cycles of the table and made all its writes. `Considers` is the
choice between RESET, NMI, IRQ and the next opcode, made before. `AccessCases` puts the two together, with RESET and
RDY; it is the only lemma that knows of the order of the calls in `executeInstrMicroCycle`, and the
five properties follow from it and the invariant.

**The instructions.** The run compares the two processors for chosen registers and operands; the theorems are for all, and
`Tests`, `Follow` and `Length` are arbitrary. The comparison speaks of the end of an instruction only, so `IInv`
of `InstrProofs` is about the cycles before: `Joint` says that the cycle-accurate processor is on a *path*, micro cycles
that lead (`Leads`) to where the functions of the other processor lead from its state. `Executing` gives the three
places it can be in: at an opcode (`Start`), in the sequence of an interrupt (`Within`, so many cycles before
its handler), or after the opcode (`Runs`). `History` and `Recorded` relate what is executed to the test, which is what
`DecimalArithmetic` and `Returns` speak of; `Opens` says that `mOpcodePC` is the address of the opcode. Where the two
are known to differ for good `Joint` promises nothing, as the properties do; `Elsewhere` covers the instructions that modify
memory.

`InstrStepProofs` shows, for each addressing mode, the path through its micro program
(`ZeroPageMode` ... `PostIndYMode`) and what the other processor's function computes
(`ZeroPageIndexedResult` ... `PostIndYResult`): the same address with the same wraps, the same operand, the same reads of devices.
`Joins` brings them together; `ModeReadied` is the result for all modes, with the cycle of a crossed page
charged by both or by neither. Then the instructions, one lemma `... Executed` for each kind of micro program (loads and arithmetic
at once, branches, stores, pushes, pulls, RTS, RTI; in `InstrProofs` BRK, modified operands and JSR), from which
`EveryExecuted` follows. `SequenceServes` is the sequence of an interrupt. Facts that depend on the table are
proved once per kind of opcode, so that no proof goes through all of them with an arithmetic goal.

The decimal lemmas are about the instruction-accurate processor alone, as the other one agrees: `SumOfDigits` and
`DifferenceOfDigits` say that the half carry and the correction by 6 and 60h give the decimal result and its carry. For the stack,
`PushOnTop` and `AddressPushed` say what is at which address after a push, wrapped in its page; `Retains` that the instruction
between push and pull changes none of it (reads that an opcode makes included), and `RestoresBits` that a status register
that went through the stack comes back bit by bit, with B clear.

**The VIA.** `ChipInv` of `VIAProofs` is the type invariant, with `IrqFollowsFlags` and the fact that the history says
of each step whether it was a reset. Each function of the chip has a lemma that says that it keeps
the type; the arithmetic is in `WordRange` and `LowByteRange` (a byte replaced in a 16-bit count, which
may be -1, leaves a 16-bit count). `CycleType`, `ReadByteType` and `WrittenType` compose them in the
order of the calls; each ends in `UpdateIRQ`, the only function that moves the output, after the
last change of the flags.

The second half of `VIAProofs` is about time. `IInv` adds to the types what relates the registers to the history: the levels
that edges are detected against are those of the last cycle (`SeenInv`), what is latched (`LatchInv`), that the shift clock has
no edge between two cycles (`PulseInv`), the cycles left of a countdown in terms of counter and `first` (`T1Inv`; `PB7Inv` for
the pulse), and that every second cycle has shifted a bit (`ShiftInv`). `T1Inv` holds where no T2CL is written, `SeenInv` without a
responsive device; both exceptions are the code's (part 5). The cycle is taken apart into its stages
(`Stages`), each of which `Moves` only its own part of the record: flags only rise, levels and counters of the others
are kept. Then there is one lemma per concern on the whole cycle (`CycleLines`, `CycleT1`, `CycleShift`) and one per register on the
accesses (`ReadKeeps`, `WriteT1CHStarts`, `WrittenKeeps`). `HistAdvances` and `HistWrites` do the same for
the history, and `CycleInv` and `WriteInv` bring both sides together. The action properties are read off from the
same lemmas.

**The ACIA's interrupt.** `NoLostInterrupt` is almost inductive: `Good` is it with the names of the phases. `updateIRQ` computes the request
anew, but the code calls it only when a register differs from what it was; `UpdatedIsGood` shows that
nothing is missed by that, and each function of the chip, of the ULA that calls it and of the recorder has a lemma that
says it keeps `Good`. Time advances in batches, by recursive functions. The library's induction theorems cannot be used (their
parameter is an operator), so `InductionOnSet` proves induction for the members of a *set*, from
the theorem that a set of n numbers does not fit into n - 1: a number missing in the set would have a missing
predecessor. With it the function a batch defines is shown to exist, and then what it
keeps.

**The schedule.** `HighServed` says that the samples made are the quotient of the time by the period,
though the code only compares two remainders. `Wrapping` is the arithmetic: a step shorter than the
period raises the quotient by one if the remainder becomes smaller and leaves it otherwise.
`StepsAreShort` shows from the assumption that each of the three kinds of step is so short,
stretched accesses included. `LowInv` strengthens `LowRateInTime` by the end of the period: the PIA has
that time, the processor is at most a step beyond it, and the keyboard, if it has skipped the last
call, is due within its refresh time of it. `NoOverflow` is a real restriction, see part 5.

`ViaInTime` is not inductive: a VIA that is a cycle ahead would be two cycles ahead after another read. `Ahead` says when it can be
ahead at all. With the instruction-accurate processor the end of each instruction, which is stretched by the reads it made, catches up
with them (`InstructionAhead`). With the cycle-accurate one a read is the last of the cycles it is stretched
by, and while such cycles pass the VIA is at most at the end of the cycle of its clock that the processor is
in (`CycleAhead`). The reads of an instruction are a recursive function, followed by induction as above (`ReadsTakeCycles`); the end
of the VIA's cycle that a time is in is the next even number (`Up`). A slower VIA would get further ahead of the
cycle-accurate processor, and there is none in the machines configured.

**The picture.** `VideoUntil` draws characters until the time is reached, and that it gets there has to be proved first: were a
character to take no time, or the sum of a line to wrap, it would draw for ever. The time of a character is that of all pixels
of its line at the present rate, rounded, in the width of the integers, and a change of the mode in the middle of a line
counts the earlier ones at the new rate. `Drawn` bounds the pixels by those of the slowest mode; with it a line takes at most the
longest time of a line (`LongestIs`, `Draws`), which `PictureFits` keeps in the range of an `int` (`TimeFits`), so that nothing
wraps. `InLine` is why no more than a line is ever drawn between two synchronisations, the half line between two fields, after which the
time is computed anew, included.
`Timed` says that each character takes a tick at least, and `Reaches` follows the recursive function by induction to the first state
that has reached the time. `PictureInv` is `VideoInTime` with these facts.

**Only model-checked** are:

- all liveness (`StepEnds`, `StopWaitingWorks`, `MenuServed`, `NeverStuck`, `RequestsEnd`): the prover has neither
  fairness nor ENABLED;
- `IsChannel` and `Delivered`: that a byte survives tones, samples and batches is a matter of the
  numbers (42 and 83 ticks, 40 half cycles), not of an invariant that is simpler than the devices;
- `Answered` and `IsBlockStore`: the SD card works on bits (`Bitwise`), which the provers do not have.

Not proved at all is that the two processors agree where they are excluded from the comparison: they do not.

## 5. Where the code and its documents disagree

Two disagreements are shown by a run each.

- `engine_skip`: with `P6502CC` the skip command does not notice the return. `mCPURetAdr` is computed before each clock cycle
  (`Engine.cpp:238`), when the JSR at J has already counted its bytes, so that the address waited for is J + 6; and at the opcode
  after the return `getPC()` is J + 4. The command ends when the program happens to fetch an opcode at J + 5, or never.
- `instr_handler`: in the instruction-accurate processor `mOpcodePC` is assigned at the end of an
  instruction only, so that JSR, BRK and branches that are the first instruction of an interrupt handler
  count from the interrupted instruction: a subroutine called there returns into the interrupted program.

These have been seen as counterexamples of properties that the code does not have and that are no longer
kept as runs:

- The user stops a wait while the engine thread is between the read and the
  write of `mState` in `checkForBreakPoint`. Its write of `ENG_BRK_DET` (`Engine.cpp:352`) then comes after the
  debugger thread's `ENG_RUN` (`Engine.cpp:541`, without the mutex); the processor stands and nobody waits for it.
- The window is closed while a break command starts. `exit` clears the breakpoint,
  the debugger thread sets it, and `cont` on the engine thread waits for a breakpoint that only
  the engine thread could reach (`Debugger.cpp:995`).
- The wait for the return compares the program counter only (`Engine.cpp:382`), so that a skip over a subroutine that calls
  itself from the skipped JSR ends in the inner call; `docs/Debugger.md:57` says that it "will step over a JSR instruction".
- When the file of a card image cannot be opened for reading and writing, `insertCard` reports the failure but leaves
  `mCardImage` set (`SDCard.cpp:59`), so that the card counts as inserted, answers, and accepts blocks ("data accepted,
  neither CRC nor write errors", `1002`) that are written nowhere. With the menu the user cannot get rid of it: "insert" does nothing while
  a card is inserted, and "eject" has not been enabled (`GUI.cpp:170`, `181`).
- An IRQ that arrives in the first cycles of an NMI sequence is remembered, as I is not
  yet set, and taken at the end of the sequence although I is set then (`P6502CC.cpp:151`; `1789` says otherwise).
- The operand of an absolute read is read twice, since the "direct transition" takes
  effect in the next step only (`P6502CC.cpp:191`, `P6502CC.h:157`).
- A write of T2CH does not load the counter of T2 (`VIA6522.cpp:1004`; `241` says "same applies to timer 2").
- SD card: a command that arrives while a data token is being sent (the computer was reset during a
  read, the card was ejected) leaves `mSentBits` and `mSentBytes` as they are (`SDCard.cpp:379`), and the card answers
  nothing any more, CMD0 included, of which `443` says that it "Resets the SD Memory Card". `SDSystem` therefore ejects cards
  between operations only.
- Schedule: when the time passes 2^31 ticks (18 minutes at 2 MHz) the `int` times of the video
  circuits (`BeebVideoULA.h:102`, `VDU6847.h:198`) and of the keyboards (`BeebKeyboard.cpp:120`, `AtomKeyboardDevice.cpp:91`) overflow:
  the picture is not drawn and the keys are not read any more, although `Engine.cpp:258` says that each device
  advances "so that it matches the time of the microprocessor".

Others were met while translating; the models do what the code does:

- Port network: the arbitration flag is set if *all* pure outputs share a bit
  (`ConnectionManager.cpp:263`), not if two do (`Device.h:103`); a line between two of three sources
  alone is not arbitrated. Handlers are triggered at power on (`Device.cpp:366`), which `Device.h:234` excludes. Of
  "CONNECT:PI" only the `I` counts (`DeviceManager.cpp:718`).
- Run control: while the processor is halted within a period the engine thread spins (`Engine.cpp:230`) and the menu is not served:
  `MenuServed` is about a running processor only. A call of `step` that executes nothing (RESET low, RDY low, a stretched cycle) at an opcode fetch
  is counted as an instruction by `step n`. An interrupt that `P6502IC` serves in the step of a skip is not seen by `mCPURetAdr`: the
  command ends behind the interrupted instruction, not behind the JSR of the handler. `halt` stops `P6502CC` within
  an instruction, and `rset` then changes registers there. A break on a read *or* write of a value
  compares reads with the value of an earlier command (`Debugger.cpp:675`).
- VIA: T2CL ends up in the latch of T1 (`VIA6522.cpp:1001`), which is why no setup uses both timers
  at once. A read of IRB leaves the flags of CB1 and CB2 (`578`); with latching on, port A is latched in every cycle in which CA1 is high, whatever its active edge and
  whether the last byte has been read (`478`); shifting at the rate of T2 never shifts (`499`);
  the first bit is shifted in without an edge of CB1; CB1 stays an output after the mode that drove it
  (`154`); an edge that the VIA's own outputs cause within a cycle is swallowed (`494`), so that the properties
  of edges exclude responsive setups and do not catch this; CA2 and CB2 are never driven low in the handshake modes (`372`).
- 6502: BRK does not set I (`P6502CC.cpp:1788`). A RESET in the middle of an interrupt sequence leaves
  `mInterruptState` (`388`), without effect: its own request restarts the sequence and clears the state first. An NMI edge during a halted read is forgotten (`133`): `hist.owed` starts only
  when RDY is high.
- The instructions: SAX writes A in the instruction-accurate processor (`P6502IC.cpp:2147`); SLO and SRE are
  marked as not reading memory; its modifying instructions with an index read the wrong page when they
  cross one (`2553`), and stop half way on memory that cannot be written; ANC never sets C, ALR and ARR
  take their flags from the value before the shift, DCP compares with the value before the decrement. With RDY
  low it returns without advancing the time (`174`), although a comment says "time still advances".
- SD card: CMD16 and CMD24 take the second byte of the argument for its lowest
  (`SDCard.cpp:571`, `646`); deselecting the card does not reset its framing; the first byte of R7 is `08` instead
  of R1 (`121`); failures are answered with R1 whatever the command's format; a read beyond the image sets
  the stream's fail bit for good.
- ACIA: a master reset clears only the CTS bit, although its comment says that it clears all the others (`ACIA6850.cpp:102`),
  and leaves the IRQ output. It stops the receiver until DCD *changes* to
  active (`108`, `450`): on the RS423 line, where DCD is always active, a reset after the mode has been selected leaves it deaf, so that
  the plan of the line resets first. The CTS bit is inverted: after CTS has gone up and down no TDRE is
  set any more. The parity bit is compared after it has been counted itself, which flags correct words; a framing error sets PE;
  OVRN is never set; words of 7 bits are received shifted by one (the formats with 7 bits are in no
  run); a byte written while another one is sent is never sent.
- Serial ULA and tape: a carrier that is present when the mode goes to serial and back is
  not detected again; `updatePort(mACIA_DATA_IN, 1)` (`BeebSerialULA.cpp:244`) takes a value for a port and sets RxD; the
  recorder stands still while a pulse is too short for a sample (`TapeRecorder.cpp:38`).
- Video: `LineTime` divides by twice the pixel rate although the pixels drawn are already those of the wide pixel
  (`BeebVideoULA.cpp:462`, `673`), so that modes 2 and 5 run at half speed; modes 0 and 3 are right only
  because a character takes at least one tick; a change of the mode within a line rescales the pixels already drawn.

## 6. What is not modelled, and the plan

Every component of part 1 is in `PROJECT.json`; those without a module are "not_modelled", with the
reason or "planned". Not planned: the GUI, the display and the values of the samples (calls of a library),
the disassembler and the address tables (no state), the command-line programs, the vendored zlib
example, and the pixels of the video circuits.

Within the modelled components these are left out: analogue ports; logging and what the debugger prints; the
speed control against the host's clock; PAUSE, UEF files and the Atom's CUTS interface; CTS after power on; the
SD card's unreachable application commands; the SO pin.

The next modules, the most important first:

1. `KeyboardScan`: `PIA8255`, `Latch74LS259` and the keyboards, on top of `PortNetwork`'s rules of
   nesting.
2. `MemoryMap`: the segment tree against the set of segments (bounded inputs), the proxy and its
   chip selects.
3. `CRTC6845` and the video timing, `ADC7002`, `SN76489`'s registers, the windows of logged instructions.
4. `InterruptAcceptance`: what a 6502 promises at an instruction boundary, as the abstract
   specification of `P6502CC` and of a model of `P6502IC`'s interrupts.

What would be worth proving next: the type correctness of the serial devices and the SD card, for the latter after the bits
of its bytes have been taken out of the module that frames them; that `P6502CC`, which has one instruction for each shape of
micro program, is an abstraction of `P6502CCInstr`; and, with `KeyboardScan`, the ranks of nested updates for the keyboard's
row and column ports, on which `PortProofs!SettledCorrect` rests.
