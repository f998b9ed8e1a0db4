---------------------------- MODULE TapeRecorder ----------------------------
(***************************************************************************)
(* The tape recorder (shared/TapeRecorder.cpp) and the pulses of its files *)
(* (writePulse and readPulse of shared/CSWCodec.cpp): levels that change   *)
(* become lengths in samples, and these become levels again.  The recorder *)
(* is a record; a file is the sequence of its bytes.                       *)
(***************************************************************************)
EXTENDS Integers, Sequences

CONSTANTS
  TapeTickRate,  \* ticks per second
  SampleRate     \* samples per second

ASSUME TapeAssumption == TapeTickRate \in Nat \ {0} /\ SampleRate \in Nat \ {0}

RoundTape(n, d) == (2 * n + d) \div (2 * d)
Samples(ticks) == RoundTape(ticks * SampleRate, TapeTickRate)
Ticks(samples) == RoundTape(samples * TapeTickRate, SampleRate)

-----------------------------------------------------------------------------
(* The codec.                                                              *)

\* A length below 256 is a byte, a longer one a zero and four bytes.
Pulse(n) ==
  IF n <= 255 THEN <<n>>
  ELSE <<0, n % 256, (n \div 256) % 256, (n \div 65536) % 256, (n \div 16777216) % 256>>

\* The pulse at a place of the file: its length and where the next one is, or none.
EndOfTape == [len |-> 0, next |-> 0]
PulseAt(file, i) ==
  CASE i <= Len(file) /\ file[i] # 0 -> [len |-> file[i], next |-> i + 1]
    [] i + 4 <= Len(file) /\ file[i] = 0 ->
         [len |-> file[i + 1] + 256 * file[i + 2] + 65536 * file[i + 3] + 16777216 * file[i + 4],
          next |-> i + 5]
    [] OTHER -> EndOfTape

-----------------------------------------------------------------------------
(* The keys of the recorder.                                               *)

startSaveFile(t) == [t EXCEPT !.saving = TRUE, !.half = 0, !.file = <<>>]

record(t) == [t EXCEPT !.recording = TRUE]

\* At the end of a recording the last pulse is written, unless it is too short for a
\* sample.
stop(t) ==
  LET n == Samples(t.half)
  IN  CASE t.loading -> [t EXCEPT !.loading = FALSE, !.playing = FALSE, !.casIn = 0]
        [] ~t.loading /\ t.saving ->
             [t EXCEPT !.saving = FALSE, !.recording = FALSE,
                       !.file = IF t.recording /\ n > 0 THEN @ \o Pulse(n) ELSE @]
        [] OTHER -> t

startLoadFile(t) == [t EXCEPT !.loading = TRUE, !.playing = FALSE, !.index = 1, !.casIn = 0]

play(t) == [t EXCEPT !.playing = TRUE, !.starting = TRUE]

\* At the end of the tape, too, nothing is loaded any more.
rewind(t) == IF t.loading THEN [t EXCEPT !.playing = FALSE, !.index = 1] ELSE t

-----------------------------------------------------------------------------
(* Time.                                                                   *)

\* A change of the input ends a pulse.  One that is too short for a sample is refused, and
\* the recorder stands still until the input changes again.
Refused(t, casOut) == casOut # t.casOut /\ t.saving /\ t.recording /\ Samples(t.half) = 0

Write(t, casOut) ==
  IF casOut = t.casOut THEN t
  ELSE [t EXCEPT !.half = 0,
                 !.file = IF t.saving /\ t.recording THEN @ \o Pulse(Samples(t.half)) ELSE @]

\* The output changes at the end of each pulse, and at the start.
Read(t) ==
  LET due == t.starting \/ t.ticks - t.from = t.len
      p   == PulseAt(t.file, t.index)
  IN  CASE ~due -> t
        [] due /\ p = EndOfTape -> [t EXCEPT !.starting = FALSE, !.loading = FALSE, !.casIn = 0]
        [] due /\ p # EndOfTape -> [t EXCEPT !.starting = FALSE, !.casIn = 1 - @, !.from = t.ticks,
                                            !.len = Ticks(p.len), !.index = p.next]

TickTape(t, casOut) ==
  IF Refused(t, casOut) THEN t
  ELSE LET w == Write(t, casOut)
           r == IF w.loading /\ w.playing THEN Read(w) ELSE w
       IN  [r EXCEPT !.casOut = casOut, !.half = @ + 1, !.ticks = @ + 1]

advanceUntil(t, now, casOut) ==
  LET after[n \in 0 .. now - t.ticks] == IF n = 0 THEN t ELSE TickTape(after[n - 1], casOut)
  IN  IF t.saving \/ t.loading THEN after[now - t.ticks] ELSE [t EXCEPT !.ticks = now]

Unloaded ==
  [saving |-> FALSE, loading |-> FALSE, recording |-> FALSE, playing |-> FALSE, starting |-> FALSE,
   file |-> <<>>, index |-> 1, casIn |-> 0, casOut |-> 0, half |-> 0, from |-> 0, len |-> 0, ticks |-> 0]

=============================================================================
