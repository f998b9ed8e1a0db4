----------------------------- MODULE MCSchedule -----------------------------
(***************************************************************************)
(* Instances of the schedule: a period of the low rate is one and a half   *)
(* of the high rate's, lines have four characters, and the video modes are *)
(* those of half a tick, one tick and two ticks per character.  All        *)
(* characters of a call, or every second one, are found in the memory.     *)
(***************************************************************************)
EXTENDS ScheduleProperties

AllOrEverySecond == {0 .. Horizon, {n \in 0 .. Horizon : n % 2 = 0}}
FastAndSlow == {<<8, 16>>, <<8, 8>>, <<8, 4>>}

=============================================================================
