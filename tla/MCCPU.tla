------------------------------- MODULE MCCPU -------------------------------
(***************************************************************************)
(* Instances of the CPU: every input pin moves at any cycle, and a slow    *)
(* device takes two cycles an access (the 1 MHz devices of the BBC Micro). *)
(***************************************************************************)
EXTENDS CPUProperties

=============================================================================
