------------------------------ MODULE MCEngine ------------------------------
(***************************************************************************)
(* Instances of the run control: both processors; two places, a JSR at the *)
(* first returning to the second, so that calls and interrupts may come    *)
(* from either; periods of two steps, so that a command crosses periods.   *)
(***************************************************************************)
EXTENDS EngineProperties

BothProcessors == {"IC", "CC"}
OneCall        == {0, 3}
AllCommands    == {"step", "skip", "cont", "break", "clr", "halt", "rset", "exit"}

=============================================================================
