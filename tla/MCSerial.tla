------------------------------ MODULE MCSerial ------------------------------
(***************************************************************************)
(* Instances of the serial interface.                                      *)
(***************************************************************************)
EXTENDS SerialProperties

\* The tape is played back from its start, or once more from the start after a cue.
Saving == <<"record", "select", "reset", "open", "transmit", "finish", "stop", "reset", "listen", "load">>
TapePlan == Saving \o <<"play", "played", "end">>
RewoundPlan == Saving \o <<"play", "rewind", "play", "played", "end">>
LinePlan == <<"reset", "select", "open", "transmit", "finish", "end">>

AllPlans == {TapePlan, RewoundPlan, LinePlan}

=============================================================================
