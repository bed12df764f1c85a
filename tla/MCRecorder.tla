------------------------------ MODULE MCRecorder ------------------------------
(* Instances of Recorder: two sessions, the second one cut by the clock. *)
EXTENDS Recorder
MCQuoted == {0, 1, 4}
MCBoth == {"catch_up", "forward_only"}
MCCatchUp == {"catch_up"}
===============================================================================
