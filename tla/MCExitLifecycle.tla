-------------------------- MODULE MCExitLifecycle --------------------------
(* Instances of ExitLifecycle for TLC.                                     *)
EXTENDS ExitLifecycle
============================================================================
