-------------------------- MODULE MCRuntimeControl --------------------------
(* Small instances of RuntimeControl: one trader and the next one, or the
   orphan of a dead supervisor and the trader of its successor.            *)
EXTENDS RuntimeControl, TLC

CONSTANTS tr1, tr2

MCTraders == {tr1, tr2}
MCTrader  == {tr1}
=============================================================================
