---------------------------- MODULE MCEntryCycle ----------------------------
(* Small instances of EntryCycle.                                          *)
EXTENDS EntryCycle, TLC

CONSTANTS A, B

MCTwo        == {1, 2}
MCSymbols    == {A, B}
MCWeightTwo  == [s \in MCSymbols |-> 1]
MCNone       == {}
=============================================================================
