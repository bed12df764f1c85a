---------------------------- MODULE MCPaperTrial ----------------------------
(* Small instances of PaperTrial.                                          *)
EXTENDS PaperTrial, TLC

CONSTANTS Old, New

MCIncumbents == {Old, New}
MCParents    == {1, 2}
MCParent     == {1}
=============================================================================
