---------------------------- MODULE MCEdgeOutbox ----------------------------
(* Small instances of EdgeOutbox: three trades, of which one is refused by
   the ledger and one is a loser that alone degrades the edge.             *)
EXTENDS EdgeOutbox, TLC

CONSTANTS t1, t2, t3

MCTrades  == {t1, t2, t3}
MCRefused == {t3}
MCLosers  == {t1, t3}
=============================================================================
