-------------------------- MODULE MCEdgeLifecycle --------------------------
(* Instances of EdgeLifecycle: two candidates, the better one with the
   greater number, one research process and the trader.                    *)
EXTENDS EdgeLifecycle, TLC

CONSTANTS research

MCPair        == {1, 2}
MCRunBound    == [c \in {1, 2} |-> c + 1]
MCResearchers == {research}
============================================================================
