-------------------------- MODULE MCStopReplacement --------------------------
\* Values for TLC: a risk of two ticks, break-even at one risk, a trail of one
\* or two ticks, and bars that tighten, touch either stop or reach the target.
EXTENDS StopReplacement

MCRules == {[trigger |-> 6, trail |-> 0], [trigger |-> 0, trail |-> 2], [trigger |-> 6, trail |-> 1]}
MCBars == {[low |-> 5, high |-> 6, close |-> 5], [low |-> 5, high |-> 6, close |-> 6],
           [low |-> 3, high |-> 7, close |-> 7], [low |-> 4, high |-> 6, close |-> 5],
           [low |-> 6, high |-> 8, close |-> 7]}
=============================================================================
