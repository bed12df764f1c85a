---------------------------- MODULE MCShadowPoll ----------------------------
EXTENDS ShadowPoll

\* Two bars a session: the first is a signal, the second closes the session.
MCBars == {1, 2}
MCSignal == {1}
MCClosing == {2}
=============================================================================
