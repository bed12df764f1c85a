-------------------------- MODULE MCResearchNight --------------------------
EXTENDS ResearchNight

\* One slot of the factory.
OneSlot == {0}
=============================================================================
