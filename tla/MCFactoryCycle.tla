--------------------------- MODULE MCFactoryCycle ---------------------------
EXTENDS FactoryCycle

\* One slot, and two for the interplay of their claims.
OneSlot == {0}
TwoSlots == {0, 1}
=============================================================================
