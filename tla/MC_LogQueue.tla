----------------------------- MODULE MC_LogQueue -----------------------------
EXTENDS LogQueue

CONSTANTS i1, i2

MCItems == {i1, i2}

=============================================================================
