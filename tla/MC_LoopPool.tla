----------------------------- MODULE MC_LoopPool -----------------------------
EXTENDS LoopPool

CONSTANTS c1, c2, c3

MCConns == {c1, c2, c3}

=============================================================================
