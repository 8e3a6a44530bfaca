------------------------------ MODULE MC_Logger ------------------------------
EXTENDS Logger

CONSTANTS p1, p2

MCProducers == {p1, p2}

=============================================================================
