---------------------------- MODULE MC_EventLoop ----------------------------
EXTENDS EventLoop, TLC

CONSTANTS c1, c2, c3

MCClients == {c1, c2, c3}
=============================================================================
