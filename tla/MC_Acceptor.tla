---------------------------- MODULE MC_Acceptor ----------------------------
EXTENDS Acceptor, TLC

CONSTANTS c1, c2, c3, o1

MCClients == {c1, c2, c3}
MCOthers == {o1}

=============================================================================
