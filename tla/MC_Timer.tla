------------------------------- MODULE MC_Timer -------------------------------
EXTENDS Timer, TLC

CONSTANTS c1, c2

MCCalls == {c1, c2}
MCKind == (c1 :> "once") @@ (c2 :> "repeat")
MCInterval == (c1 :> 1) @@ (c2 :> 1)
MCCount == (c1 :> 1) @@ (c2 :> 2)

=============================================================================
