---------------------------- MODULE MC_TimeWheel ----------------------------
(* Model-checking instance of TimeWheel: two connections, one of which    *)
(* the peer may close, on a wheel of 3 slots with a timeout of 2 ticks,   *)
(* so that add, activity and expiry land on every slot relative to the    *)
(* current one and the slot arithmetic wraps.                             *)
EXTENDS TimeWheel

CONSTANTS c1, c2

MCConns == {c1, c2}
MCCloseConns == {c1}
MCNoCloseConns == {}

\* Bound for the deadline check: the acceptor finishes add_connection in
\* the tick in which it stamped the entry (lines 108-131 run without a
\* sleep), so a deadline miss is the wheel's and not a descheduled
\* acceptor's.
AddWithinTick == acc.pc = "ins" => age[acc.c] = 0
====
