----------------------------- MODULE IdleTimeout -----------------------------
(***************************************************************************)
(* What the idle-connection manager promises (spec 4.5 and 8): a tracked  *)
(* connection whose last activity is T ago is closed, and it is closed    *)
(* within T + I of its last activity, I being the tick interval. Time is  *)
(* counted in ticks of I; T = T_ms / I_ms ticks. Idle times saturate at   *)
(* Cap so that the state space stays finite.                              *)
(***************************************************************************)
EXTENDS Naturals

CONSTANTS
  Conns,     \* connections
  T,         \* idle timeout, in ticks
  Deadline,  \* latest idle time, in ticks, at which a tracked connection may still be open
  Cap        \* idle times saturate here (Cap > Deadline)

VARIABLES
  tracked,   \* connections the manager is responsible for
  idle       \* ticks since each connection's last activity

vars == <<tracked, idle>>

Init ==
  /\ tracked = {}
  /\ idle = [c \in Conns |-> 0]

\* A connection is handed to the manager, idle since now.
Track(c) ==
  /\ c \notin tracked
  /\ tracked' = tracked \cup {c}
  /\ idle' = [idle EXCEPT ![c] = 0]

\* Activity on a connection.
Touch(c) ==
  /\ idle' = [idle EXCEPT ![c] = 0]
  /\ UNCHANGED tracked

\* The connection closed, or was dropped from the manager.
Untrack(c) ==
  /\ c \in tracked
  /\ tracked' = tracked \ {c}
  /\ UNCHANGED idle

\* The manager times the connection out; only once it has been idle T.
Expire(c) ==
  /\ c \in tracked
  /\ idle[c] >= T
  /\ tracked' = tracked \ {c}
  /\ UNCHANGED idle

\* One tick passes; not while a tracked connection is at its deadline.
Elapse ==
  /\ \A c \in tracked : idle[c] < Deadline
  /\ idle' = [c \in Conns |-> IF idle[c] < Cap THEN idle[c] + 1 ELSE Cap]
  /\ UNCHANGED tracked

Next ==
  \/ \E c \in Conns : Track(c) \/ Touch(c) \/ Untrack(c) \/ Expire(c)
  \/ Elapse

Spec == Init /\ [][Next]_vars

=============================================================================
