--------------------------- MODULE ServerRegistry ---------------------------
(***************************************************************************)
(* TcpServer's connection registry (connections_, src/net/TcpServer.cpp)  *)
(* between the acceptor thread and the worker loops:                      *)
(*   - Acceptor::do_accept (src/net/Acceptor.cpp) accepts a descriptor    *)
(*     (the kernel hands out the lowest free number), queues             *)
(*     connect_established on a worker loop, THEN add_new_tcp_conn reads  *)
(*     conn->fd() and inserts it under conn_mutex_;                       *)
(*   - the worker establishes the connection and, when the peer closes,   *)
(*     runs handle_close: CAS to Disconnected, close_cb -> remove_tcp_conn *)
(*     (erase connections_[fd]), ::close(connfd_), connfd_ = -1.          *)
(* Connections are numbered in accept order.                              *)
(***************************************************************************)
EXTENDS Naturals, FiniteSets, FiniteSetsExt

CONSTANTS
  N,     \* connections accepted
  Fds    \* descriptor numbers the kernel may hand out (all > 0)

ASSUME N \in Nat /\ Fds \subseteq Nat \ {0} /\ Fds # {}

Conns == 1..N
NoConn == 0
NoFd == -1

VARIABLES
  used,     \* descriptors open in the process
  connfd,   \* TcpConnection::connfd_
  st,       \* TcpConnection::state_ ("None" before accept)
  wpc,      \* the worker inside handle_close: "idle", "close", "clear", "done"
  est,      \* connections whose connect_established is queued
  reg,      \* connections_: descriptor -> connection
  apc,      \* the acceptor: "accept", "queue", "read", "insert"
  acur,     \* the connection the acceptor is working on
  aval      \* the descriptor add_new_tcp_conn read from conn->fd()

vars == <<used, connfd, st, wpc, est, reg, apc, acur, aval>>

Live(c) == st[c] \in {"Connecting", "Connected"}

-----------------------------------------------------------------------------

\* accept4 returns the lowest free descriptor; a TcpConnection is built.
Accept ==
  /\ apc = "accept"
  /\ acur < N
  /\ Fds \ used # {}
  /\ LET c == acur + 1
         fd == Min(Fds \ used)
     IN /\ used' = used \cup {fd}
        /\ connfd' = [connfd EXCEPT ![c] = fd]
        /\ st' = [st EXCEPT ![c] = "Connecting"]
        /\ acur' = c
  /\ apc' = "queue"
  /\ UNCHANGED <<wpc, est, reg, aval>>

\* io_loop->runInLoop(connect_established), queued from the base loop.
QueueEstablish ==
  /\ apc = "queue"
  /\ est' = est \cup {acur}
  /\ apc' = "read"
  /\ UNCHANGED <<used, connfd, st, wpc, reg, acur, aval>>

\* add_new_tcp_conn: int fd = conn->fd(); fd <= 0 returns.
AddReadFd ==
  /\ apc = "read"
  /\ aval' = connfd[acur]
  /\ apc' = IF connfd[acur] <= 0 THEN "accept" ELSE "insert"
  /\ UNCHANGED <<used, connfd, st, wpc, est, reg, acur>>

\* add_new_tcp_conn, under conn_mutex_: an existing entry wins ("already
\* exists"), otherwise connections_[fd] = conn.
AddInsert ==
  /\ apc = "insert"
  /\ reg' = IF reg[aval] = NoConn THEN [reg EXCEPT ![aval] = acur] ELSE reg
  /\ apc' = "accept"
  /\ UNCHANGED <<used, connfd, st, wpc, est, acur, aval>>

\* connect_established on the worker loop.
ConnectEstablished(c) ==
  /\ c \in est
  /\ est' = est \ {c}
  /\ st' = [st EXCEPT ![c] = "Connected"]
  /\ UNCHANGED <<used, connfd, wpc, reg, apc, acur, aval>>

\* handle_close: CAS Connected -> Disconnected, then close_cb ->
\* remove_tcp_conn: erase connections_[conn->fd()], whatever it holds.
HandleClose(c) ==
  /\ st[c] = "Connected"
  /\ st' = [st EXCEPT ![c] = "Disconnected"]
  /\ reg' = [reg EXCEPT ![connfd[c]] = NoConn]
  /\ wpc' = [wpc EXCEPT ![c] = "close"]
  /\ UNCHANGED <<used, connfd, est, apc, acur, aval>>

\* handle_close: ::close(connfd_); the number is free for the next accept.
CloseFd(c) ==
  /\ wpc[c] = "close"
  /\ used' = used \ {connfd[c]}
  /\ wpc' = [wpc EXCEPT ![c] = "clear"]
  /\ UNCHANGED <<connfd, st, est, reg, apc, acur, aval>>

\* handle_close: connfd_ = -1.
ClearFd(c) ==
  /\ wpc[c] = "clear"
  /\ connfd' = [connfd EXCEPT ![c] = NoFd]
  /\ wpc' = [wpc EXCEPT ![c] = "done"]
  /\ UNCHANGED <<used, st, est, reg, apc, acur, aval>>

Init ==
  /\ used = {}
  /\ connfd = [c \in Conns |-> NoFd]
  /\ st = [c \in Conns |-> "None"]
  /\ wpc = [c \in Conns |-> "idle"]
  /\ est = {}
  /\ reg = [fd \in Fds |-> NoConn]
  /\ apc = "accept"
  /\ acur = 0
  /\ aval = NoFd

Next ==
  \/ Accept \/ QueueEstablish \/ AddReadFd \/ AddInsert
  \/ \E c \in Conns :
       ConnectEstablished(c) \/ HandleClose(c) \/ CloseFd(c) \/ ClearFd(c)

Spec == Init /\ [][Next]_vars

-----------------------------------------------------------------------------

TypeOK ==
  /\ used \subseteq Fds
  /\ connfd \in [Conns -> Fds \cup {NoFd}]
  /\ st \in [Conns -> {"None", "Connecting", "Connected", "Disconnected"}]
  /\ wpc \in [Conns -> {"idle", "close", "clear", "done"}]
  /\ est \subseteq Conns
  /\ reg \in [Fds -> Conns \cup {NoConn}]
  /\ apc \in {"accept", "queue", "read", "insert"}
  /\ acur \in 0..N
  /\ aval \in Fds \cup {NoFd}

\* Registry (spec 8: "for every live connection C: exactly one entry for
\* C.descriptor exists in the server registry"; spec 4.7: on closed,
\* remove from the registry): once the acceptor has inserted a connection,
\* the registry holds exactly the live connections, each under its own
\* descriptor, even when the worker closes it before the insert.
RegistryMatchesLive ==
  /\ \A fd \in Fds : reg[fd] # NoConn => (Live(reg[fd]) /\ connfd[reg[fd]] = fd)
  /\ \A c \in Conns :
       (Live(c) /\ (c < acur \/ apc = "accept")) => reg[connfd[c]] = c

=============================================================================
