------------------------------ MODULE Acceptor ------------------------------
(***************************************************************************)
(* The Acceptor (src/net/Acceptor.cpp) on the base loop, against the      *)
(* process's descriptor table:                                            *)
(*   - the constructor opens the listening socket and idle_fd_            *)
(*     (/dev/null), the reserve for the EMFILE trick;                     *)
(*   - listen() (TcpServer::start, on the main thread) calls listen(2),   *)
(*     sets listening_ and queues enable_read on the base loop;           *)
(*   - epoll is level-triggered, so the base loop calls do_accept while   *)
(*     the kernel's accept queue is not empty;                            *)
(*   - do_accept loops on accept4: EAGAIN breaks, EMFILE/ENFILE runs the  *)
(*     rescue (close idle_fd_, accept and close one client, reopen        *)
(*     idle_fd_) and continues, another error breaks, a descriptor        *)
(*     becomes a TcpConnection handed to a worker.                        *)
(* accept4 allocates the descriptor before it looks at the queue (Linux   *)
(* __sys_accept4_file), so a full table gives EMFILE even when no client  *)
(* is waiting. EINTR continues the loop with no change of state and is a  *)
(* stuttering step.                                                       *)
(* Other threads open and close descriptors of their own (log files,      *)
(* connections closed by their workers) at any time.                      *)
(***************************************************************************)
EXTENDS Naturals, Sequences, FiniteSets, SequencesExt

CONSTANTS
  Clients,    \* clients that connect, each once
  Others,     \* descriptors other threads of the process may hold
  MaxFds,     \* RLIMIT_NOFILE
  MaxErrors,  \* accept4 failures other than EAGAIN, EMFILE, EINTR
  MaxOpens    \* descriptors other threads open, in all

ASSUME /\ MaxFds \in Nat /\ MaxFds >= 2 /\ MaxErrors \in Nat /\ MaxOpens \in Nat
       /\ Clients \cap Others = {}

\* The holders of a descriptor: the listening socket, idle_fd_, the
\* rescue's tmp, a client's connection, another thread's file.
Holders == {"listen", "idle", "tmp"} \cup Clients \cup Others

VARIABLES
  open,       \* the descriptor table, by holder
  listening,  \* Acceptor::listening_
  queued,     \* the enable_read functor queued by listen() on the base loop
  readable,   \* EPOLLIN registered for the listening channel
  backlog,    \* the kernel's accept queue (FIFO)
  apc,        \* the base loop: "loop", or inside do_accept
  errs,       \* accept4 failures so far
  arrived,    \* history: clients that connected
  served,     \* history: clients that became a TcpConnection
  refused,    \* history: clients closed by the EMFILE rescue
  closed,     \* history: served clients whose connection closed
  opens       \* descriptors other threads have opened so far

vars == <<open, listening, queued, readable, backlog, apc, errs,
          arrived, served, refused, closed, opens>>

\* A descriptor can be allocated: the table is below RLIMIT_NOFILE.
FdFree == Cardinality(open) < MaxFds

-----------------------------------------------------------------------------
(* The main thread and the base loop outside do_accept.                   *)

\* listen(): return if listening_; listen(2); listening_ = true;
\* runInLoop(enable_read), queued because the base loop has not run yet.
Listen ==
  /\ ~listening
  /\ listening' = TRUE
  /\ queued' = TRUE
  /\ UNCHANGED <<open, readable, backlog, apc, errs, arrived, served, refused, closed, opens>>

\* do_pending_functors runs the lambda: enable_read -> update ->
\* update_channel (EPOLL_CTL_ADD with EPOLLIN | EPOLLRDHUP).
EnableRead ==
  /\ apc = "loop"
  /\ queued
  /\ queued' = FALSE
  /\ readable' = TRUE
  /\ UNCHANGED <<open, listening, backlog, apc, errs, arrived, served, refused, closed, opens>>

\* epoll_wait reports EPOLLIN on the listening socket while its queue is
\* not empty; the channel's callback calls do_accept.
Dispatch ==
  /\ apc = "loop"
  /\ readable
  /\ backlog # <<>>
  /\ apc' = "accept"
  /\ UNCHANGED <<open, listening, queued, readable, backlog, errs, arrived, served, refused, closed, opens>>

-----------------------------------------------------------------------------
(* do_accept: one action per outcome of accept4, and the rescue.          *)

AcceptUnchanged == UNCHANGED <<listening, queued, readable, arrived, closed, opens>>

\* EAGAIN: the queue is empty; break.
AcceptAgain ==
  /\ apc = "accept"
  /\ FdFree
  /\ backlog = <<>>
  /\ apc' = "loop"
  /\ UNCHANGED <<open, backlog, errs, served, refused>>
  /\ AcceptUnchanged

\* EMFILE/ENFILE: no descriptor can be allocated; enter the rescue.
AcceptEmfile ==
  /\ apc = "accept"
  /\ ~FdFree
  /\ apc' = "r_close_idle"
  /\ UNCHANGED <<open, backlog, errs, served, refused>>
  /\ AcceptUnchanged

\* A variant that retries on every other errno instead of breaking.
AcceptErrorRetry ==
  /\ apc = "accept"
  /\ errs' = errs + 1
  /\ UNCHANGED <<open, apc, backlog, served, refused>>
  /\ AcceptUnchanged

\* Another errno (ECONNABORTED, ENOBUFS, ...): log and break.
AcceptError ==
  /\ apc = "accept"
  /\ errs < MaxErrors
  /\ errs' = errs + 1
  /\ apc' = "loop"
  /\ UNCHANGED <<open, backlog, served, refused>>
  /\ AcceptUnchanged

\* A descriptor for the oldest client: get_next_loop (never null: it
\* falls back to base_loop_), a TcpConnection with the server's
\* callbacks, connect_established queued on its loop, add_new_tcp_conn.
AcceptConn ==
  /\ apc = "accept"
  /\ FdFree
  /\ backlog # <<>>
  /\ LET c == Head(backlog) IN
       /\ open' = open \cup {c}
       /\ served' = served \cup {c}
  /\ backlog' = Tail(backlog)
  /\ UNCHANGED <<apc, errs, refused>>
  /\ AcceptUnchanged

\* ::close(idle_fd_). After a failed reopen idle_fd_ is -1 and the close
\* fails with EBADF, which the code ignores.
RescueCloseIdle ==
  /\ apc = "r_close_idle"
  /\ open' = open \ {"idle"}
  /\ apc' = "r_accept"
  /\ UNCHANGED <<backlog, errs, served, refused>>
  /\ AcceptUnchanged

\* A variant of the rescue that frees the reserve and takes it back
\* without accepting the waiting client.
RescueAcceptSkip ==
  /\ apc = "r_accept"
  /\ apc' = "r_open"
  /\ UNCHANGED <<open, backlog, errs, served, refused>>
  /\ AcceptUnchanged

\* tmp = ::accept(listen_fd_): a client if a descriptor and a client are
\* there, otherwise -1 (EMFILE or EAGAIN).
RescueAccept ==
  /\ apc = "r_accept"
  /\ IF FdFree /\ backlog # <<>>
       THEN /\ open' = open \cup {"tmp"}
            /\ refused' = refused \cup {Head(backlog)}
            /\ backlog' = Tail(backlog)
            /\ apc' = "r_close_tmp"
       ELSE /\ apc' = "r_open"
            /\ UNCHANGED <<open, backlog, refused>>
  /\ UNCHANGED <<errs, served>>
  /\ AcceptUnchanged

\* if (tmp >= 0) ::close(tmp): the client sees its connection closed.
RescueCloseTmp ==
  /\ apc = "r_close_tmp"
  /\ open' = open \ {"tmp"}
  /\ apc' = "r_open"
  /\ UNCHANGED <<backlog, errs, served, refused>>
  /\ AcceptUnchanged

\* idle_fd_ = ::open("/dev/null"): -1 if another thread took the slot;
\* then continue with the next accept4.
RescueOpen ==
  /\ apc = "r_open"
  /\ open' = IF FdFree THEN open \cup {"idle"} ELSE open
  /\ apc' = "accept"
  /\ UNCHANGED <<backlog, errs, served, refused>>
  /\ AcceptUnchanged

-----------------------------------------------------------------------------
(* The environment.                                                       *)

\* A client completes the handshake; the kernel queues it once listen(2)
\* has run.
Connect(c) ==
  /\ listening
  /\ c \notin arrived
  /\ arrived' = arrived \cup {c}
  /\ backlog' = Append(backlog, c)
  /\ UNCHANGED <<open, listening, queued, readable, apc, errs, served, refused, closed, opens>>

\* The connection's worker runs handle_close: ::close(connfd_).
ConnClose(c) ==
  /\ c \in open
  /\ open' = open \ {c}
  /\ closed' = closed \cup {c}
  /\ UNCHANGED <<listening, queued, readable, backlog, apc, errs, arrived, served, refused, opens>>

\* Another thread opens or closes a descriptor of its own.
OtherOpen(o) ==
  /\ o \notin open
  /\ FdFree
  /\ opens < MaxOpens
  /\ open' = open \cup {o}
  /\ opens' = opens + 1
  /\ UNCHANGED <<listening, queued, readable, backlog, apc, errs, arrived, served, refused, closed>>

OtherClose(o) ==
  /\ o \in open
  /\ open' = open \ {o}
  /\ UNCHANGED <<listening, queued, readable, backlog, apc, errs, arrived, served, refused, closed, opens>>

-----------------------------------------------------------------------------

\* The constructor has opened the listening socket and idle_fd_.
Init ==
  /\ open = {"listen", "idle"}
  /\ listening = FALSE
  /\ queued = FALSE
  /\ readable = FALSE
  /\ backlog = <<>>
  /\ apc = "loop"
  /\ errs = 0
  /\ arrived = {}
  /\ served = {}
  /\ refused = {}
  /\ closed = {}
  /\ opens = 0

\* The base loop thread.
BaseLoop ==
  \/ EnableRead \/ Dispatch
  \/ AcceptAgain \/ AcceptEmfile \/ AcceptError \/ AcceptConn
  \/ RescueCloseIdle \/ RescueAccept \/ RescueCloseTmp \/ RescueOpen

\* do_accept without its error path, for fairness: accept4 failing with
\* another errno is never forced.
AcceptSteps ==
  \/ EnableRead \/ Dispatch
  \/ AcceptAgain \/ AcceptEmfile \/ AcceptConn
  \/ RescueCloseIdle \/ RescueAccept \/ RescueCloseTmp \/ RescueOpen

\* Every client has connected and been handled and the other threads have
\* used their bound: the base loop waits in epoll_wait.
Waiting ==
  /\ apc = "loop"
  /\ ~queued
  /\ arrived = Clients
  /\ backlog = <<>>
  /\ opens = MaxOpens
  /\ UNCHANGED vars

Next ==
  \/ Listen \/ BaseLoop \/ Waiting
  \/ \E c \in Clients : Connect(c) \/ ConnClose(c)
  \/ \E o \in Others : OtherOpen(o) \/ OtherClose(o)

\* The base loop never blocks for good (epoll_wait returns on readiness or
\* after its timeout) and start() goes on to listen(); clients, workers
\* closing connections and other threads are never forced.
Spec == Init /\ [][Next]_vars /\ WF_vars(AcceptSteps) /\ WF_vars(Listen)

-----------------------------------------------------------------------------

TypeOK ==
  /\ open \subseteq Holders
  /\ Cardinality(open) <= MaxFds
  /\ listening \in BOOLEAN /\ queued \in BOOLEAN /\ readable \in BOOLEAN
  /\ backlog \in Seq(Clients)
  /\ apc \in {"loop", "accept", "r_close_idle", "r_accept", "r_close_tmp", "r_open"}
  /\ errs \in 0..MaxErrors
  /\ arrived \subseteq Clients /\ served \subseteq Clients
  /\ refused \subseteq Clients /\ closed \subseteq Clients
  /\ opens \in 0..MaxOpens

\* The reserve is missing outside the rescue: a reopen of idle_fd_ failed.
ReserveLost == "idle" \notin open /\ apc \in {"loop", "accept"}

\* The idle-fd trick (do_accept's EMFILE branch): every client that
\* reaches the accept queue is eventually taken off it, as a connection
\* or refused, even when the table is full, unless another thread took
\* the reserve descriptor while the rescue had given it up.
ClientsServed ==
  \A c \in Clients :
    (c \in ToSet(backlog)) ~> (c \notin ToSet(backlog) \/ ReserveLost)

\* do_accept returns to the event loop (its comment: continue "until
\* EAGAIN"), so that the base loop runs its other events and functors.
AcceptReturns == (apc = "accept") ~> (apc = "loop")

=============================================================================
