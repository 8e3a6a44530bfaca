------------------------------ MODULE EventLoop ------------------------------
(***************************************************************************)
(* One EventLoop (src/unnamed/part_001) with every Channel it serves, in   *)
(* the configuration where TcpServer::get_next_loop returns base_loop_,   *)
(* so the loop runs the wakeup channel, the Acceptor's listening channel  *)
(* and every connection's channel. The fallback is taken when the pool    *)
(* has no loops: EventLoopThreadPool turns io_thread_count 0 into         *)
(* hardware_concurrency() (part_004 line 9), so with a started pool this  *)
(* happens only where that call returns 0 (spec.md says 0 means the base  *)
(* loop is the sole worker).                                              *)
(*   - channels_ maps a descriptor NUMBER to a weak_ptr<Channel>; epoll's  *)
(*     interest list maps the open descriptor to the raw Channel*.        *)
(*   - update_channel keeps the two in step: events_ == 0 deletes, a      *)
(*     number missing from channels_ is ADDed, a present one MODded.      *)
(*   - The kernel hands out the lowest free number, so a connection       *)
(*     accepted after a close reuses the closed connection's number, and  *)
(*     on the base loop it is registered in the middle of a dispatch      *)
(*     batch (runInLoop runs connect_established at once).                *)
(* Peers are the environment: each client connects once, may send once    *)
(* and may close. Data is abstracted to "unread bytes present".           *)
(***************************************************************************)
EXTENDS Naturals, Sequences, FiniteSets, SequencesExt

CONSTANTS
  Clients,    \* peers that connect (model values)
  ConnFds,    \* descriptor numbers free for accepted connections
  WakeFd,     \* wakeup_fd_ (eventfd)
  ListenFd    \* Acceptor::listen_fd_

ASSUME /\ ConnFds \subseteq Nat /\ WakeFd \in Nat /\ ListenFd \in Nat
       /\ WakeFd # ListenFd /\ {WakeFd, ListenFd} \cap ConnFds = {}
       \* enough numbers that accept4 never fails with EMFILE here; the
       \* descriptor limit is the Acceptor module's subject
       /\ Cardinality(ConnFds) >= Cardinality(Clients)

Wake == "wake"
Acc  == "acc"
Chans == {Wake, Acc} \cup Clients
AllFds == {WakeFd, ListenFd} \cup ConnFds
NoCh == "none"
NoFd == 0

VARIABLES
  alive,    \* Channel objects that exist
  want,     \* channels whose events_ != 0
  fdOf,     \* Channel::fd_
  ep,       \* epoll interest list: descriptor -> Channel* registered for it
  reg,      \* channels_: descriptor -> weak_ptr<Channel>
  open,     \* descriptors open in the process
  pending,  \* pending_functors_: channels whose update_channel is queued
  lpc,      \* the loop thread: "pre", "poll", "disp", "accept", "post"
  batch,    \* active_events_[i..n): [ch |-> raw Channel*, ev |-> revents]
  cst,      \* per client: "out", "queued" (in the backlog), "conn", "closed"
  backlog,  \* the listening socket's accept queue
  data,     \* unread bytes from the peer in the kernel
  sent,     \* the peer has sent (bound: once)
  fin,      \* the peer has shut down its side
  rderr     \* history: connections whose read_from_fd returned -1

vars == <<alive, want, fdOf, ep, reg, open, pending, lpc, batch,
          cst, backlog, data, sent, fin, rderr>>

-----------------------------------------------------------------------------
(* Registration.                                                          *)

\* Epoll::add: EPOLL_CTL_ADD fails with EEXIST when the number is already
\* in the interest list.
EpollAdd(ch, fd) ==
  IF ep[fd] = NoCh THEN [ep EXCEPT ![fd] = ch] ELSE ep

\* Epoll::mod: EPOLL_CTL_MOD fails with ENOENT when it is not; on success
\* data.ptr is replaced by ch.
EpollMod(ch, fd) ==
  IF ep[fd] # NoCh THEN [ep EXCEPT ![fd] = ch] ELSE ep

\* Mutant: the events_ == 0 branch forgets channels_.erase(fd).
UpdateChannelNoErase(ch, fd, on) ==
  \/ /\ ~on
     /\ ep' = [ep EXCEPT ![fd] = NoCh]
     /\ UNCHANGED reg
  \/ /\ on /\ reg[fd] = NoCh
     /\ ep' = EpollAdd(ch, fd)
     /\ reg' = IF ep[fd] = NoCh THEN [reg EXCEPT ![fd] = ch] ELSE reg
  \/ /\ on /\ reg[fd] # NoCh
     /\ ep' = EpollMod(ch, fd)
     /\ UNCHANGED reg

\* Mutant: the ADD branch registers with epoll but never records the
\* channel in channels_.
UpdateChannelAddNoMap(ch, fd, on) ==
  \/ /\ ~on
     /\ ep' = [ep EXCEPT ![fd] = NoCh]
     /\ reg' = [reg EXCEPT ![fd] = NoCh]
  \/ /\ on /\ reg[fd] = NoCh
     /\ ep' = EpollAdd(ch, fd)
     /\ UNCHANGED reg
  \/ /\ on /\ reg[fd] # NoCh
     /\ ep' = EpollMod(ch, fd)
     /\ UNCHANGED reg

\* EventLoop::update_channel(ch), fd = ch->fd(), ch->events() != 0 iff on:
\* off: epoller_.del, channels_.erase(fd); on and fd not in channels_:
\* epoller_.add, then channels_[fd] = ch only if the add succeeded;
\* on and present: epoller_.mod, channels_ untouched.
UpdateChannel(ch, fd, on) ==
  \/ /\ ~on
     /\ ep' = [ep EXCEPT ![fd] = NoCh]
     /\ reg' = [reg EXCEPT ![fd] = NoCh]
  \/ /\ on /\ reg[fd] = NoCh
     /\ ep' = EpollAdd(ch, fd)
     /\ reg' = IF ep[fd] = NoCh THEN [reg EXCEPT ![fd] = ch] ELSE reg
  \/ /\ on /\ reg[fd] # NoCh
     /\ ep' = EpollMod(ch, fd)
     /\ UNCHANGED reg

\* do_pending_functors: run the queued update_channel calls (the wakeup
\* channel's enable_read from the constructor and Acceptor::listen's
\* enable_read, both issued before loop() had set thread_id_).
DoPendingFunctor ==
  /\ lpc \in {"pre", "post"}
  /\ pending # <<>>
  /\ UpdateChannel(Head(pending), fdOf[Head(pending)], Head(pending) \in want)
  /\ pending' = Tail(pending)
  /\ UNCHANGED <<alive, want, fdOf, open, lpc, batch, cst, backlog, data, sent, fin, rderr>>

\* The swapped-out vector is exhausted: on to epoll_wait, or round again.
PendingDone ==
  /\ lpc \in {"pre", "post"}
  /\ pending = <<>>
  /\ lpc' = IF lpc = "pre" THEN "poll" ELSE "pre"
  /\ UNCHANGED <<alive, want, fdOf, ep, reg, open, pending, batch,
                 cst, backlog, data, sent, fin, rderr>>

-----------------------------------------------------------------------------
(* epoll_wait and the dispatch of its result.                             *)

\* The connection of a client whose socket is open at descriptor fd.
SockAt(fd) == {c \in Clients : cst[c] = "conn" /\ fdOf[c] = fd}

\* Level-triggered readiness of a registered descriptor, and the revents
\* reported: EPOLLRDHUP (with EPOLLIN) once the peer has shut down, EPOLLIN
\* while unread bytes are present; the listening socket while its queue
\* is not empty; the eventfd is never written in this configuration.
Revents(fd) ==
  IF fd = ListenFd THEN IF backlog # <<>> THEN {"IN"} ELSE {}
  ELSE IF fd = WakeFd THEN {}
  ELSE UNION {(IF fin[c] THEN {"RDHUP", "IN"} ELSE {})
                \cup (IF data[c] THEN {"IN"} ELSE {}) : c \in SockAt(fd)}

\* epoller_.poll: the ready registered descriptors, in the kernel's order
\* (any order); an empty result is the 10 s timeout.
Poll ==
  /\ lpc = "poll"
  /\ LET ready == {fd \in AllFds : ep[fd] # NoCh /\ Revents(fd) # {}}
     IN \E s \in SetToSeqs(ready) :
          batch' = [i \in 1..Len(s) |-> [ch |-> ep[s[i]], ev |-> Revents(s[i])]]
  /\ lpc' = "disp"
  /\ UNCHANGED <<alive, want, fdOf, ep, reg, open, pending, cst, backlog, data, sent, fin, rderr>>

\* The channel the dispatch loop reaches for the head entry: fd read
\* through the raw pointer, then channels_.find(fd) and weak_ptr::lock().
\* Its two "skip" branches (not in channels_, expired) are never taken in
\* this configuration, as RegistryConsistent shows, so no action models
\* them: a state where one would be taken has no loop step.
Target == LET fd == fdOf[Head(batch).ch] IN
            IF reg[fd] # NoCh /\ reg[fd] \in alive THEN reg[fd] ELSE NoCh

\* The Acceptor's channel: do_accept starts its accept-until-EAGAIN loop.
DispatchAccept ==
  /\ lpc = "disp" /\ batch # <<>>
  /\ Target = Acc
  /\ lpc' = "accept"
  /\ UNCHANGED <<alive, want, fdOf, ep, reg, open, pending, batch, cst, backlog, data, sent, fin, rderr>>

\* The end of the batch: the second do_pending_functors.
DispatchDone ==
  /\ lpc = "disp" /\ batch = <<>>
  /\ lpc' = "post"
  /\ UNCHANGED <<alive, want, fdOf, ep, reg, open, pending, batch, cst, backlog, data, sent, fin, rderr>>
-----------------------------------------------------------------------------
(* TcpConnection handlers on the loop (TcpConnection::handle_event).      *)

\* handle_close: the CAS to Disconnected, channel_->disable_all() (an
\* update_channel with events_ == 0), channel_.reset() (the Channel dies
\* when the dispatch loop drops its shared_ptr at the end of the handler),
\* close_cb_, ::close(connfd_).
CloseConn(c) ==
  /\ cst' = [cst EXCEPT ![c] = "closed"]
  /\ want' = want \ {c}
  /\ UpdateChannel(c, fdOf[c], FALSE)
  /\ alive' = alive \ {c}
  /\ open' = open \ {fdOf[c]}

\* handle_event: EPOLLRDHUP goes to handle_close before EPOLLIN is looked at.
DispatchHangup(c) ==
  /\ lpc = "disp" /\ batch # <<>>
  /\ Target = c
  /\ "RDHUP" \in Head(batch).ev
  /\ CloseConn(c)
  /\ batch' = Tail(batch)
  /\ UNCHANGED <<fdOf, pending, lpc, backlog, data, sent, fin, rderr>>

\* Mutant: handle_read drains the socket with read_from_fd until it
\* returns 0, the usual loop for an edge-triggered reader.
HandleReadUntilEagain(c) ==
  \/ /\ data[c]
     /\ data' = [data EXCEPT ![c] = FALSE]
     /\ CloseConn(c)
     /\ UNCHANGED rderr
  \/ /\ ~data[c]
     /\ CloseConn(c)
     /\ UNCHANGED <<data, rderr>>

\* handle_read: one InputBuffer::read_from_fd. Bytes present: n > 0 and
\* message_cb_, or n < 0 when ensure_space_available finds the buffer
\* pool exhausted or read() fails, and handle_error is handle_close.
\* None: read() returns 0 at EOF and read_from_fd also returns 0 on
\* EAGAIN, so either way n == 0 and handle_close runs.
HandleRead(c) ==
  \/ /\ data[c]
     /\ data' = [data EXCEPT ![c] = FALSE]
     /\ UNCHANGED <<alive, want, ep, reg, open, cst, rderr>>
  \/ /\ data[c]
     /\ CloseConn(c)
     /\ rderr' = rderr \cup {c}
     /\ UNCHANGED data
  \/ /\ ~data[c]
     /\ CloseConn(c)
     /\ UNCHANGED <<data, rderr>>

DispatchRead(c) ==
  /\ lpc = "disp" /\ batch # <<>>
  /\ Target = c
  /\ "RDHUP" \notin Head(batch).ev
  /\ HandleRead(c)
  /\ batch' = Tail(batch)
  /\ UNCHANGED <<fdOf, pending, lpc, backlog, sent, fin>>

-----------------------------------------------------------------------------
(* Acceptor::do_accept on the same loop.                                  *)

\* Mutant: runInLoop takes the queueInLoop path on the loop thread (as
\* before loop() has set thread_id_), so enable_read's update is queued.
AcceptOneQueued ==
  /\ lpc = "accept"
  /\ backlog # <<>>
  /\ LET c == Head(backlog)
         fd == Min(ConnFds \ open)
     IN /\ open' = open \cup {fd}
        /\ fdOf' = [fdOf EXCEPT ![c] = fd]
        /\ cst' = [cst EXCEPT ![c] = "conn"]
        /\ alive' = alive \cup {c}
        /\ want' = want \cup {c}
        /\ pending' = Append(pending, c)
  /\ backlog' = Tail(backlog)
  /\ UNCHANGED <<ep, reg, lpc, batch, data, sent, fin, rderr>>

\* accept4 takes the head of the queue at the lowest free number; with no
\* I/O threads runInLoop runs connect_established at once: a new Channel,
\* enable_read -> update_channel, tie, state Connected.
AcceptOne ==
  /\ lpc = "accept"
  /\ backlog # <<>>
  /\ LET c == Head(backlog)
         fd == Min(ConnFds \ open)
     IN /\ open' = open \cup {fd}
        /\ fdOf' = [fdOf EXCEPT ![c] = fd]
        /\ cst' = [cst EXCEPT ![c] = "conn"]
        /\ alive' = alive \cup {c}
        /\ want' = want \cup {c}
        /\ UpdateChannel(c, fd, TRUE)
  /\ backlog' = Tail(backlog)
  /\ UNCHANGED <<pending, lpc, batch, data, sent, fin, rderr>>

\* accept4 fails with EAGAIN: do_accept returns, the dispatch goes on.
AcceptEagain ==
  /\ lpc = "accept"
  /\ backlog = <<>>
  /\ lpc' = "disp"
  /\ batch' = Tail(batch)
  /\ UNCHANGED <<alive, want, fdOf, ep, reg, open, pending, cst, backlog, data, sent, fin, rderr>>

-----------------------------------------------------------------------------
(* Peers.                                                                  *)

Connect(c) ==
  /\ cst[c] = "out"
  /\ cst' = [cst EXCEPT ![c] = "queued"]
  /\ backlog' = Append(backlog, c)
  /\ UNCHANGED <<alive, want, fdOf, ep, reg, open, pending, lpc, batch, data, sent, fin, rderr>>

PeerSend(c) ==
  /\ cst[c] \in {"queued", "conn"} /\ ~sent[c] /\ ~fin[c]
  /\ data' = [data EXCEPT ![c] = TRUE]
  /\ sent' = [sent EXCEPT ![c] = TRUE]
  /\ UNCHANGED <<alive, want, fdOf, ep, reg, open, pending, lpc, batch, cst, backlog, fin, rderr>>

PeerClose(c) ==
  /\ cst[c] \in {"queued", "conn"} /\ ~fin[c]
  /\ fin' = [fin EXCEPT ![c] = TRUE]
  /\ UNCHANGED <<alive, want, fdOf, ep, reg, open, pending, lpc, batch, cst, backlog, data, sent, rderr>>

-----------------------------------------------------------------------------

\* EventLoop(): the wakeup channel's enable_read, and TcpServer::start's
\* Acceptor::listen, both before loop(): each update is queued.
Init ==
  /\ alive = {Wake, Acc}
  /\ want = {Wake, Acc}
  /\ fdOf = [ch \in Chans |-> IF ch = Wake THEN WakeFd
                              ELSE IF ch = Acc THEN ListenFd ELSE NoFd]
  /\ ep = [fd \in AllFds |-> NoCh]
  /\ reg = [fd \in AllFds |-> NoCh]
  /\ open = {WakeFd, ListenFd}
  /\ pending = <<Wake, Acc>>
  /\ lpc = "pre"
  /\ batch = <<>>
  /\ cst = [c \in Clients |-> "out"]
  /\ backlog = <<>>
  /\ data = [c \in Clients |-> FALSE]
  /\ sent = [c \in Clients |-> FALSE]
  /\ fin = [c \in Clients |-> FALSE]
  /\ rderr = {}

\* Every step of the loop thread. The wakeup channel is never readable
\* here (nothing calls queueInLoop or stop), so no handler is needed for it.
LoopStep ==
  \/ DoPendingFunctor \/ PendingDone \/ Poll
  \/ DispatchAccept \/ DispatchDone
  \/ \E c \in Clients : DispatchHangup(c) \/ DispatchRead(c)
  \/ AcceptOne \/ AcceptEagain

Next ==
  \/ LoopStep
  \/ \E c \in Clients : Connect(c) \/ PeerSend(c) \/ PeerClose(c)

\* The loop thread never blocks for good (epoll_wait times out after 10 s).
Spec == Init /\ [][Next]_vars /\ WF_vars(LoopStep)

-----------------------------------------------------------------------------

TypeOK ==
  /\ alive \subseteq Chans /\ want \subseteq Chans
  /\ fdOf \in [Chans -> AllFds \cup {NoFd}]
  /\ ep \in [AllFds -> Chans \cup {NoCh}]
  /\ reg \in [AllFds -> Chans \cup {NoCh}]
  /\ open \subseteq AllFds
  /\ pending \in Seq({Wake, Acc})
  /\ lpc \in {"pre", "poll", "disp", "accept", "post"}
  /\ batch \in Seq([ch : Chans, ev : SUBSET {"RDHUP", "IN"}])
  /\ cst \in [Clients -> {"out", "queued", "conn", "closed"}]
  /\ backlog \in Seq(Clients)
  /\ data \in [Clients -> BOOLEAN] /\ sent \in [Clients -> BOOLEAN]
  /\ fin \in [Clients -> BOOLEAN]
  /\ rderr \subseteq Clients

\* update_channel keeps channels_ and the epoll interest list in step
\* across descriptor reuse: every live channel that wants events and
\* whose registration is not still queued is in both, under its own
\* number, and neither names a destroyed channel (a stale entry would turn
\* the next connection on the same number into a MOD of nothing).
RegistryConsistent ==
  /\ \A ch \in alive \cap want :
       ch \notin ToSet(pending) => (ep[fdOf[ch]] = ch /\ reg[fdOf[ch]] = ch)
  /\ \A fd \in AllFds :
       /\ reg[fd] # NoCh => (reg[fd] \in alive /\ fdOf[reg[fd]] = fd)
       /\ ep[fd] # NoCh => (ep[fd] \in alive /\ fd \in open)

\* read_from_fd returns 0 on EAGAIN as on EOF, so handle_read would close a
\* healthy connection on a readiness report with nothing to read. With
\* level-triggered epoll and one read per report, no connection is ever
\* closed before its peer has shut down, unless a read failed.
NoSpuriousClose ==
  \A c \in Clients : cst[c] = "closed" => (fin[c] \/ c \in rderr)

\* A peer that shuts down, whether still in the accept queue or already
\* served, has its connection torn down and its descriptor released.
ClosedPeersReleased ==
  \A c \in Clients : fin[c] ~> (cst[c] = "closed")

====
