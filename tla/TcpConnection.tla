---------------------------- MODULE TcpConnection ----------------------------
(***************************************************************************)
(* One TcpConnection served by its worker EventLoop, with every thread    *)
(* that touches it:                                                        *)
(*   - the worker loop thread (EventLoop::loop, src/unnamed/part_001):    *)
(*     drain pending functors, epoll_wait, dispatch, drain again;         *)
(*   - the acceptor thread, which queues connect_established;             *)
(*   - other threads (application, idle-timeout ticker, server stop) that *)
(*     call send() and shutdown(), which queue work through queueInLoop;  *)
(*   - the peer and the kernel socket: inbound bytes, FIN, RST, and the   *)
(*     bounded kernel send buffer the peer drains.                        *)
(* Data is abstracted to units: send() submits MsgLen units, each unit is *)
(* <<msg, part>> with msg = <<thread, k>> the thread's k-th accepted send.*)
(* OutCap abstracts the OutputBuffer's 1 MiB growth ceiling.              *)
(***************************************************************************)
EXTENDS Naturals, Sequences, SequencesExt

CONSTANTS
  Threads,       \* threads other than the worker loop calling send()/shutdown()
  Acceptor,      \* the base-loop thread running Acceptor::do_accept
  Loop,          \* the worker loop thread (sends from inside on_message)
  MsgLen,        \* units of payload per send()
  SockCap,       \* units the kernel socket send buffer holds
  OutCap,        \* units the OutputBuffer may hold (MAX_BUFFER_SIZE)
  MaxSends,      \* bound: accepted send() calls, all threads together
  MaxShutdowns,  \* bound: shutdown() calls queued
  MaxPeerUnits   \* bound: units the peer sends to us

ASSUME /\ Acceptor \notin Threads /\ Loop \notin Threads /\ Acceptor # Loop
       /\ MsgLen \in Nat \ {0} /\ SockCap \in Nat \ {0} /\ OutCap \in Nat
       /\ MaxSends \in Nat /\ MaxShutdowns \in Nat /\ MaxPeerUnits \in Nat

VARIABLES
  state,     \* TcpConnection::state_
  chan,      \* channel_ != nullptr
  interest,  \* channel_->events_ (= the epoll mask; "IN" stands for EPOLLIN|EPOLLRDHUP)
  outBuf,    \* output_buf_ contents
  fdOpen,    \* connfd_ is still open
  wrShut,    \* ::shutdown(connfd_, SHUT_WR) has been issued
  closeCb,   \* number of close_cb_ invocations
  closes,    \* number of ::close(connfd_) calls
  rcv,       \* units the peer sent that are unread in the kernel
  peerFin,   \* the peer shut down its write side (EPOLLRDHUP, read() == 0)
  rst,       \* the peer reset the connection (EPOLLERR, write/read fail)
  peerSent,  \* units the peer has sent (bound counter)
  sock,      \* units in the kernel send buffer, not yet read by the peer
  peerRecv,  \* units the peer has read, in order
  pending,   \* EventLoop::pending_functors_
  batch,     \* the local vector swapped out by do_pending_functors
  wakeFd,    \* the eventfd counter is non-zero (wakeup_fd_ readable)
  lpc,       \* where the loop thread is in EventLoop::loop
  dispatch,  \* handler steps still to run for the current epoll_wait result
  tpc,       \* per non-loop thread: "idle", "wake" (pushed, wakeup() to do) or "queue"
  nsent,     \* accepted send() calls per thread
  nshut      \* shutdown() calls queued (bound counter)

closeVars == <<state, chan, interest, closeCb, fdOpen, closes>>
ioVars    == <<outBuf, wrShut, sock>>
peerVars  == <<rcv, peerFin, rst, peerSent, peerRecv>>
loopVars  == <<pending, batch, wakeFd, lpc, dispatch>>
thrVars   == <<tpc, nsent, nshut>>
vars == <<closeVars, ioVars, peerVars, loopVars, thrVars>>

States == {"Connecting", "Connected", "Disconnecting", "Disconnected"}
Senders == Threads \cup {Loop}
Msgs == Senders \X (1..MaxSends)
Unit == Msgs \X (1..MsgLen)
Tasks == [op : {"establish", "shutdown"}] \cup [op : {"send"}, m : Msgs]
Steps == [h : {"wake", "close", "read", "write"}]
           \cup [h : {"event"}, mask : SUBSET {"ERRHUP", "RDHUP", "IN", "OUT"}]
           \cup [h : {"send"}, m : Msgs]

\* The payload of one send(): MsgLen units of message m.
Units(m) == [p \in 1..MsgLen |-> <<m, p>>]

TotalSent == SumFunctionOnSet(nsent, Senders)

Min2(a, b) == IF a <= b THEN a ELSE b

-----------------------------------------------------------------------------
(* Channel and epoll registration.                                        *)

\* update_channel: a channel with a non-empty mask is in epoll and channels_.
Registered == interest # {}

\* The mask epoll_wait reports for connfd_ (level-triggered: no EPOLLET).
\* EPOLLERR on reset; EPOLLHUP once both directions are shut down.
ConnMask ==
  IF ~Registered THEN {}
  ELSE   (IF rst \/ (wrShut /\ peerFin) THEN {"ERRHUP"} ELSE {})
       \cup (IF "IN" \in interest /\ peerFin THEN {"RDHUP"} ELSE {})
       \cup (IF "IN" \in interest /\ (rcv > 0 \/ peerFin \/ rst)
               THEN {"IN"} ELSE {})
       \cup (IF "OUT" \in interest /\ (Len(sock) < SockCap \/ rst)
               THEN {"OUT"} ELSE {})

-----------------------------------------------------------------------------
(* TcpConnection handlers, run on the loop thread.                        *)

\* Mutant: handle_close without the compare-exchange on state_.
HandleCloseNoCas ==
  /\ state' = "Disconnected"
  /\ chan' = FALSE
  /\ interest' = {}
  /\ closeCb' = closeCb + 1
  /\ fdOpen' = FALSE
  /\ closes' = closes + 1

\* handle_close: CAS Connected -> Disconnected, disable_all + reset the
\* channel, close callback, ::close(connfd_). Any other state: no-op.
HandleClose ==
  IF state = "Connected"
  THEN /\ state' = "Disconnected"
       /\ chan' = FALSE
       /\ interest' = {}
       /\ closeCb' = closeCb + 1
       /\ fdOpen' = FALSE
       /\ closes' = closes + 1
  ELSE UNCHANGED closeVars

\* connect_established: channel, enable_read, tie, state Connected,
\* connected callback.
ConnectEstablished ==
  /\ chan' = TRUE
  /\ interest' = {"IN"}
  /\ state' = "Connected"
  /\ UNCHANGED <<closeCb, fdOpen, closes>>
  /\ UNCHANGED ioVars

\* Mutant: write_to_buf without the MAX_BUFFER_SIZE check.
WriteToBufNoCap(buf, data) == {buf \o data}

\* OutputBuffer::write_to_buf: the buffers it may leave. It fails (-1) past
\* the growth ceiling. Otherwise it appends, except that an empty buffer has
\* no chunk (pop of everything returned it), and ensure_capacity's
\* alloc_chunk may then return nullptr because the shared pool is at its
\* cap; OutCap units fit the first chunk, so a non-empty buffer never asks.
WriteToBuf(buf, data) ==
  IF Len(buf) + Len(data) > OutCap THEN {buf}
  ELSE IF buf = <<>> THEN {buf \o data, buf}
  ELSE {buf \o data}

\* Mutant: sendInLoop writes directly even when output_buf_ is not empty.
SendInLoopAlwaysDirect(m) ==
  \/ /\ state # "Connected"
     /\ UNCHANGED <<closeVars, ioVars>>
  \/ /\ state = "Connected"
     /\ rst
     /\ HandleClose
     /\ UNCHANGED ioVars
  \/ /\ state = "Connected"
     /\ ~rst
     /\ LET n == Min2(SockCap - Len(sock), MsgLen)
        IN /\ sock' = sock \o SubSeq(Units(m), 1, n)
           /\ IF n < MsgLen
                THEN /\ outBuf' \in WriteToBuf(outBuf, SubSeq(Units(m), n + 1, MsgLen))
                     /\ interest' = interest \cup {"OUT"}
                ELSE UNCHANGED <<outBuf, interest>>
     /\ UNCHANGED <<state, chan, closeCb, fdOpen, closes, wrShut>>

\* sendInLoop: direct ::write when the output buffer is empty, the rest into
\* the output buffer (its result ignored), then enable_write.
SendInLoop(m) ==
  \/ /\ state # "Connected"
     /\ UNCHANGED <<closeVars, ioVars>>
  \/ /\ state = "Connected"
     /\ outBuf = <<>>
     /\ rst
     /\ HandleClose
     /\ UNCHANGED ioVars
  \/ /\ state = "Connected"
     /\ ~(outBuf = <<>> /\ rst)
     /\ LET n == IF outBuf = <<>> THEN Min2(SockCap - Len(sock), MsgLen) ELSE 0
        IN /\ sock' = sock \o SubSeq(Units(m), 1, n)
           /\ IF n < MsgLen
                THEN /\ outBuf' \in WriteToBuf(outBuf, SubSeq(Units(m), n + 1, MsgLen))
                     /\ interest' = interest \cup {"OUT"}
                ELSE UNCHANGED <<outBuf, interest>>
     /\ UNCHANGED <<state, chan, closeCb, fdOpen, closes, wrShut>>

\* OutputBuffer::write_to_fd: one ::write of the whole buffer; the kernel
\* takes what fits in the send buffer (0 on EAGAIN) and pop() drops it.
WriteToFdCount == Min2(SockCap - Len(sock), Len(outBuf))

\* Mutant: handle_write drains the buffer but forgets the deferred SHUT_WR.
HandleWriteNoShutWr ==
  \/ /\ ~fdOpen \/ (outBuf # <<>> /\ rst)
     /\ HandleClose
     /\ UNCHANGED ioVars
  \/ /\ fdOpen
     /\ ~(outBuf # <<>> /\ rst)
     /\ LET k == WriteToFdCount
        IN /\ sock' = sock \o SubSeq(outBuf, 1, k)
           /\ outBuf' = SubSeq(outBuf, k + 1, Len(outBuf))
           /\ IF k = Len(outBuf)
                THEN interest' = interest \ {"OUT"}
                ELSE UNCHANGED interest
     /\ UNCHANGED <<state, chan, closeCb, fdOpen, closes, wrShut>>

\* handle_write: OutputBuffer::write_to_fd, then disable_write and the
\* deferred SHUT_WR once the buffer is empty. A write error (or the closed
\* fd -1) goes to handle_error -> handle_close.
HandleWrite ==
  \/ /\ ~fdOpen \/ (outBuf # <<>> /\ rst)
     /\ HandleClose
     /\ UNCHANGED ioVars
  \/ /\ fdOpen
     /\ ~(outBuf # <<>> /\ rst)
     /\ LET k == WriteToFdCount
        IN /\ sock' = sock \o SubSeq(outBuf, 1, k)
           /\ outBuf' = SubSeq(outBuf, k + 1, Len(outBuf))
           /\ IF k = Len(outBuf)
                THEN /\ interest' = interest \ {"OUT"}
                     /\ wrShut' = (wrShut \/ state = "Disconnecting")
                ELSE UNCHANGED <<interest, wrShut>>
     /\ UNCHANGED <<state, chan, closeCb, fdOpen, closes>>

\* Mutant: shutdownInLoop without its "state_ != Connected" early return.
ShutdownInLoopNoCheck ==
  /\ state' = "Disconnecting"
  /\ wrShut' = (wrShut \/ outBuf = <<>>)
  /\ UNCHANGED <<chan, interest, closeCb, fdOpen, closes, outBuf, sock>>

\* shutdownInLoop: mark Disconnecting; half-close now if nothing is buffered.
ShutdownInLoop ==
  \/ /\ state # "Connected"
     /\ UNCHANGED <<closeVars, ioVars>>
  \/ /\ state = "Connected"
     /\ state' = "Disconnecting"
     /\ wrShut' = (outBuf = <<>>)
     /\ UNCHANGED <<chan, interest, closeCb, fdOpen, closes, outBuf, sock>>

\* TcpConnection::handle_event: error/hang-up and RDHUP close and return;
\* otherwise handle_read then handle_write.
EventSteps(mask) ==
  IF mask \cap {"ERRHUP", "RDHUP"} # {}
  THEN <<[h |-> "close"]>>
  ELSE (IF "IN" \in mask THEN <<[h |-> "read"]>> ELSE <<>>)
         \o (IF "OUT" \in mask THEN <<[h |-> "write"]>> ELSE <<>>)

-----------------------------------------------------------------------------
(* EventLoop::loop on the worker thread.                                  *)

\* do_pending_functors: swap the queue out under the mutex.
SwapPending ==
  /\ lpc \in {"pre", "post"}
  /\ batch' = pending
  /\ pending' = <<>>
  /\ lpc' = IF lpc = "pre" THEN "preRun" ELSE "postRun"
  /\ UNCHANGED <<wakeFd, dispatch, closeVars, ioVars, peerVars, thrVars>>

\* do_pending_functors: run the next swapped-out functor.
RunTask ==
  /\ lpc \in {"preRun", "postRun"}
  /\ batch # <<>>
  /\ batch' = Tail(batch)
  /\ LET t == Head(batch)
     IN CASE t.op = "establish" -> ConnectEstablished
          [] t.op = "send"      -> SendInLoop(t.m)
          [] t.op = "shutdown"  -> ShutdownInLoop
  /\ UNCHANGED <<pending, wakeFd, lpc, dispatch, peerVars, thrVars>>

\* do_pending_functors returns; the loop goes on to epoll_wait or around.
EndBatch ==
  /\ lpc \in {"preRun", "postRun"}
  /\ batch = <<>>
  /\ lpc' = IF lpc = "preRun" THEN "poll" ELSE "pre"
  /\ UNCHANGED <<pending, batch, wakeFd, dispatch, closeVars, ioVars, peerVars, thrVars>>

\* Handlers whose descriptors epoll reports ready, in either order.
ReadySteps ==
  (IF wakeFd THEN <<[h |-> "wake"]>> ELSE <<>>)
    \o (IF ConnMask # {} THEN <<[h |-> "event", mask |-> ConnMask]>> ELSE <<>>)

\* Epoll::poll returns n > 0 ready events.
Poll ==
  /\ lpc = "poll"
  /\ ReadySteps # <<>>
  /\ dispatch' \in {ReadySteps, Reverse(ReadySteps)}
  /\ lpc' = "dispatch"
  /\ UNCHANGED <<pending, batch, wakeFd, closeVars, ioVars, peerVars, thrVars>>

\* Epoll::poll returns 0 after the 10 s timeout: nothing was ready.
PollTimeout ==
  /\ lpc = "poll"
  /\ ReadySteps = <<>>
  /\ lpc' = "post"
  /\ UNCHANGED <<pending, batch, wakeFd, dispatch, closeVars, ioVars, peerVars, thrVars>>

\* handle_read: read_from_fd, then the message callback, which may reply
\* with send() from inside the loop (runs sendInLoop at once). read() of 0
\* (EOF or EAGAIN) and -1 both go to handle_close, and so does a
\* read_from_fd that returns -1 before reading because
\* ensure_space_available found the pool at its cap.
HandleRead(rest) ==
  \/ /\ rcv > 0
     /\ \E k \in 1..rcv : rcv' = rcv - k
     /\ \/ /\ dispatch' = rest
           /\ UNCHANGED nsent
        \/ /\ state = "Connected"
           /\ TotalSent < MaxSends
           /\ nsent' = [nsent EXCEPT ![Loop] = @ + 1]
           /\ dispatch' = <<[h |-> "send", m |-> <<Loop, nsent[Loop] + 1>>]>> \o rest
     /\ UNCHANGED <<closeVars, ioVars>>
  \/ /\ rcv > 0
     /\ HandleClose
     /\ dispatch' = rest
     /\ UNCHANGED <<rcv, nsent, ioVars>>
  \/ /\ rcv = 0
     /\ HandleClose
     /\ dispatch' = rest
     /\ UNCHANGED <<rcv, nsent, ioVars>>

\* One handler step of the dispatch loop.
DispatchStep ==
  /\ lpc = "dispatch"
  /\ dispatch # <<>>
  /\ LET s == Head(dispatch)
         rest == Tail(dispatch)
     IN \/ /\ s.h = "wake"                       \* handle_wakeup drains the eventfd
           /\ wakeFd' = FALSE
           /\ dispatch' = rest
           /\ UNCHANGED <<closeVars, ioVars, rcv, nsent>>
        \/ /\ s.h = "event"                      \* Channel::handle_event, tie alive
           /\ dispatch' = EventSteps(s.mask) \o rest
           /\ UNCHANGED <<wakeFd, closeVars, ioVars, rcv, nsent>>
        \/ /\ s.h = "close"
           /\ HandleClose
           /\ dispatch' = rest
           /\ UNCHANGED <<wakeFd, ioVars, rcv, nsent>>
        \/ /\ s.h = "read"
           /\ HandleRead(rest)
           /\ UNCHANGED wakeFd
        \/ /\ s.h = "write"
           /\ HandleWrite
           /\ dispatch' = rest
           /\ UNCHANGED <<wakeFd, rcv, nsent>>
        \/ /\ s.h = "send"
           /\ SendInLoop(s.m)
           /\ dispatch' = rest
           /\ UNCHANGED <<wakeFd, rcv, nsent>>
  /\ UNCHANGED <<pending, batch, lpc, peerFin, rst, peerSent, peerRecv, tpc, nshut>>

\* All ready events handled; drain the queue again.
EndDispatch ==
  /\ lpc = "dispatch"
  /\ dispatch = <<>>
  /\ lpc' = "post"
  /\ UNCHANGED <<pending, batch, wakeFd, dispatch, closeVars, ioVars, peerVars, thrVars>>

-----------------------------------------------------------------------------
(* Other threads: queueInLoop pushes under the mutex, then wakeup().       *)

\* Mutant: queueInLoop pushes the functor and never calls wakeup().
QueueInLoopNoWake(t, task) ==
  /\ pending' = Append(pending, task)
  /\ tpc' = [tpc EXCEPT ![t] = "idle"]

\* queueInLoop: push the functor; wakeup() is the thread's next step.
QueueInLoop(t, task) ==
  /\ pending' = Append(pending, task)
  /\ tpc' = [tpc EXCEPT ![t] = "wake"]

\* wakeup(): write 1 to the eventfd.
Wakeup(t) ==
  /\ tpc[t] = "wake"
  /\ wakeFd' = TRUE
  /\ tpc' = [tpc EXCEPT ![t] = "idle"]
  /\ UNCHANGED <<pending, batch, lpc, dispatch, closeVars, ioVars, peerVars, nsent, nshut>>

\* Acceptor::do_accept: io_loop->runInLoop(connect_established).
AcceptorQueue ==
  /\ tpc[Acceptor] = "queue"
  /\ QueueInLoop(Acceptor, [op |-> "establish"])
  /\ UNCHANGED <<batch, wakeFd, lpc, dispatch, closeVars, ioVars, peerVars, nsent, nshut>>

\* TcpConnection::send from a non-loop thread: state check, then queue a
\* copy for sendInLoop. Returns true.
Send(t) ==
  /\ tpc[t] = "idle"
  /\ state = "Connected"
  /\ TotalSent < MaxSends
  /\ nsent' = [nsent EXCEPT ![t] = @ + 1]
  /\ QueueInLoop(t, [op |-> "send", m |-> <<t, nsent[t] + 1>>])
  /\ UNCHANGED <<batch, wakeFd, lpc, dispatch, closeVars, ioVars, peerVars, nshut>>

\* TcpConnection::shutdown from a non-loop thread (application, idle
\* timeout, TcpServer::stop): state check, then runInLoop(shutdownInLoop).
Shutdown(t) ==
  /\ tpc[t] = "idle"
  /\ state = "Connected"
  /\ nshut < MaxShutdowns
  /\ nshut' = nshut + 1
  /\ QueueInLoop(t, [op |-> "shutdown"])
  /\ UNCHANGED <<batch, wakeFd, lpc, dispatch, closeVars, ioVars, peerVars, nsent>>

-----------------------------------------------------------------------------
(* The peer and the kernel socket.                                        *)

PeerSend ==
  /\ fdOpen /\ ~peerFin /\ ~rst
  /\ peerSent < MaxPeerUnits
  /\ rcv' = rcv + 1
  /\ peerSent' = peerSent + 1
  /\ UNCHANGED <<peerFin, rst, peerRecv, closeVars, ioVars, loopVars, thrVars>>

PeerShutWr ==
  /\ fdOpen /\ ~peerFin /\ ~rst
  /\ peerFin' = TRUE
  /\ UNCHANGED <<rcv, rst, peerSent, peerRecv, closeVars, ioVars, loopVars, thrVars>>

\* An RST discards what is queued in both directions.
PeerReset ==
  /\ fdOpen /\ ~rst
  /\ rst' = TRUE
  /\ rcv' = 0
  /\ sock' = <<>>
  /\ UNCHANGED <<peerFin, peerSent, peerRecv, closeVars, outBuf, wrShut, loopVars, thrVars>>

PeerRead ==
  /\ sock # <<>> /\ ~rst
  /\ peerRecv' = Append(peerRecv, Head(sock))
  /\ sock' = Tail(sock)
  /\ UNCHANGED <<rcv, peerFin, rst, peerSent, closeVars, outBuf, wrShut, loopVars, thrVars>>

-----------------------------------------------------------------------------

Init ==
  /\ state = "Connecting"
  /\ chan = FALSE
  /\ interest = {}
  /\ outBuf = <<>>
  /\ fdOpen = TRUE
  /\ wrShut = FALSE
  /\ closeCb = 0
  /\ closes = 0
  /\ rcv = 0
  /\ peerFin = FALSE
  /\ rst = FALSE
  /\ peerSent = 0
  /\ sock = <<>>
  /\ peerRecv = <<>>
  /\ pending = <<>>
  /\ batch = <<>>
  /\ wakeFd = FALSE
  /\ lpc = "pre"
  /\ dispatch = <<>>
  /\ tpc = [t \in Threads \cup {Acceptor} |-> IF t = Acceptor THEN "queue" ELSE "idle"]
  /\ nsent = [t \in Senders |-> 0]
  /\ nshut = 0

LoopStep ==
  \/ SwapPending \/ RunTask \/ EndBatch \/ Poll \/ PollTimeout
  \/ DispatchStep \/ EndDispatch

Next ==
  \/ LoopStep
  \/ AcceptorQueue
  \/ \E t \in Threads \cup {Acceptor} : Wakeup(t)
  \/ \E t \in Threads : Send(t) \/ Shutdown(t)
  \/ PeerSend \/ PeerShutWr \/ PeerReset \/ PeerRead

\* The loop thread always runs (epoll_wait returns on readiness or after its
\* timeout); a thread that pushed a functor goes on to write the eventfd;
\* the acceptor finishes do_accept; the peer keeps reading what we send.
\* Sends, shutdowns and the peer's data, FIN and RST are not forced.
Fairness ==
  /\ WF_vars(LoopStep)
  /\ WF_vars(AcceptorQueue)
  /\ \A t \in Threads \cup {Acceptor} : WF_vars(Wakeup(t))
  /\ WF_vars(PeerRead)

Spec == Init /\ [][Next]_vars /\ Fairness

-----------------------------------------------------------------------------
(* Properties.                                                            *)

TypeOK ==
  /\ state \in States
  /\ chan \in BOOLEAN
  /\ interest \in SUBSET {"IN", "OUT"}
  /\ outBuf \in Seq(Unit) /\ Len(outBuf) <= OutCap
  /\ fdOpen \in BOOLEAN /\ wrShut \in BOOLEAN
  /\ closeCb \in Nat /\ closes \in Nat
  /\ rcv \in Nat /\ peerFin \in BOOLEAN /\ rst \in BOOLEAN
  /\ peerSent \in 0..MaxPeerUnits
  /\ sock \in Seq(Unit) /\ Len(sock) <= SockCap
  /\ peerRecv \in Seq(Unit)
  /\ pending \in Seq(Tasks) /\ batch \in Seq(Tasks)
  /\ wakeFd \in BOOLEAN
  /\ lpc \in {"pre", "preRun", "poll", "dispatch", "post", "postRun"}
  /\ dispatch \in Seq(Steps)
  /\ tpc \in [Threads \cup {Acceptor} -> {"idle", "wake", "queue"}]
  /\ nsent \in [Senders -> 0..MaxSends]
  /\ nshut \in 0..MaxShutdowns

\* Everything this connection has handed towards the peer, oldest first:
\* read by the peer, in the kernel send buffer, in output_buf_.
Pipeline == peerRecv \o sock \o outBuf

\* The units of thread t in a stream.
FromThread(s, t) == SelectSeq(s, LAMBDA u : u[1][1] = t)

\* Unit u was submitted before unit v by the same thread.
Before(u, v) == u[1][2] < v[1][2] \/ (u[1][2] = v[1][2] /\ u[2] < v[2])

\* Ordering (spec 5, "Send operations ... deliver bytes in submission
\* order"): for each thread, whether it sends directly from on_message or
\* through queueInLoop, the bytes it handed to send() reach the output
\* buffer, the kernel and the peer in submission order and never twice,
\* across partial writes, the output buffer and handle_write.
PerThreadOrder ==
  \A t \in Senders :
    LET s == FromThread(Pipeline, t)
    IN \A i \in 1..(Len(s) - 1) : Before(s[i], s[i + 1])

\* Teardown (spec 3, 8): handle_close runs the close callback and closes
\* connfd_ at most once, and a channel is registered in epoll only while
\* its descriptor is open, so no event is ever dispatched for a closed fd.
TeardownSafe ==
  /\ closes <= 1
  /\ closeCb = closes
  /\ Registered => (fdOpen /\ chan)

\* Wake-up (spec 3: "pending tasks queued from other threads always trigger
\* a wake-up write"): when the loop is about to block in epoll_wait with a
\* functor queued, the eventfd is readable or the queuing thread has still
\* to write it, so a queued send/shutdown never sits out the 10 s timeout.
LostWakeupFree ==
  (lpc = "poll" /\ pending # <<>>)
    => (wakeFd \/ \E t \in Threads \cup {Acceptor} : tpc[t] = "wake")

\* State machine (spec 3): Connecting -> Connected -> Disconnecting ->
\* Disconnected, Connecting -> Disconnected; no backward edge, even when a
\* queued shutdownInLoop or connect_established runs late.
StateForward ==
  [][ \/ state' = state
      \/ <<state, state'>> \in {<<"Connecting", "Connected">>,
                                <<"Connecting", "Disconnected">>,
                                <<"Connected", "Disconnecting">>,
                                <<"Connected", "Disconnected">>,
                                <<"Disconnecting", "Disconnected">>} ]_state

\* Graceful shutdown (spec 4.6: "the half-close is deferred to the final
\* handle_write drain"): once shutdownInLoop marks the connection
\* Disconnecting, the FIN is eventually sent, unless the peer closes or
\* resets first.
DeferredHalfClose ==
  (state = "Disconnecting") ~> (wrShut \/ peerFin \/ rst)

\* Teardown liveness (spec 5: "the peer's close drives the final teardown";
\* spec 6: on_closed is the single authoritative signal of teardown): once
\* the peer has closed its side, the connection is eventually closed.
PeerCloseTearsDown ==
  peerFin ~> (closes = 1)

\* Delivery (spec 8, send-then-observe): for each thread, what the peer
\* receives is a prefix of the bytes of the sends that returned true, with
\* no gap in the middle.
PrefixDelivery ==
  \A t \in Senders :
    IsPrefix(FromThread(Pipeline, t),
             FlattenSeq([k \in 1..nsent[t] |-> Units(<<t, k>>)]))

=============================================================================
