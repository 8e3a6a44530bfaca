------------------------------ MODULE TimeWheel ------------------------------
(***************************************************************************)
(* ConnectionTimeoutManager (src/time/ConnectionTimeoutManager.cpp) as    *)
(* TcpServer drives it (src/net/TcpServer.cpp):                           *)
(*   - the acceptor accepts a descriptor, makes a TcpConnection in        *)
(*     kConnecting, queues connect_established on the worker loop, then   *)
(*     runs add_new_tcp_conn: TcpServer::connections_ and add_connection, *)
(*     both keyed by conn->fd(), the descriptor number;                   *)
(*   - the connection's worker loop runs connect_established, reports     *)
(*     activity (on_connection_active -> update_activity(conn->fd())),    *)
(*     runs a queued shutdownInLoop, and on handle_close calls ts_close_cb *)
(*     (remove_tcp_conn -> remove_connection) before ::close(connfd_) and *)
(*     connfd_ = -1;                                                      *)
(*   - the wheel thread (time_wheel_loop) visits one slot per tick and    *)
(*     calls on_connection_idle_timeout -> shutdown() for what expired;   *)
(*   - the cleanup thread drops the ids of connections not is_connected().*)
(* The kernel hands out the lowest free descriptor, so a number is reused *)
(* once its connection's ::close has run. Time is counted in ticks:       *)
(* T_ms / I_ms = TN, the sleep of one tick is the Advance step, and       *)
(* age[c] is now - last_activity_time in ticks, saturating at AgeCap.     *)
(* Each connection has at most one ConnectionEntry, so an entry is named  *)
(* by its connection; slotOf is the slot vector holding it.               *)
(***************************************************************************)
EXTENDS Naturals, FiniteSets, Sequences, SequencesExt

CONSTANTS
  Conns,        \* connections, each accepted at most once
  CloseConns,   \* connections whose peer may close them
  Fds,          \* descriptor numbers accept4 may return (all > 0)
  W,            \* wheel_size_
  TN,           \* idle_timeout_ms_ / tick_interval_ms_
  AgeCap,       \* ages saturate here
  MaxActivity   \* bound: activity reports per connection

ASSUME /\ CloseConns \subseteq Conns /\ Fds \subseteq Nat \ {0}
       /\ W \in Nat \ {0} /\ TN \in Nat /\ AgeCap > TN /\ MaxActivity \in Nat

NoSlot == -1
NoFd == -1
None == "none"

VARIABLES
  cur,      \* current_slot_
  map,      \* connections_: descriptor -> the connection of its entry, or None
  slotOf,   \* the slot whose entries vector holds the connection's entry
  pos,      \* entry->slot_position
  rem,      \* entry->remaining_ticks
  age,      \* now - entry->last_activity_time, in ticks
  total,    \* total_connections_ (a size_t; negative here means wrapped)
  life,     \* "out" (not accepted), "connecting", "open" (kConnected),
            \* "draining" (kDisconnecting), "closed" (kDisconnected)
  fd,       \* connfd_: NoFd before accept4 and after handle_close
  srv,      \* TcpServer::connections_: descriptor -> connection, or None
  acc,      \* the acceptor in add_new_tcp_conn: pc, connection, id, slot
  shq,      \* a shutdownInLoop is queued on the connection's loop
  tk,       \* the wheel thread: "start", "scan", "expire"
  todo,     \* entries of the current slot not yet examined this tick
  expQ,     \* expired_entries collected this tick, not yet handled
  apc,      \* a worker in update_activity: "idle" or "push" (between slot locks)
  moving,   \* the entry that worker is moving
  target,   \* the new slot move_to_new_slot computed
  nact,     \* activity reports so far
  clQ       \* closed_conns collected by the cleanup thread, not yet removed

wheelVars == <<cur, tk, todo, expQ>>
entryVars == <<slotOf, pos, rem, age>>
connVars == <<life, fd, srv, acc, shq>>
workVars == <<apc, moving, target, nact>>
vars == <<wheelVars, entryVars, connVars, workVars, map, total, clQ>>

Slots == 0..(W - 1)

\* The acceptor outside add_new_tcp_conn (its locals are gone).
AccIdle == [pc |-> "idle", c |-> CHOOSE c \in Conns : TRUE,
            id |-> CHOOSE f \in Fds : TRUE, slot |-> 0]

\* The connections whose entry connections_ holds.
Tracked == {map[f] : f \in {g \in Fds : map[g] # None}}

\* Descriptors open in the process.
Held == {fd[c] : c \in {d \in Conns : fd[d] # NoFd}}

\* A slot is being scanned under its slot_mutex by the wheel thread.
Locked(s) == tk = "scan" /\ s = cur

-----------------------------------------------------------------------------
(* The acceptor thread.                                                   *)

\* calculate_slot for an entry active now: (current_slot_ + T/I) % W.
CalculateSlot == (cur + TN) % W

\* Acceptor::do_accept: accept4 returns the lowest free descriptor, the
\* connection starts in kConnecting, connect_established is queued on the
\* worker loop, then add_new_tcp_conn begins.
Accept(c) ==
  /\ acc.pc = "idle"
  /\ life[c] = "out"
  /\ Fds \ Held # {}
  /\ fd' = [fd EXCEPT ![c] = Min(Fds \ Held)]
  /\ life' = [life EXCEPT ![c] = "connecting"]
  /\ acc' = [acc EXCEPT !.pc = "srv", !.c = c]
  /\ UNCHANGED <<wheelVars, entryVars, workVars, map, total, srv, shq, clQ>>

\* add_new_tcp_conn: fd = conn->fd() (-1 once the worker has closed it);
\* return if it is invalid or TcpServer::connections_ already has the
\* number; otherwise insert it and go on to add_connection.
AddNewTcpConn ==
  /\ acc.pc = "srv"
  /\ LET f == fd[acc.c]
         free == f # NoFd /\ srv[f] = None
     IN \/ /\ ~free
           /\ acc' = AccIdle
           /\ UNCHANGED srv
        \/ /\ free
           /\ srv' = [srv EXCEPT ![f] = acc.c]
           /\ acc' = [acc EXCEPT !.pc = "calc"]
  /\ UNCHANGED <<wheelVars, entryVars, workVars, map, total, life, fd, shq, clQ>>

\* add_connection, before any lock: conn_id = conn->fd() (return if not
\* positive), slot_pos = calculate_slot(now) from the unlocked
\* current_slot_, and the entry made with last_activity_time = now.
AddCalc ==
  /\ acc.pc = "calc"
  /\ \/ /\ fd[acc.c] = NoFd
        /\ acc' = AccIdle
        /\ UNCHANGED age
     \/ /\ fd[acc.c] # NoFd
        /\ acc' = [acc EXCEPT !.pc = "ins", !.id = fd[acc.c], !.slot = CalculateSlot]
        /\ age' = [age EXCEPT ![acc.c] = 0]
  /\ UNCHANGED <<wheelVars, slotOf, pos, rem, workVars, map, total, life, fd, srv, shq, clQ>>

\* add_connection under connections_mutex_: return if the id is taken;
\* otherwise insert, count up and push under the slot's lock.
AddConnection ==
  /\ acc.pc = "ins"
  /\ acc' = AccIdle
  /\ LET c == acc.c IN
       \/ /\ map[acc.id] # None
          /\ UNCHANGED <<map, total, slotOf, pos, rem>>
       \/ /\ map[acc.id] = None
          /\ ~Locked(acc.slot)
          /\ map' = [map EXCEPT ![acc.id] = c]
          /\ total' = total + 1
          /\ slotOf' = [slotOf EXCEPT ![c] = acc.slot]
          /\ pos' = [pos EXCEPT ![c] = acc.slot]
          /\ rem' = [rem EXCEPT ![c] = TN]
  /\ UNCHANGED <<wheelVars, age, workVars, life, fd, srv, shq, clQ>>

AcceptorStep == AddNewTcpConn \/ AddCalc \/ AddConnection

-----------------------------------------------------------------------------
(* A connection's worker loop.                                            *)

\* connect_established, queued by the acceptor: state_ = kConnected.
Establish(c) ==
  /\ life[c] = "connecting"
  /\ life' = [life EXCEPT ![c] = "open"]
  /\ UNCHANGED <<wheelVars, entryVars, workVars, map, total, fd, srv, acc, shq, clQ>>

\* on_connection_active -> update_activity(conn->fd()): find the entry
\* under that id, stamp last_activity_time, then move_to_new_slot: the
\* same slot only resets remaining_ticks; otherwise remove from the old
\* slot under its lock (the push is the next step).
UpdateActivity(c) ==
  /\ apc[c] = "idle"
  /\ life[c] \in {"open", "draining"}
  /\ nact[c] < MaxActivity
  /\ nact' = [nact EXCEPT ![c] = @ + 1]
  /\ LET e == map[fd[c]] IN
       \/ /\ e = None
          /\ UNCHANGED <<entryVars, apc, moving, target>>
       \/ /\ e # None
          /\ age' = [age EXCEPT ![e] = 0]
          /\ CalculateSlot = pos[e]
          /\ rem' = [rem EXCEPT ![e] = TN]
          /\ UNCHANGED <<slotOf, pos, apc, moving, target>>
       \/ /\ e # None
          /\ age' = [age EXCEPT ![e] = 0]
          /\ CalculateSlot # pos[e]
          /\ ~Locked(pos[e])
          /\ slotOf' = [slotOf EXCEPT ![e] = IF @ = pos[e] THEN NoSlot ELSE @]
          /\ moving' = [moving EXCEPT ![c] = e]
          /\ target' = [target EXCEPT ![c] = CalculateSlot]
          /\ apc' = [apc EXCEPT ![c] = "push"]
          /\ UNCHANGED <<pos, rem>>
  /\ UNCHANGED <<wheelVars, map, total, connVars, clQ>>

MoveToNewSlot(c) ==
  /\ apc[c] = "push"
  /\ ~Locked(target[c])
  /\ LET e == moving[c] IN
       /\ slotOf' = [slotOf EXCEPT ![e] = target[c]]
       /\ pos' = [pos EXCEPT ![e] = target[c]]
       /\ rem' = [rem EXCEPT ![e] = TN]
  /\ apc' = [apc EXCEPT ![c] = "idle"]
  /\ moving' = [moving EXCEPT ![c] = c]
  /\ target' = [target EXCEPT ![c] = 0]
  /\ UNCHANGED <<wheelVars, age, map, total, connVars, nact, clQ>>

\* remove_connection(id): erase the id and count down; the entry stays in
\* its slot "for the cleanup thread".
RemoveConnection(id) ==
  IF map[id] # None
  THEN /\ map' = [map EXCEPT ![id] = None]
       /\ total' = total - 1
  ELSE UNCHANGED <<map, total>>

\* handle_close (only from kConnected) up to close_cb_: ts_close_cb ->
\* remove_tcp_conn(conn) (remove_connection(fd), then erase fd from
\* TcpServer::connections_), and remove_connection(fd) again.
CloseCb(c) ==
  /\ c \in CloseConns
  /\ life[c] = "open"
  /\ apc[c] = "idle"
  /\ life' = [life EXCEPT ![c] = "closed"]
  /\ RemoveConnection(fd[c])
  /\ srv' = [srv EXCEPT ![fd[c]] = None]
  /\ UNCHANGED <<wheelVars, entryVars, workVars, fd, acc, shq, clQ>>

\* The rest of handle_close: ::close(connfd_) frees the number, and
\* connfd_ = -1.
CloseFd(c) ==
  /\ life[c] = "closed"
  /\ fd[c] # NoFd
  /\ fd' = [fd EXCEPT ![c] = NoFd]
  /\ UNCHANGED <<wheelVars, entryVars, workVars, map, total, life, srv, acc, shq, clQ>>

\* The queued shutdownInLoop: kConnected -> kDisconnecting (and SHUT_WR);
\* nothing in any other state.
ShutdownInLoop(c) ==
  /\ shq[c]
  /\ apc[c] = "idle"
  /\ shq' = [shq EXCEPT ![c] = FALSE]
  /\ life' = [life EXCEPT ![c] = IF @ = "open" THEN "draining" ELSE @]
  /\ UNCHANGED <<wheelVars, entryVars, workVars, map, total, fd, srv, acc, clQ>>

-----------------------------------------------------------------------------
(* The wheel thread: time_wheel_loop / process_timeout_connections.       *)

WheelFixed == UNCHANGED <<map, total, connVars, workVars, clQ>>

\* Lock the current slot and start walking its entries.
TickStart ==
  /\ tk = "start"
  /\ tk' = "scan"
  /\ todo' = {c \in Conns : slotOf[c] = cur}
  /\ UNCHANGED <<cur, expQ, entryVars>>
  /\ WheelFixed

\* Mutant: the tick test written "remaining_ticks >= 0".
ScanEntryUnderflow(c) ==
  /\ tk = "scan"
  /\ c \in todo
  /\ todo' = todo \ {c}
  /\ rem' = [rem EXCEPT ![c] = @ - 1]
  /\ UNCHANGED <<cur, tk, expQ, slotOf, pos, age>>
  /\ WheelFixed

ScanEntry(c) ==
  /\ tk = "scan"
  /\ c \in todo
  /\ todo' = todo \ {c}
  /\ \/ /\ rem[c] > 0
        /\ rem' = [rem EXCEPT ![c] = @ - 1]
        /\ UNCHANGED <<slotOf, expQ>>
     \/ /\ rem[c] = 0
        /\ age[c] >= TN
        /\ slotOf' = [slotOf EXCEPT ![c] = NoSlot]
        /\ expQ' = Append(expQ, c)
        /\ UNCHANGED rem
     \/ /\ rem[c] = 0
        /\ age[c] < TN
        /\ UNCHANGED <<slotOf, expQ, rem>>
  /\ UNCHANGED <<cur, tk, pos, age>>
  /\ WheelFixed

\* The walk is over; the slot lock is released.
ScanDone ==
  /\ tk = "scan"
  /\ todo = {}
  /\ tk' = "expire"
  /\ UNCHANGED <<cur, todo, expQ, entryVars>>
  /\ WheelFixed

\* One expired entry: erase connections_[conn->fd()] (fd() is -1 once the
\* connection closed), count down, then on_connection_idle_timeout ->
\* shutdown(): if kConnected, runInLoop from this thread queues
\* shutdownInLoop on the connection's loop.
ExpireOne ==
  /\ tk = "expire"
  /\ expQ # <<>>
  /\ LET c == Head(expQ)
     IN /\ map' = IF fd[c] # NoFd THEN [map EXCEPT ![fd[c]] = None] ELSE map
        /\ total' = total - 1
        /\ shq' = [shq EXCEPT ![c] = @ \/ life[c] = "open"]
  /\ expQ' = Tail(expQ)
  /\ UNCHANGED <<cur, tk, todo, entryVars, life, fd, srv, acc, workVars, clQ>>

\* current_slot_ moves on and the thread sleeps one tick interval.
Advance ==
  /\ tk = "expire"
  /\ expQ = <<>>
  /\ cur' = (cur + 1) % W
  /\ age' = [c \in Conns |-> IF age[c] < AgeCap THEN age[c] + 1 ELSE AgeCap]
  /\ tk' = "start"
  /\ UNCHANGED <<todo, expQ, slotOf, pos, rem>>
  /\ WheelFixed

-----------------------------------------------------------------------------
(* The cleanup thread: cleanup_closed_connections every 30 s.             *)

\* Collect the ids whose connection is not is_connected() (kConnecting,
\* kDisconnecting and kDisconnected alike).
CleanupCollect ==
  /\ clQ = {}
  /\ clQ' = {f \in Fds : map[f] # None /\ life[map[f]] # "open"}
  /\ UNCHANGED <<wheelVars, entryVars, connVars, workVars, map, total>>

\* remove_connection(id), then drop, slot by slot under each slot's lock,
\* the entries whose conn->fd() == id (a closed connection's fd() is -1,
\* so its entry stays).
CleanupOne(id) ==
  /\ id \in clQ
  /\ \A e \in Conns : fd[e] = id /\ slotOf[e] # NoSlot => ~Locked(slotOf[e])
  /\ clQ' = clQ \ {id}
  /\ RemoveConnection(id)
  /\ slotOf' = [e \in Conns |-> IF fd[e] = id THEN NoSlot ELSE slotOf[e]]
  /\ UNCHANGED <<wheelVars, pos, rem, age, connVars, workVars>>

-----------------------------------------------------------------------------

Init ==
  /\ cur = 0
  /\ map = [f \in Fds |-> None]
  /\ slotOf = [c \in Conns |-> NoSlot]
  /\ pos = [c \in Conns |-> 0]
  /\ rem = [c \in Conns |-> 0]
  /\ age = [c \in Conns |-> 0]
  /\ total = 0
  /\ life = [c \in Conns |-> "out"]
  /\ fd = [c \in Conns |-> NoFd]
  /\ srv = [f \in Fds |-> None]
  /\ acc = AccIdle
  /\ shq = [c \in Conns |-> FALSE]
  /\ tk = "start"
  /\ todo = {}
  /\ expQ = <<>>
  /\ apc = [c \in Conns |-> "idle"]
  /\ moving = [c \in Conns |-> c]
  /\ target = [c \in Conns |-> 0]
  /\ nact = [c \in Conns |-> 0]
  /\ clQ = {}

WheelStep ==
  \/ TickStart \/ ScanDone \/ ExpireOne \/ Advance
  \/ \E c \in Conns : ScanEntry(c)

CleanupStep == CleanupCollect \/ \E f \in Fds : CleanupOne(f)

Worker(c) ==
  \/ Establish(c) \/ UpdateActivity(c) \/ MoveToNewSlot(c)
  \/ CloseCb(c) \/ CloseFd(c) \/ ShutdownInLoop(c)

Next ==
  \/ WheelStep
  \/ CleanupStep
  \/ AcceptorStep
  \/ \E c \in Conns : Accept(c) \/ Worker(c)

\* The wheel thread ticks forever and the cleanup thread wakes every 30 s.
\* The acceptor finishing add_new_tcp_conn, a worker finishing
\* move_to_new_slot and the cleanup thread's slot sweep each wait for a
\* slot_mutex the wheel thread holds for one walk per W ticks: they are
\* enabled infinitely often and take the lock once it is released, hence
\* strong fairness. A worker loop runs its queued functors
\* (connect_established, shutdownInLoop) and finishes handle_close.
\* Arrivals, activity and peer closes are not forced.
Fairness ==
  /\ WF_vars(WheelStep)
  /\ SF_vars(CleanupStep)
  /\ SF_vars(AcceptorStep)
  /\ \A c \in Conns :
       /\ SF_vars(MoveToNewSlot(c))
       /\ WF_vars(Establish(c)) /\ WF_vars(ShutdownInLoop(c)) /\ WF_vars(CloseFd(c))

Spec == Init /\ [][Next]_vars /\ Fairness

-----------------------------------------------------------------------------
(* Properties.                                                            *)

TypeOK ==
  /\ cur \in Slots
  /\ map \in [Fds -> Conns \cup {None}]
  /\ slotOf \in [Conns -> Slots \cup {NoSlot}]
  /\ pos \in [Conns -> Slots]
  /\ rem \in [Conns -> 0..TN]
  /\ age \in [Conns -> 0..AgeCap]
  /\ total \in Int
  /\ life \in [Conns -> {"out", "connecting", "open", "draining", "closed"}]
  /\ fd \in [Conns -> Fds \cup {NoFd}]
  /\ srv \in [Fds -> Conns \cup {None}]
  /\ acc \in [pc : {"idle", "srv", "calc", "ins"}, c : Conns, id : Fds, slot : Slots]
  /\ shq \in [Conns -> BOOLEAN]
  /\ tk \in {"start", "scan", "expire"}
  /\ todo \subseteq Conns
  /\ expQ \in Seq(Conns)
  /\ apc \in [Conns -> {"idle", "push"}]
  /\ moving \in [Conns -> Conns]
  /\ target \in [Conns -> Slots]
  /\ nact \in [Conns -> 0..MaxActivity]
  /\ clQ \subseteq Fds

\* A worker is between the two slot locks of move_to_new_slot for e.
Moving(e) == \E w \in Conns : apc[w] = "push" /\ moving[w] = e

IdleConnsShutDown ==
  \A c \in Conns \ CloseConns : (life[c] = "open") ~> (life[c] = "draining")

\* Counting (connection_count(), spec 6): total_connections_ equals the
\* number of connections in connections_; a removed connection's stale
\* entry expiring later must not count it down a second time.
CountMatches ==
  total = Cardinality({f \in Fds : map[f] # None})

\* The manager implements its promise (IdleTimeout): a connection is timed
\* out only after T idle and no later than T + I (spec 8, scenario 4). The
\* manager answers for a connection from the stamp add_connection takes.
Adding == IF acc.pc = "ins" THEN {acc.c} ELSE {}

Idle == INSTANCE IdleTimeout
          WITH tracked <- {c \in Tracked \cup Adding : life[c] # "closed"} \ ToSet(expQ),
               idle <- age, T <- TN, Deadline <- TN + 1, Cap <- AgeCap

IdleRefinement == Idle!Spec

=============================================================================
