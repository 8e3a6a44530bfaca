------------------------------ MODULE LoopPool ------------------------------
(***************************************************************************)
(* EventLoopThreadPool (src/unnamed/part_004) driven by TcpServer::start  *)
(* and TcpServer::stop (src/net/TcpServer.cpp), with the part of           *)
(* EventLoop (src/unnamed/part_001) that start and stop touch: loop()'s    *)
(* running_ flag and its two do_pending_functors calls per iteration.     *)
(* One main thread runs the server (start, the base loop handing out      *)
(* connections through get_next_loop, stop); each worker thread runs      *)
(* run_in_thread and then the lambda's last store. The pool mutex_ is     *)
(* held by start() across all spawns; every other critical section is one *)
(* step. epoll_wait returns at the latest after its 10 s timeout, so poll *)
(* is never blocked and the eventfd wakeup is not tracked. Destroyed     *)
(* objects keep their last values (the build does not scrub freed memory),*)
(* and each access to one is recorded in uaf.                             *)
(***************************************************************************)
EXTENDS Naturals, Sequences, FiniteSets

CONSTANTS
  N,       \* thread_count_
  Conns    \* connections the acceptor hands out

Workers == 1..N

VARIABLES
  spc,          \* the main thread's place in start / serving / stop
  srvStarted,   \* TcpServer::started_
  poolStarted,  \* EventLoopThreadPool::started_
  locked,       \* the pool mutex_ is held by start()
  threads,      \* threads_: the workers whose ThreadData is in the vector
  loopAlive,    \* the worker's EventLoop (owned by its ThreadData) exists
  tdAlive,      \* the worker's ThreadData exists
  running,      \* EventLoop::running_
  wpc,          \* worker thread program counter
  nextIndex,    \* next_index_
  loopOf,       \* the loop get_next_loop gave each connection, 0 if none
  pending,      \* pending_functors_: connections whose shutdownInLoop is queued
  ran,          \* connections whose shutdownInLoop has run
  toShut,       \* stop()'s snapshot of connections_ not yet shut down
  queued,       \* history: connections whose shutdownInLoop stop() queued
  toStop,       \* pool stop(): loops not yet told to stop
  toJoin,       \* pool stop(): threads moved out and not yet joined
  missed,       \* history: workers that returned early from run_in_thread
  uaf,          \* history: objects used after they were destroyed
  mgr           \* TcpServer::idle_manager_: "none", "alive", "reset"

vars == <<spc, srvStarted, poolStarted, locked, threads, loopAlive, tdAlive,
          running, wpc, nextIndex, loopOf, pending, ran, toShut, queued, toStop,
          toJoin, missed, uaf, mgr>>

InThreads(i) == \E k \in DOMAIN threads : threads[k] = i

\* A worker step that uses its EventLoop records a use after destruction.
TouchLoop(i) ==
  uaf' = IF loopAlive[i] THEN uaf ELSE uaf \cup {"EventLoop"}

-----------------------------------------------------------------------------
(* The main thread.                                                        *)

\* start() with the lock taken only around each push_back.
ServerStartUnlocked ==
  /\ spc = "init"
  /\ srvStarted' = TRUE
  /\ poolStarted' = TRUE
  /\ spc' = "spawn"
  /\ mgr' = "alive"
  /\ UNCHANGED <<locked, threads, loopAlive, tdAlive, running, wpc, nextIndex,
                 loopOf, pending, ran, toShut, queued, toStop, toJoin, missed, uaf>>

\* TcpServer::start: started_ false -> true, the idle manager is created and
\* started (idle timeout enabled, as httpServer does), then thread_pool_->start: its own CAS and the lock over the spawn loop.
ServerStart ==
  /\ spc = "init"
  /\ srvStarted' = TRUE
  /\ poolStarted' = TRUE
  /\ locked' = TRUE
  /\ spc' = "spawn"
  /\ mgr' = "alive"
  /\ UNCHANGED <<threads, loopAlive, tdAlive, running, wpc, nextIndex, loopOf,
                 pending, ran, toShut, queued, toStop, toJoin, missed, uaf>>

\* One iteration of start()'s loop: make the EventLoop and ThreadData
\* (running = true), start the thread, then push it into threads_.
\* The lock is released when the last one is pushed.
Spawn ==
  /\ spc = "spawn"
  /\ LET i == Len(threads) + 1 IN
       /\ loopAlive' = [loopAlive EXCEPT ![i] = TRUE]
       /\ tdAlive' = [tdAlive EXCEPT ![i] = TRUE]
       /\ wpc' = [wpc EXCEPT ![i] = "fetch"]
       /\ spc' = "push"
  /\ UNCHANGED <<srvStarted, poolStarted, locked, threads, running, nextIndex,
                 loopOf, pending, ran, toShut, queued, toStop, toJoin, missed, uaf, mgr>>

\* start()'s loop run with i <= thread_count_: one thread too many.
PushOffByOne ==
  /\ spc = "push"
  /\ threads' = Append(threads, Len(threads) + 1)
  /\ IF Len(threads) + 1 > N
     THEN spc' = "serving" /\ locked' = FALSE
     ELSE spc' = "spawn" /\ UNCHANGED locked
  /\ UNCHANGED <<srvStarted, poolStarted, loopAlive, tdAlive, running, wpc,
                 nextIndex, loopOf, pending, ran, toShut, queued, toStop, toJoin,
                 missed, uaf, mgr>>

\* threads_.push_back; after the last one start() returns, unlocking, and
\* TcpServer::start creates the Acceptor and listens.
Push ==
  /\ spc = "push"
  /\ threads' = Append(threads, Len(threads) + 1)
  /\ IF Len(threads) + 1 = N
     THEN spc' = "serving" /\ locked' = FALSE
     ELSE spc' = "spawn" /\ UNCHANGED locked
  /\ UNCHANGED <<srvStarted, poolStarted, loopAlive, tdAlive, running, wpc,
                 nextIndex, loopOf, pending, ran, toShut, queued, toStop, toJoin,
                 missed, uaf, mgr>>

\* get_next_loop reading next_index_ without the fetch_add.
GetNextLoopNoIncrement(c) ==
  /\ spc = "serving"
  /\ ~locked
  /\ loopOf[c] = 0
  /\ loopOf' = [loopOf EXCEPT ![c] = threads[(nextIndex % Len(threads)) + 1]]
  /\ UNCHANGED <<spc, srvStarted, poolStarted, locked, threads, loopAlive,
                 tdAlive, running, wpc, nextIndex, pending, ran, toShut, queued, toStop,
                 toJoin, missed, uaf, mgr>>

\* The Acceptor on the base loop: TcpServer::get_next_loop, which (with
\* threads) takes the pool lock and returns
\* threads_[next_index_++ % threads_.size()].
GetNextLoop(c) ==
  /\ spc = "serving"
  /\ ~locked
  /\ loopOf[c] = 0
  /\ loopOf' = [loopOf EXCEPT ![c] = threads[(nextIndex % Len(threads)) + 1]]
  /\ nextIndex' = nextIndex + 1
  /\ UNCHANGED <<spc, srvStarted, poolStarted, locked, threads, loopAlive,
                 tdAlive, running, wpc, pending, ran, toShut, queued, toStop, toJoin,
                 missed, uaf, mgr>>

\* main_loop.loop() returns (a signal), and main calls server.stop():
\* started_ true -> false, the idle manager is stopped and idle_manager_
\* reset (destroying it) while the workers still run, the Acceptor is
\* destroyed, connections_ is snapshotted and emptied.
ServerStop ==
  /\ spc = "serving"
  /\ srvStarted
  /\ srvStarted' = FALSE
  /\ toShut' = {c \in Conns : loopOf[c] # 0}
  /\ spc' = "shut"
  /\ mgr' = "reset"
  /\ UNCHANGED <<poolStarted, locked, threads, loopAlive, tdAlive, running,
                 wpc, nextIndex, loopOf, pending, ran, queued, toStop, toJoin,
                 missed, uaf>>

\* conn->shutdown() from the main thread. Only a Connected connection is
\* shut down: runInLoop on its loop is queueInLoop (it is not the loop
\* thread), which appends shutdownInLoop to pending_functors_ and wakes the
\* loop. One still Connecting (connect_established queued) or already
\* Disconnecting is skipped; the connection's own state is not modelled
\* here, so either branch may be taken.
ShutdownConn(c) ==
  /\ spc = "shut"
  /\ c \in toShut
  /\ \/ /\ pending' = [pending EXCEPT ![loopOf[c]] = @ \cup {c}]
        /\ queued' = queued \cup {c}
     \/ UNCHANGED <<pending, queued>>
  /\ toShut' = toShut \ {c}
  /\ UNCHANGED <<spc, srvStarted, poolStarted, locked, threads, loopAlive,
                 tdAlive, running, wpc, nextIndex, loopOf, ran, toStop,
                 toJoin, missed, uaf, mgr>>

\* thread_pool_->stop(): started_ true -> false, then under the lock the
\* loops of threads_ are collected.
PoolStop ==
  /\ spc = "shut"
  /\ toShut = {}
  /\ poolStarted
  /\ poolStarted' = FALSE
  /\ toStop' = {threads[k] : k \in DOMAIN threads}
  /\ spc' = "stop_loops"
  /\ UNCHANGED <<srvStarted, locked, threads, loopAlive, tdAlive, running,
                 wpc, nextIndex, loopOf, pending, ran, toShut, queued, toJoin, missed,
                 uaf, mgr>>

\* loop->stop(): running_ = false and a wakeup.
StopLoop(i) ==
  /\ spc = "stop_loops"
  /\ i \in toStop
  /\ running' = [running EXCEPT ![i] = FALSE]
  /\ toStop' = toStop \ {i}
  /\ UNCHANGED <<spc, srvStarted, poolStarted, locked, threads, loopAlive,
                 tdAlive, wpc, nextIndex, loopOf, pending, ran, toShut, queued,
                 toJoin, missed, uaf, mgr>>

\* Under the lock: move every joinable thread out, then threads_.clear(),
\* which destroys each ThreadData and with it the EventLoop (its pending
\* functors are destroyed unrun).
CollectThreads ==
  /\ spc = "stop_loops"
  /\ toStop = {}
  /\ toJoin' = {threads[k] : k \in DOMAIN threads}
  /\ threads' = <<>>
  /\ loopAlive' = [i \in Workers |-> FALSE]
  /\ tdAlive' = [i \in Workers |-> FALSE]
  /\ pending' = [i \in Workers |-> {}]
  /\ spc' = "join"
  /\ UNCHANGED <<srvStarted, poolStarted, locked, running, wpc, nextIndex,
                 loopOf, ran, toShut, queued, toStop, missed, uaf, mgr>>

\* t.join() for each collected thread: waits for the thread to finish.
Join(i) ==
  /\ spc = "join"
  /\ i \in toJoin
  /\ wpc[i] = "done"
  /\ toJoin' = toJoin \ {i}
  /\ spc' = IF toJoin' = {} THEN "done" ELSE "join"
  /\ UNCHANGED <<srvStarted, poolStarted, locked, threads, loopAlive, tdAlive,
                 running, wpc, nextIndex, loopOf, pending, ran, toShut, queued, toStop,
                 missed, uaf, mgr>>

-----------------------------------------------------------------------------
(* A worker thread: run_in_thread(i), EventLoop::loop(), the lambda.       *)

\* run_in_thread, first critical section: index >= threads_.size() returns
\* at once (the loop never runs); otherwise take the loop pointer.
Fetch(i) ==
  /\ wpc[i] = "fetch"
  /\ ~locked
  /\ IF InThreads(i)
     THEN wpc' = [wpc EXCEPT ![i] = "enter"] /\ UNCHANGED missed
     ELSE /\ wpc' = [wpc EXCEPT ![i] = "lambda"]
          /\ missed' = IF poolStarted THEN missed \cup {i} ELSE missed
  /\ UNCHANGED <<spc, srvStarted, poolStarted, locked, threads, loopAlive,
                 tdAlive, running, nextIndex, loopOf, pending, ran, toShut, queued,
                 toStop, toJoin, uaf, mgr>>

\* loop() begins: running_.store(true), thread_id_ = this thread.
Enter(i) ==
  /\ wpc[i] = "enter"
  /\ running' = [running EXCEPT ![i] = TRUE]
  /\ wpc' = [wpc EXCEPT ![i] = "check"]
  /\ TouchLoop(i)
  /\ UNCHANGED <<spc, srvStarted, poolStarted, locked, threads, loopAlive,
                 tdAlive, nextIndex, loopOf, pending, ran, toShut, queued, toStop,
                 toJoin, missed, mgr>>

\* while (running_): go round again, or leave loop().
Check(i) ==
  /\ wpc[i] = "check"
  /\ wpc' = [wpc EXCEPT ![i] = IF running[i] THEN "pending1" ELSE "mark"]
  /\ TouchLoop(i)
  /\ UNCHANGED <<spc, srvStarted, poolStarted, locked, threads, loopAlive,
                 tdAlive, running, nextIndex, loopOf, pending, ran, toShut, queued,
                 toStop, toJoin, missed, mgr>>

\* do_pending_functors (before and after the poll): swap the queue out
\* under the loop's mutex and run every functor taken.
DoPendingFunctors(i) ==
  /\ wpc[i] \in {"pending1", "pending2"}
  /\ ran' = ran \cup pending[i]
  /\ pending' = [pending EXCEPT ![i] = {}]
  /\ wpc' = [wpc EXCEPT ![i] = IF wpc[i] = "pending1" THEN "poll" ELSE "check"]
  /\ TouchLoop(i)
  /\ UNCHANGED <<spc, srvStarted, poolStarted, locked, threads, loopAlive,
                 tdAlive, running, nextIndex, loopOf, toShut, queued, toStop, toJoin,
                 missed, mgr>>

\* epoller_.poll(10000) returns with a message on one of the loop's
\* connections: handle_read calls ts_message_cb, whose on_connection_active
\* tests idle_timeout_enabled_ and idle_manager_ and, if set, goes on to
\* call idle_manager_->update_activity.
PollMessage(i) ==
  /\ wpc[i] = "poll"
  /\ \E c \in Conns : loopOf[c] = i
  /\ wpc' = [wpc EXCEPT ![i] = IF mgr = "alive" THEN "active" ELSE "pending2"]
  /\ TouchLoop(i)
  /\ UNCHANGED <<spc, srvStarted, poolStarted, locked, threads, loopAlive,
                 tdAlive, running, nextIndex, loopOf, pending, ran, toShut, queued,
                 toStop, toJoin, missed, mgr>>

\* idle_manager_->update_activity(conn->fd()): the unique_ptr is read again
\* and the manager used, whatever stop() did since the test.
UpdateActivity(i) ==
  /\ wpc[i] = "active"
  /\ wpc' = [wpc EXCEPT ![i] = "pending2"]
  /\ uaf' = IF mgr = "alive" THEN uaf ELSE uaf \cup {"IdleManager"}
  /\ UNCHANGED <<spc, srvStarted, poolStarted, locked, threads, loopAlive,
                 tdAlive, running, nextIndex, loopOf, pending, ran, toShut, queued,
                 toStop, toJoin, missed, mgr>>

\* epoller_.poll(10000) returns (the wakeup or the timeout) with no
\* message, and other ready channels are dispatched.
Poll(i) ==
  /\ wpc[i] = "poll"
  /\ wpc' = [wpc EXCEPT ![i] = "pending2"]
  /\ TouchLoop(i)
  /\ UNCHANGED <<spc, srvStarted, poolStarted, locked, threads, loopAlive,
                 tdAlive, running, nextIndex, loopOf, pending, ran, toShut, queued,
                 toStop, toJoin, missed, mgr>>

\* run_in_thread after loop(): under the lock, if index < threads_.size()
\* mark the ThreadData not running (guarded, so never a freed one).
Mark(i) ==
  /\ wpc[i] = "mark"
  /\ ~locked
  /\ wpc' = [wpc EXCEPT ![i] = "lambda"]
  /\ UNCHANGED <<spc, srvStarted, poolStarted, locked, threads, loopAlive,
                 tdAlive, running, nextIndex, loopOf, pending, ran, toShut, queued,
                 toStop, toJoin, missed, uaf, mgr>>

\* The thread's lambda, after run_in_thread returns:
\* thread_ptr->running.store(false) through the captured ThreadData pointer.
LambdaEnd(i) ==
  /\ wpc[i] = "lambda"
  /\ wpc' = [wpc EXCEPT ![i] = "done"]
  /\ uaf' = IF tdAlive[i] THEN uaf ELSE uaf \cup {"ThreadData"}
  /\ UNCHANGED <<spc, srvStarted, poolStarted, locked, threads, loopAlive,
                 tdAlive, running, nextIndex, loopOf, pending, ran, toShut, queued,
                 toStop, toJoin, missed, mgr>>

-----------------------------------------------------------------------------

Init ==
  /\ spc = "init"
  /\ srvStarted = FALSE
  /\ poolStarted = FALSE
  /\ locked = FALSE
  /\ threads = <<>>
  /\ loopAlive = [i \in Workers |-> FALSE]
  /\ tdAlive = [i \in Workers |-> FALSE]
  /\ running = [i \in Workers |-> FALSE]
  /\ wpc = [i \in Workers |-> "none"]
  /\ nextIndex = 0
  /\ loopOf = [c \in Conns |-> 0]
  /\ pending = [i \in Workers |-> {}]
  /\ ran = {}
  /\ toShut = {}
  /\ queued = {}
  /\ toStop = {}
  /\ toJoin = {}
  /\ missed = {}
  /\ uaf = {}
  /\ mgr = "none"

\* main() returns once stop() has joined every thread.
Finished ==
  /\ spc = "done"
  /\ UNCHANGED vars

StopSequence ==
  \/ \E c \in Conns : ShutdownConn(c)
  \/ PoolStop
  \/ \E i \in Workers : StopLoop(i) \/ Join(i)
  \/ CollectThreads

Worker(i) ==
  Fetch(i) \/ Enter(i) \/ Check(i) \/ DoPendingFunctors(i) \/ Poll(i)
    \/ PollMessage(i) \/ UpdateActivity(i) \/ Mark(i) \/ LambdaEnd(i)

Next ==
  \/ ServerStart \/ Spawn \/ Push \/ ServerStop
  \/ \E c \in Conns : GetNextLoop(c)
  \/ StopSequence
  \/ \E i \in Workers : Worker(i)
  \/ Finished

\* The main thread, once stopping, and every worker thread are scheduled.
Spec ==
  /\ Init /\ [][Next]_vars
  /\ WF_vars(Spawn \/ Push \/ StopSequence)
  /\ \A i \in Workers : WF_vars(Worker(i))

-----------------------------------------------------------------------------

TypeOK ==
  /\ spc \in {"init", "spawn", "push", "serving", "shut", "stop_loops",
              "join", "done"}
  /\ threads \in Seq(Workers)
  /\ wpc \in [Workers -> {"none", "fetch", "enter", "check", "pending1",
                          "poll", "active", "pending2", "mark", "lambda",
                          "done"}]
  /\ loopOf \in [Conns -> Workers \cup {0}]
  /\ pending \in [Workers -> SUBSET Conns]
  /\ ran \subseteq Conns
  /\ queued \subseteq Conns
  /\ toJoin \subseteq Workers
  /\ uaf \subseteq {"EventLoop", "ThreadData", "IdleManager"}
  /\ mgr \in {"none", "alive", "reset"}

\* Every worker start() spawns finds its ThreadData in threads_ when
\* run_in_thread looks (start holds mutex_ across all spawns and pushes),
\* so no loop the acceptor hands connections to is left without a thread.
NoWorkerMissesItsLoop ==
  missed = {}

\* get_next_loop's round robin: any two loops are given numbers of
\* connections that differ by at most one.
RoundRobinBalanced ==
  \A i, j \in Workers :
    Cardinality({c \in Conns : loopOf[c] = i})
      <= Cardinality({c \in Conns : loopOf[c] = j}) + 1

\* stop() "stops every loop and joins" (spec 4.7): no worker thread uses
\* its EventLoop or ThreadData after threads_.clear() destroyed them.
NoUseAfterDestroy ==
  uaf \cap {"EventLoop", "ThreadData"} = {}

\* stop() resets idle_manager_ while the worker loops still run
\* (TcpServer::stop, step 1, before thread_pool_->stop): no worker's
\* on_connection_active, having found the manager set, calls through it
\* after it was destroyed.
NoManagerUseAfterReset ==
  "IdleManager" \notin uaf

\* Loop stop drains pending tasks one final time (spec 5): when stop()
\* returns, every shutdownInLoop that TcpServer::stop queued has run.
ShutdownsRun ==
  spc = "done" => queued \subseteq ran

\* Once the server starts stopping, stop() returns: every worker leaves
\* its loop and is joined.
StopCompletes ==
  (spc = "shut") ~> (spc = "done")

=============================================================================
