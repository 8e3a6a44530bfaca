-------------------------------- MODULE Timer --------------------------------
(***************************************************************************)
(* Timer (src/time/Timer.hpp, Timer.cpp): a priority queue of timer tasks *)
(* under mutex_, the timer thread running timer_loop(), and the           *)
(* ThreadPool thread_pool_ that runs the callbacks. Actors:                *)
(*   - the owner, calling start() and stop() (also what ~Timer runs);     *)
(*   - one user thread per call in Calls: schedule_once, _periodic or     *)
(*     _repeat (Kind), then possibly cancel(task_id);                     *)
(*   - the timer thread;                                                  *)
(*   - the pool's workers, as ThreadPool specifies them.                  *)
(* The task id is the call itself (generate_task_id hands out distinct    *)
(* ids). Time is kept relative: an entry's delay is what remains of       *)
(* expire_time - now, and Tick, one unit of time, lowers every delay;     *)
(* at most MaxTime units pass. The k-th callback of call c handed to the  *)
(* pool is the pool task <<c, k>>. The timer thread is the only thread    *)
(* that waits on condition_, so notify_one and notify_all both wake it.   *)
(* It holds mutex_ across steps only between testing the wait predicate   *)
(* and blocking; every other critical section is one step.                *)
(***************************************************************************)
EXTENDS Naturals, FiniteSets

CONSTANTS
  Calls,     \* the schedule_* calls made
  Kind,      \* Calls -> {"once", "periodic", "repeat"}
  Interval,  \* Calls -> delay_ms or interval_ms, in units of time (> 0)
  Count,     \* Calls -> repeat_count (> 0) of a schedule_repeat
  PoolSize,  \* pool_size passed to the constructor
  MaxFires,  \* bound on the callbacks of one call
  MaxTime,   \* bound on the units of time that pass
  MaxStarts, \* bound on the start() calls
  None

ASSUME /\ Kind \in [Calls -> {"once", "periodic", "repeat"}]
       /\ Interval \in [Calls -> Nat \ {0}]
       /\ Count \in [Calls -> Nat \ {0}]

Firings == Calls \X (1..MaxFires)

VARIABLES
  running,    \* is_running_
  stopFlag,   \* should_stop_
  queue,      \* task_queue_: a set of [id, delay, left] (left: repeat_count)
  cancelled,  \* cancelled_tasks_
  tpc,        \* timer thread: "none" (no thread), "loop" (while test),
              \* "lock", "blocking", "waiting", "rewake", "timed",
              \* "post1".."post3" (post_task), "exited"
  cur,        \* the call whose callback the timer thread is posting
  fires,      \* history: callbacks each call has had taken for posting
  upc,        \* user call: "idle", "add" (id generated), "done", "failed"
  cres,       \* what the last cancel(c) returned: "none" (not called), "true", "false"
  firesAtCancel, \* history: fires[c] when cancel(c) returned true
  opc,        \* owner: "idle", "running", "s_join", "s_pool", "s_clear"
  starts,     \* start() calls made
  now,        \* units of time passed
  dropped,    \* history: callbacks whose post_task threw
  prun, ptasks, pidle, pholder, pwpc, pcur, pppc, pspc, ptoJoin, pran

timerVars == <<running, stopFlag, queue, cancelled, tpc, cur, fires, upc,
               cres, firesAtCancel, opc, starts, now, dropped>>
poolVars == <<prun, ptasks, pidle, pholder, pwpc, pcur, pppc, pspc, ptoJoin, pran>>
vars == <<timerVars, poolVars>>

Pool == INSTANCE ThreadPool
          WITH N <- PoolSize, Tasks <- Firings, run <- prun, tasks <- ptasks,
               idle <- pidle, holder <- pholder, wpc <- pwpc, cur <- pcur,
               ppc <- pppc, spc <- pspc, toJoin <- ptoJoin, ran <- pran

\* A wait on condition_ returns when the timer thread is notified.
Notify ==
  tpc' = CASE tpc = "waiting" -> "rewake"
           [] tpc = "timed"   -> "loop"
           [] OTHER           -> tpc

\* mutex_ is free unless the timer thread is in its blocking window.
Free == tpc # "blocking"

\* The constructor: make_unique<ThreadPool>(pool_size); nothing running.
Init ==
  /\ running = FALSE
  /\ stopFlag = FALSE
  /\ queue = {}
  /\ cancelled = {}
  /\ tpc = "none"
  /\ cur = None
  /\ fires = [c \in Calls |-> 0]
  /\ upc = [c \in Calls |-> "idle"]
  /\ cres = [c \in Calls |-> "none"]
  /\ firesAtCancel = [c \in Calls |-> 0]
  /\ opc = "idle"
  /\ starts = 0
  /\ now = 0
  /\ dropped = {}
  /\ Pool!Init

\* start(): is_running_.exchange(true) (false if already running),
\* should_stop_ = false, and the timer thread is created.
Start ==
  /\ opc = "idle"
  /\ starts < MaxStarts
  /\ ~running
  /\ running' = TRUE
  /\ stopFlag' = FALSE
  /\ tpc' = "loop"
  /\ opc' = "running"
  /\ starts' = starts + 1
  /\ UNCHANGED <<queue, cancelled, cur, fires, upc, cres, firesAtCancel, now,
                 dropped, poolVars>>

\* stop(): should_stop_ = true and condition_.notify_all(), without mutex_.
StopSignal ==
  /\ opc = "running"
  /\ stopFlag' = TRUE
  /\ Notify
  /\ opc' = "s_join"
  /\ UNCHANGED <<running, queue, cancelled, cur, fires, upc, cres,
                 firesAtCancel, starts, now, dropped, poolVars>>

\* stop(): timer_thread_.join().
StopJoin ==
  /\ opc = "s_join"
  /\ tpc = "exited"
  /\ tpc' = "none"
  /\ opc' = "s_pool"
  /\ UNCHANGED <<running, stopFlag, queue, cancelled, cur, fires, upc, cres,
                 firesAtCancel, starts, now, dropped, poolVars>>

\* stop(): thread_pool_->stop(), which returns at once when the pool was
\* stopped before (its compare_exchange fails).
StopPool ==
  /\ opc = "s_pool"
  /\ \/ (Pool!StopCas \/ Pool!Stopper) /\ UNCHANGED timerVars
     \/ /\ pspc = "stopped"
        /\ opc' = "s_clear"
        /\ UNCHANGED <<running, stopFlag, queue, cancelled, tpc, cur, fires,
                       upc, cres, firesAtCancel, starts, now, dropped, poolVars>>

\* stop(), under mutex_: empty task_queue_ and cancelled_tasks_, then
\* is_running_ = false.
StopClear ==
  /\ opc = "s_clear"
  /\ Free
  /\ queue' = {}
  /\ cancelled' = {}
  /\ running' = FALSE
  /\ opc' = "idle"
  /\ UNCHANGED <<stopFlag, tpc, cur, fires, upc, cres, firesAtCancel, starts,
                 now, dropped, poolVars>>

\* schedule_*: returns -1 unless is_running_; otherwise generates the id
\* and builds the task.
Schedule(c) ==
  /\ upc[c] = "idle"
  /\ upc' = [upc EXCEPT ![c] = IF running THEN "add" ELSE "failed"]
  /\ UNCHANGED <<running, stopFlag, queue, cancelled, tpc, cur, fires, cres,
                 firesAtCancel, opc, starts, now, dropped, poolVars>>

\* add_task under mutex_: push and notify_one; expire_time is now + the
\* interval.
AddTask(c) ==
  /\ upc[c] = "add"
  /\ Free
  /\ queue' = queue \cup {[id |-> c, delay |-> Interval[c], left |-> Count[c]]}
  /\ Notify
  /\ upc' = [upc EXCEPT ![c] = "done"]
  /\ UNCHANGED <<running, stopFlag, cancelled, cur, fires, cres,
                 firesAtCancel, opc, starts, now, dropped, poolVars>>

\* cancel(task_id) under mutex_: false if the id is already in
\* cancelled_tasks_, otherwise insert it and return true. A user may call
\* it again after it returned true.
Cancel(c) ==
  /\ upc[c] = "done"
  /\ cres[c] \in {"none", "true"}
  /\ Free
  /\ IF c \in cancelled
     THEN /\ cres' = [cres EXCEPT ![c] = "false"]
          /\ UNCHANGED <<cancelled, firesAtCancel>>
     ELSE /\ cancelled' = cancelled \cup {c}
          /\ cres' = [cres EXCEPT ![c] = "true"]
          /\ firesAtCancel' = [firesAtCancel EXCEPT ![c] = fires[c]]
  /\ UNCHANGED <<running, stopFlag, queue, tpc, cur, fires, upc, opc, starts,
                 now, dropped, poolVars>>

\* The top of task_queue_: an entry with the earliest expiry.
IsTop(e) == \A f \in queue : e.delay <= f.delay

\* The repeat test as repeat_count >= 1.
ReschedulesOffByOne(e) ==
  Kind[e.id] = "periodic" \/ (Kind[e.id] = "repeat" /\ e.left >= 1)

\* A periodic task, or a repeat task with repeats left, is pushed again.
Reschedules(e) ==
  Kind[e.id] = "periodic" \/ (Kind[e.id] = "repeat" /\ e.left > 1)

\* next_task without repeat_count--.
NextRunNoDecrement(e) == [e EXCEPT !.delay = Interval[e.id]]

\* next_task: expire_time = now + interval, repeat_count decremented.
NextRun(e) ==
  [e EXCEPT !.delay = Interval[e.id],
            !.left = IF Kind[e.id] = "repeat" THEN @ - 1 ELSE @]

\* condition_.wait(lock) in place of wait_for: no timeout.
WaitUntimed ==
  tpc' = "waiting"

\* condition_.wait_for(lock, expire_time - now): release mutex_ and sleep
\* until notified or until the top task is due.
WaitFor ==
  tpc' = "timed"

\* timer_loop with the task pushed again before the cancellation test.
HandleTopRescheduleFirst ==
  \E e \in queue :
    /\ IsTop(e)
    /\ IF e.delay > 0
       THEN WaitFor /\ UNCHANGED <<queue, cancelled, cur, fires>>
       ELSE /\ queue' = (queue \ {e}) \cup (IF Reschedules(e) THEN {NextRun(e)} ELSE {})
            /\ IF e.id \in cancelled
               THEN /\ cancelled' = cancelled \ {e.id}
                    /\ tpc' = "loop"
                    /\ UNCHANGED <<cur, fires>>
               ELSE /\ fires' = [fires EXCEPT ![e.id] = @ + 1]
                    /\ cur' = e.id
                    /\ tpc' = "post1"
                    /\ UNCHANGED cancelled

\* timer_loop on a non-empty queue, under mutex_: wait for the top task if
\* it is not due; otherwise pop it, and either drop it (its id is erased
\* from cancelled_tasks_) or push its next run and go to post its callback.
HandleTop ==
  \E e \in queue :
    /\ IsTop(e)
    /\ IF e.delay > 0
       THEN WaitFor /\ UNCHANGED <<queue, cancelled, cur, fires>>
       ELSE IF e.id \in cancelled
            THEN /\ queue' = queue \ {e}
                 /\ cancelled' = cancelled \ {e.id}
                 /\ tpc' = "loop"
                 /\ UNCHANGED <<cur, fires>>
            ELSE /\ queue' = (queue \ {e}) \cup (IF Reschedules(e) THEN {NextRun(e)} ELSE {})
                 /\ fires' = [fires EXCEPT ![e.id] = @ + 1]
                 /\ cur' = e.id
                 /\ tpc' = "post1"
                 /\ UNCHANGED cancelled

TimerUnchanged == UNCHANGED <<running, stopFlag, upc, cres, firesAtCancel,
                              opc, starts, now, dropped, poolVars>>

\* timer_loop: while (!should_stop_), read without mutex_.
LoopTest ==
  /\ tpc = "loop"
  /\ tpc' = IF stopFlag THEN "exited" ELSE "lock"
  /\ UNCHANGED <<queue, cancelled, cur, fires>>
  /\ TimerUnchanged

\* timer_loop, mutex_ taken: on an empty queue, test the wait predicate
\* should_stop_ || !empty (true here only when stopping, and then break);
\* otherwise handle the top task.
LockTop ==
  /\ tpc = "lock"
  /\ IF queue = {}
     THEN /\ tpc' = IF stopFlag THEN "exited" ELSE "blocking"
          /\ UNCHANGED <<queue, cancelled, cur, fires>>
     ELSE HandleTop
  /\ TimerUnchanged

\* The predicate wait: release mutex_ and block, atomically.
BlockT ==
  /\ tpc = "blocking"
  /\ tpc' = "waiting"
  /\ UNCHANGED <<queue, cancelled, cur, fires>>
  /\ TimerUnchanged

\* Woken from the predicate wait, mutex_ taken again: the predicate, then
\* if (should_stop_) break, then the top task.
Rewake ==
  /\ tpc = "rewake"
  /\ CASE stopFlag -> tpc' = "exited" /\ UNCHANGED <<queue, cancelled, cur, fires>>
       [] queue = {} -> tpc' = "blocking" /\ UNCHANGED <<queue, cancelled, cur, fires>>
       [] OTHER -> HandleTop
  /\ TimerUnchanged

\* wait_for times out when the task it waits for is due; then continue.
TimedOut ==
  /\ tpc = "timed"
  /\ \E e \in queue : e.delay = 0
  /\ tpc' = "loop"
  /\ UNCHANGED <<queue, cancelled, cur, fires>>
  /\ TimerUnchanged

\* A spurious wake-up of either wait.
SpuriousT ==
  /\ tpc \in {"waiting", "timed"}
  /\ tpc' = IF tpc = "waiting" THEN "rewake" ELSE "loop"
  /\ UNCHANGED <<queue, cancelled, cur, fires>>
  /\ TimerUnchanged

\* The pool task for the callback the timer thread is posting.
Posting == <<cur, fires[cur]>>

PostUnchanged == UNCHANGED <<running, stopFlag, queue, cancelled, cur, fires,
                             upc, cres, firesAtCancel, opc, starts, now>>

\* thread_pool_->post_task(callback) after mutex_ is released, as the pool
\* runs it; when it throws (the pool is stopped) the exception is caught,
\* printed, and the callback is lost.
Post1 ==
  /\ tpc = "post1"
  /\ Pool!PostCheck(Posting)
  /\ tpc' = IF prun THEN "post2" ELSE "loop"
  /\ dropped' = IF prun THEN dropped ELSE dropped \cup {Posting}
  /\ PostUnchanged

Post2 ==
  /\ tpc = "post2"
  /\ Pool!PostPush(Posting)
  /\ tpc' = IF prun THEN "post3" ELSE "loop"
  /\ dropped' = IF prun THEN dropped ELSE dropped \cup {Posting}
  /\ PostUnchanged

Post3 ==
  /\ tpc = "post3"
  /\ Pool!PostNotify(Posting)
  /\ tpc' = "loop"
  /\ UNCHANGED dropped
  /\ PostUnchanged

\* One unit of time passes: every expiry comes one unit closer.
Tick ==
  /\ now < MaxTime
  /\ now' = now + 1
  /\ queue' = {[e EXCEPT !.delay = IF @ > 0 THEN @ - 1 ELSE 0] : e \in queue}
  /\ UNCHANGED <<running, stopFlag, cancelled, tpc, cur, fires, upc, cres,
                 firesAtCancel, opc, starts, dropped, poolVars>>

\* A pool worker, as ThreadPool specifies it.
PoolWorker(w) ==
  /\ Pool!Worker(w) \/ Pool!Spurious(w)
  /\ UNCHANGED timerVars

\* The owner has made its last start() and stop() calls.
Finished ==
  /\ opc = "idle"
  /\ starts = MaxStarts
  /\ UNCHANGED vars

TimerThread == LoopTest \/ LockTop \/ BlockT \/ Rewake \/ TimedOut \/ Post1 \/ Post2 \/ Post3
Owner == Start \/ StopSignal \/ StopJoin \/ StopPool \/ StopClear

Next ==
  \/ Owner
  \/ \E c \in Calls : Schedule(c) \/ AddTask(c) \/ Cancel(c)
  \/ TimerThread \/ SpuriousT
  \/ \E w \in 1..PoolSize : PoolWorker(w)
  \/ Tick
  \/ Finished

\* Starting, stopping, scheduling and cancelling are the callers' choice;
\* a call once begun runs on, and so do the timer thread and the pool's
\* workers; time passes. Taking a mutex is strongly fair, as in
\* ThreadPool. Spurious wake-ups are never assumed.
Spec ==
  /\ Init /\ [][Next]_vars
  /\ WF_vars(TimerThread) /\ SF_vars(Post2)
  /\ WF_vars(StopJoin \/ StopPool \/ StopClear)
  /\ \A c \in Calls : SF_vars(AddTask(c))
  /\ \A w \in 1..PoolSize : SF_vars(Pool!WorkerTop(w) /\ UNCHANGED timerVars)
                            /\ WF_vars((Pool!Block(w) \/ Pool!RunTask(w)) /\ UNCHANGED timerVars)
  /\ WF_vars(Tick)

-----------------------------------------------------------------------------

TypeOK ==
  /\ running \in BOOLEAN /\ stopFlag \in BOOLEAN
  /\ \A e \in queue : e.id \in Calls /\ e.delay \in 0..Interval[e.id] /\ e.left \in 1..Count[e.id]
  /\ cancelled \subseteq Calls
  /\ tpc \in {"none", "loop", "lock", "blocking", "waiting", "rewake", "timed",
              "post1", "post2", "post3", "exited"}
  /\ cur \in Calls \cup {None}
  /\ fires \in [Calls -> 0..MaxFires]
  /\ upc \in [Calls -> {"idle", "add", "done", "failed"}]
  /\ cres \in [Calls -> {"none", "true", "false"}]
  /\ opc \in {"idle", "running", "s_join", "s_pool", "s_clear"}
  /\ dropped \subseteq Firings
  /\ Pool!TypeOK

\* Bounded tasks are not overrun: a schedule_once callback is posted at
\* most once and a schedule_repeat callback at most repeat_count times,
\* whatever cancels, restarts and wake-ups interleave.
FiresWithinCount ==
  \A c \in Calls :
    /\ Kind[c] = "once" => fires[c] <= 1
    /\ Kind[c] = "repeat" => fires[c] <= Count[c]

\* A successful cancel is honoured: once cancel(id) has returned true, the
\* timer thread never again takes that task's callback for posting (a
\* callback taken before the cancel may still run).
CancelHonoured ==
  \A c \in Calls : cres[c] = "true" => fires[c] = firesAtCancel[c]

\* A task that has come due is taken off the queue (posted, or dropped as
\* cancelled) unless the timer is being stopped.
Due(c) == \E e \in queue : e.id = c /\ e.delay = 0
DueTasksFire ==
  \A c \in Calls : Due(c) ~> (~Due(c) \/ stopFlag)

\* Every callback the timer takes for running is handed to the pool: a
\* post_task never throws, including after stop() and start() again.
NoCallbackDropped == dropped = {}

\* stop() returns: the timer thread sees should_stop_, is joined, and the
\* pool stops.
TimerStopCompletes == (opc = "s_join") ~> (opc = "idle")

=============================================================================
