----------------------------- MODULE ThreadPool -----------------------------
(***************************************************************************)
(* ThreadPool (src/thread_pool/ThreadPool.hpp): N worker threads taking    *)
(* tasks from tp_tasks_ under tp_mutex_, woken through tp_task_cv_.        *)
(* Actors:                                                                 *)
(*   - one poster thread per task, calling post_task(t);                   *)
(*   - the owner, calling stop() (also what ~ThreadPool runs);             *)
(*   - the workers, running thread_worker().                               *)
(* A task is a model value; what it computes is left out. The mutex is     *)
(* held across steps only by a worker that has evaluated the wait          *)
(* predicate as false and has not yet blocked (tp_task_cv_.wait releases   *)
(* the mutex and blocks atomically); every other critical section is one   *)
(* step that needs the mutex free. A blocked worker wakes on a notify, or  *)
(* spuriously, which the standard allows and never promises.               *)
(***************************************************************************)
EXTENDS Naturals, Sequences, FiniteSets, SequencesExt

CONSTANTS
  N,      \* thread_count passed to the constructor
  Tasks,  \* the tasks posted, one post_task call each
  None    \* no thread holds tp_mutex_

Workers == 1..N

ASSUME N \in 1..64 /\ None \notin Workers

VARIABLES
  run,     \* tp_run_
  tasks,   \* tp_tasks_
  idle,    \* tp_idle_count_
  holder,  \* the thread holding tp_mutex_ across steps, or None
  wpc,     \* worker: "top", "blocking" (predicate false, mutex held),
           \* "waiting" (blocked on tp_task_cv_), "run", "exited"
  cur,     \* the task a worker has taken
  ppc,     \* post_task(t): "idle", "checked", "pushed", "done", "rejected"
  spc,     \* stop(): "idle", "notify", "swap", "join", "stopped"
  toJoin,  \* to_join: the workers stop() still has to join
  ran      \* history: the tasks that have run

vars == <<run, tasks, idle, holder, wpc, cur, ppc, spc, toJoin, ran>>

Free == holder = None

\* notify_one: wakes one blocked worker, if there is one.
NotifyOne ==
  IF \E w \in Workers : wpc[w] = "waiting"
  THEN \E w \in Workers :
         /\ wpc[w] = "waiting"
         /\ wpc' = [wpc EXCEPT ![w] = "top"]
  ELSE UNCHANGED wpc

\* notify_all: wakes every blocked worker.
NotifyAll ==
  wpc' = [w \in Workers |-> IF wpc[w] = "waiting" THEN "top" ELSE wpc[w]]

\* The constructor: tp_run_ = true, then add_threads(N), each new thread
\* counted idle.
Init ==
  /\ run = TRUE
  /\ tasks = <<>>
  /\ idle = N
  /\ holder = None
  /\ wpc = [w \in Workers |-> "top"]
  /\ cur = [w \in Workers |-> None]
  /\ ppc = [t \in Tasks |-> "idle"]
  /\ spc = "idle"
  /\ toJoin = {}
  /\ ran = {}

\* post_task, first test of tp_run_, without the mutex: throws when stopped.
PostCheck(t) ==
  /\ ppc[t] = "idle"
  /\ ppc' = [ppc EXCEPT ![t] = IF run THEN "checked" ELSE "rejected"]
  /\ UNCHANGED <<run, tasks, idle, holder, wpc, cur, spc, toJoin, ran>>

\* post_task with the test under tp_mutex_ left out.
PostPushNoRecheck(t) ==
  /\ ppc[t] = "checked"
  /\ Free
  /\ tasks' = Append(tasks, t)
  /\ ppc' = [ppc EXCEPT ![t] = "pushed"]
  /\ UNCHANGED <<run, idle, holder, wpc, cur, spc, toJoin, ran>>

\* post_task under tp_mutex_: tests tp_run_ again (throws when stopped) and
\* enqueues the task.
PostPush(t) ==
  /\ ppc[t] = "checked"
  /\ Free
  /\ IF run
     THEN /\ tasks' = Append(tasks, t)
          /\ ppc' = [ppc EXCEPT ![t] = "pushed"]
     ELSE /\ ppc' = [ppc EXCEPT ![t] = "rejected"]
          /\ UNCHANGED tasks
  /\ UNCHANGED <<run, idle, holder, wpc, cur, spc, toJoin, ran>>

\* post_task after the mutex is released: tp_task_cv_.notify_one().
PostNotify(t) ==
  /\ ppc[t] = "pushed"
  /\ NotifyOne
  /\ ppc' = [ppc EXCEPT ![t] = "done"]
  /\ UNCHANGED <<run, tasks, idle, holder, cur, spc, toJoin, ran>>

\* thread_worker's exit test reduced to !tp_run_.
WorkerTopExitOnStop(w) ==
  /\ wpc[w] = "top"
  /\ Free
  /\ \/ /\ run /\ tasks = <<>>
        /\ holder' = w
        /\ wpc' = [wpc EXCEPT ![w] = "blocking"]
        /\ UNCHANGED <<tasks, idle, cur>>
     \/ /\ ~run
        /\ wpc' = [wpc EXCEPT ![w] = "exited"]
        /\ UNCHANGED <<tasks, idle, holder, cur>>
     \/ /\ run /\ tasks # <<>>
        /\ cur' = [cur EXCEPT ![w] = Head(tasks)]
        /\ tasks' = Tail(tasks)
        /\ idle' = idle - 1
        /\ wpc' = [wpc EXCEPT ![w] = "run"]
        /\ UNCHANGED holder
  /\ UNCHANGED <<run, ppc, spc, toJoin, ran>>

\* thread_worker without tp_idle_count_.fetch_sub when it takes a task.
WorkerTopNoBusy(w) ==
  /\ wpc[w] = "top"
  /\ Free
  /\ \/ /\ run /\ tasks = <<>>
        /\ holder' = w
        /\ wpc' = [wpc EXCEPT ![w] = "blocking"]
        /\ UNCHANGED <<tasks, cur>>
     \/ /\ ~run /\ tasks = <<>>
        /\ wpc' = [wpc EXCEPT ![w] = "exited"]
        /\ UNCHANGED <<tasks, holder, cur>>
     \/ /\ tasks # <<>>
        /\ cur' = [cur EXCEPT ![w] = Head(tasks)]
        /\ tasks' = Tail(tasks)
        /\ wpc' = [wpc EXCEPT ![w] = "run"]
        /\ UNCHANGED holder
  /\ UNCHANGED <<run, idle, ppc, spc, toJoin, ran>>

\* thread_worker, one pass of the loop under tp_mutex_ (taken at the top of
\* the loop, or again on waking): the wait predicate
\* !tp_run_ || !tp_tasks_.empty(); if it is false, keep the mutex until the
\* wait blocks; if stopped with no tasks, return; otherwise take the front
\* task and count the thread busy.
WorkerTop(w) ==
  /\ wpc[w] = "top"
  /\ Free
  /\ \/ /\ run /\ tasks = <<>>
        /\ holder' = w
        /\ wpc' = [wpc EXCEPT ![w] = "blocking"]
        /\ UNCHANGED <<tasks, idle, cur>>
     \/ /\ ~run /\ tasks = <<>>
        /\ wpc' = [wpc EXCEPT ![w] = "exited"]
        /\ UNCHANGED <<tasks, idle, holder, cur>>
     \/ /\ tasks # <<>>
        /\ cur' = [cur EXCEPT ![w] = Head(tasks)]
        /\ tasks' = Tail(tasks)
        /\ idle' = idle - 1
        /\ wpc' = [wpc EXCEPT ![w] = "run"]
        /\ UNCHANGED holder
  /\ UNCHANGED <<run, ppc, spc, toJoin, ran>>

\* tp_task_cv_.wait: release tp_mutex_ and block, atomically.
Block(w) ==
  /\ wpc[w] = "blocking"
  /\ holder' = None
  /\ wpc' = [wpc EXCEPT ![w] = "waiting"]
  /\ UNCHANGED <<run, tasks, idle, cur, ppc, spc, toJoin, ran>>

\* A spurious wake-up: the wait returns to re-test its predicate.
Spurious(w) ==
  /\ wpc[w] = "waiting"
  /\ wpc' = [wpc EXCEPT ![w] = "top"]
  /\ UNCHANGED <<run, tasks, idle, holder, cur, ppc, spc, toJoin, ran>>

\* task() outside the mutex, then tp_idle_count_.fetch_add(1).
RunTask(w) ==
  /\ wpc[w] = "run"
  /\ ran' = ran \cup {cur[w]}
  /\ idle' = idle + 1
  /\ cur' = [cur EXCEPT ![w] = None]
  /\ wpc' = [wpc EXCEPT ![w] = "top"]
  /\ UNCHANGED <<run, tasks, holder, ppc, spc, toJoin>>

\* stop(): tp_run_.compare_exchange_strong(true, false), without the mutex.
StopCas ==
  /\ spc = "idle"
  /\ run
  /\ run' = FALSE
  /\ spc' = "notify"
  /\ UNCHANGED <<tasks, idle, holder, wpc, cur, ppc, toJoin, ran>>

\* stop(): tp_task_cv_.notify_all(), without the mutex.
StopNotify ==
  /\ spc = "notify"
  /\ NotifyAll
  /\ spc' = "swap"
  /\ UNCHANGED <<run, tasks, idle, holder, cur, ppc, toJoin, ran>>

\* stop(): to_join.swap(tp_pool_) under tp_mutex_.
StopSwap ==
  /\ spc = "swap"
  /\ Free
  /\ toJoin' = Workers
  /\ spc' = "join"
  /\ UNCHANGED <<run, tasks, idle, holder, wpc, cur, ppc, ran>>

\* stop(): t.join() for each thread, in order; returns after the last.
StopJoin ==
  /\ spc = "join"
  /\ LET w == Min(toJoin) IN
       /\ wpc[w] = "exited"
       /\ toJoin' = toJoin \ {w}
       /\ spc' = IF toJoin' = {} THEN "stopped" ELSE "join"
  /\ UNCHANGED <<run, tasks, idle, holder, wpc, cur, ppc, ran>>

\* Every call has returned and every thread is joined.
Finished ==
  /\ spc = "stopped"
  /\ \A t \in Tasks : ppc[t] \in {"done", "rejected"}
  /\ UNCHANGED vars

Poster(t) == PostCheck(t) \/ PostPush(t) \/ PostNotify(t)
Worker(w) == WorkerTop(w) \/ Block(w) \/ RunTask(w)
Stopper == StopNotify \/ StopSwap \/ StopJoin

Next ==
  \/ \E t \in Tasks : Poster(t)
  \/ \E w \in Workers : Worker(w) \/ Spurious(w)
  \/ StopCas \/ Stopper
  \/ Finished

\* Posting and stopping are the caller's choice and never forced; once
\* begun, a call runs on. Workers run on. Taking tp_mutex_ is strongly fair:
\* it is free again after every step but a worker's blocking window, so a
\* thread waiting for it is not passed over for ever. Spurious wake-ups are
\* never assumed.
Spec ==
  /\ Init /\ [][Next]_vars
  /\ \A t \in Tasks : SF_vars(PostPush(t)) /\ WF_vars(PostNotify(t))
  /\ \A w \in Workers : SF_vars(WorkerTop(w)) /\ WF_vars(Block(w) \/ RunTask(w))
  /\ SF_vars(StopSwap) /\ WF_vars(StopNotify \/ StopJoin)

-----------------------------------------------------------------------------

TypeOK ==
  /\ run \in BOOLEAN
  /\ tasks \in Seq(Tasks)
  /\ idle \in 0..N
  /\ holder \in Workers \cup {None}
  /\ wpc \in [Workers -> {"top", "blocking", "waiting", "run", "exited"}]
  /\ cur \in [Workers -> Tasks \cup {None}]
  /\ ppc \in [Tasks -> {"idle", "checked", "pushed", "done", "rejected"}]
  /\ spc \in {"idle", "notify", "swap", "join", "stopped"}
  /\ toJoin \subseteq Workers
  /\ ran \subseteq Tasks

\* stop() drains the pool: when it returns, every task post_task accepted
\* has run (workers leave thread_worker only once tp_tasks_ is empty).
StopDrains ==
  spc = "stopped" => {t \in Tasks : ppc[t] \in {"pushed", "done"}} \subseteq ran

\* Every task post_task accepted (enqueued without throwing) eventually
\* runs, whatever the interleaving with the workers' waits and with stop().
AcceptedTasksRun ==
  \A t \in Tasks : (ppc[t] = "pushed") ~> (t \in ran)

\* stop(), once it has cleared tp_run_, returns: every worker wakes, sees
\* the flag and is joined.
StopCompletes ==
  (spc = "notify") ~> (spc = "stopped")

=============================================================================
