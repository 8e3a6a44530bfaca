------------------------------- MODULE Logger -------------------------------
(***************************************************************************)
(* logger::Logger (src/logger/logger.cpp): the process-wide logger with    *)
(* its asynchronous writer thread, as the sample server uses it           *)
(* (src/tests/src/httpServer.cpp: async = true; initialize, log from many *)
(* threads, shutdown, exit). Actors:                                      *)
(*   - Producers call write(): check initialized_, then route the line to *)
(*     the queue (async_ and log_queue_ set) or write it synchronously;   *)
(*   - the writer thread runs async_write_thread();                       *)
(*   - the main thread calls initialize(), shutdown(), and finally exits  *)
(*     the process, which runs ~Logger().                                 *)
(* The queue is the bounded FIFO that LogQueue is shown to implement      *)
(* (MC_LogQueue.cfg), so it is a sequence here; push(log, 100) on a full  *)
(* queue times out and the line goes to stdout. A line is <<p, k>>, the   *)
(* k-th line of producer p; formatting and levels are left out (every     *)
(* line passes the level filter). sync_write runs under file_mutex_ and   *)
(* is one step; opening a log file may fail (directory not writable) and *)
(* the day may change, both chosen freely.                                *)
(***************************************************************************)
EXTENDS Naturals, Sequences, SequencesExt

CONSTANTS
  Producers,  \* threads that log
  MaxMsgs,    \* lines each producer writes
  QCap,       \* queue_capacity
  MaxLines,   \* max_lines_ (0: no rotation by size)
  MaxInits    \* calls of initialize() by the main thread

VARIABLES
  init,      \* initialized_
  sreq,      \* shutdown_requested_
  async,     \* async_
  qAlive,    \* log_queue_ is non-null
  q,         \* the queue's items
  wpc,       \* writer thread: "none" (no std::thread), "loop", "drain", "exited"
  fileOpen,  \* file_ is non-null
  lines,     \* line_count_
  written,   \* lines written to log files, in order
  out,       \* lines written to stdout instead
  ppc,       \* producer: "idle", "checked" (passed initialized_), "push"
  sent,      \* lines each producer has issued
  early,     \* lines the queue accepted before the current shutdown was requested
  apc,       \* main thread: "down", "up", "s_join", "s_close", "s_reset", "s_clear", "gone"
  inits,     \* initialize() calls made
  crashed    \* how the process aborted: "null_queue" (push through a reset
             \* log_queue_), "terminate" (a joinable std::thread destroyed)

fileVars == <<fileOpen, lines, written, out>>
vars == <<init, sreq, async, qAlive, q, wpc, fileOpen, lines, written, out,
          ppc, sent, early, apc, inits, crashed>>

Msg(p) == <<p, sent[p] + 1>>
Lines == Producers \X (1..MaxMsgs)
Delivered == ToSet(written) \cup out

-----------------------------------------------------------------------------

\* sync_write's test for a new file: none is open, the line count reached
\* max_lines_, or the day of the year changed.
NeedNewFile(dayChanged) ==
  ~fileOpen \/ (MaxLines > 0 /\ lines >= MaxLines) \/ dayChanged

\* create_new_log_file: closes the current file, scans the directory for
\* the next index and opens that file (line_count_ = 0); when the open (or
\* create_directories) fails, file_ is left null.
CreateNewLogFile(ok) ==
  fileOpen' = ok

\* fwrite of one line to file_ and ++line_count_, counting on from base.
AppendLine(m, base) ==
  /\ lines' = base + 1
  /\ written' = Append(written, m)
  /\ UNCHANGED out

\* sync_write(log), under file_mutex_: a line that cannot get a new file
\* goes to stdout.
SyncWrite(m) ==
  \E dayChanged, ok \in BOOLEAN :
    IF NeedNewFile(dayChanged)
    THEN /\ CreateNewLogFile(ok)
         /\ IF ok THEN AppendLine(m, 0)
                  ELSE /\ out' = out \cup {m}
                       /\ UNCHANGED <<lines, written>>
    ELSE /\ UNCHANGED fileOpen
         /\ AppendLine(m, lines)

\* initialize(config) with config.async: creates the queue and the writer
\* thread (thread creation may throw: async_ off, queue dropped), then the
\* first log file; if that fails it returns false with initialized_ still
\* false. Assigning a new std::thread over one that is still joinable
\* calls std::terminate; when the thread constructor throws, nothing is
\* assigned and the old thread is left alone.
Initialize ==
  /\ apc = "down"
  /\ ~init
  /\ inits < MaxInits
  /\ inits' = inits + 1
  /\ \E threadOk, openOk \in BOOLEAN :
       /\ crashed' = IF threadOk /\ wpc # "none"
                       THEN crashed \cup {"terminate"} ELSE crashed
       /\ async' = threadOk
       /\ qAlive' = threadOk
       /\ q' = <<>>
       /\ wpc' = IF threadOk THEN "loop" ELSE wpc
       /\ CreateNewLogFile(openOk)
       /\ lines' = IF openOk THEN 0 ELSE lines
       /\ init' = openOk
       /\ apc' = IF openOk THEN "up" ELSE "down"
  /\ UNCHANGED <<sreq, written, out, ppc, sent, early>>

\* shutdown(): returns at once unless initialized_; sets
\* shutdown_requested_, notifies the queue and waits (at most 1 s) for it
\* to empty, which changes no state, then joins the writer thread.
ShutdownStart ==
  /\ apc = "up"
  /\ sreq' = TRUE
  /\ apc' = "s_join"
  /\ UNCHANGED <<init, async, qAlive, q, wpc, fileVars, ppc, sent, early, inits, crashed>>

\* async_thread_->join(); async_thread_.reset().
ShutdownJoin ==
  /\ apc = "s_join"
  /\ wpc \in {"none", "exited"}
  /\ wpc' = "none"
  /\ apc' = "s_close"
  /\ UNCHANGED <<init, sreq, async, qAlive, q, fileVars, ppc, sent, early, inits, crashed>>

\* fflush and fclose the file under file_mutex_.
ShutdownClose ==
  /\ apc = "s_close"
  /\ fileOpen' = FALSE
  /\ apc' = "s_reset"
  /\ UNCHANGED <<init, sreq, async, qAlive, q, wpc, lines, written, out, ppc, sent, early, inits, crashed>>

\* log_queue_.reset(): the queue and any line still in it are destroyed.
ShutdownReset ==
  /\ apc = "s_reset"
  /\ qAlive' = FALSE
  /\ q' = <<>>
  /\ apc' = "s_clear"
  /\ UNCHANGED <<init, sreq, async, wpc, fileVars, ppc, sent, early, inits, crashed>>

\* initialized_ = false; shutdown_requested_ = false.
ShutdownClear ==
  /\ apc = "s_clear"
  /\ init' = FALSE
  /\ sreq' = FALSE
  /\ apc' = "down"
  /\ early' = {}
  /\ UNCHANGED <<async, qAlive, q, wpc, fileVars, ppc, sent, inits, crashed>>

\* main returns: ~Logger() calls shutdown(), which returns at once when
\* initialized_ is false; then ~unique_ptr<std::thread> destroys a thread
\* that is still joinable, which calls std::terminate.
Exit ==
  /\ apc = "down"
  /\ crashed' = IF wpc # "none" THEN crashed \cup {"terminate"} ELSE crashed
  /\ apc' = "gone"
  /\ UNCHANGED <<init, sreq, async, qAlive, q, wpc, fileVars, ppc, sent, early, inits>>

-----------------------------------------------------------------------------

\* write(): if (!initialized_) return; the line is dropped.
WriteCheck(p) ==
  /\ ppc[p] = "idle"
  /\ sent[p] < MaxMsgs
  /\ IF init
     THEN /\ ppc' = [ppc EXCEPT ![p] = "checked"]
          /\ UNCHANGED sent
     ELSE /\ sent' = [sent EXCEPT ![p] = @ + 1]
          /\ UNCHANGED ppc
  /\ UNCHANGED <<init, sreq, async, qAlive, q, wpc, fileVars, early, apc, inits, crashed>>

\* write(): async_ with a queue goes on to push; otherwise sync_write.
WriteRoute(p) ==
  /\ ppc[p] = "checked"
  /\ IF async /\ qAlive
     THEN /\ ppc' = [ppc EXCEPT ![p] = "push"]
          /\ UNCHANGED <<fileVars, sent>>
     ELSE /\ SyncWrite(Msg(p))
          /\ ppc' = [ppc EXCEPT ![p] = "idle"]
          /\ sent' = [sent EXCEPT ![p] = @ + 1]
  /\ UNCHANGED <<init, sreq, async, qAlive, q, wpc, early, apc, inits, crashed>>

\* push's timeout fallback writing the line synchronously to the log file.
WritePushSyncFallback(p) ==
  /\ ppc[p] = "push"
  /\ \/ /\ ~qAlive
        /\ crashed' = crashed \cup {"null_queue"}
        /\ UNCHANGED <<q, early, fileVars>>
     \/ /\ qAlive
        /\ Len(q) < QCap
        /\ q' = Append(q, Msg(p))
        /\ early' = IF sreq THEN early ELSE early \cup {Msg(p)}
        /\ UNCHANGED <<fileVars, crashed>>
     \/ /\ qAlive
        /\ Len(q) = QCap
        /\ SyncWrite(Msg(p))
        /\ UNCHANGED <<q, early, crashed>>
  /\ ppc' = [ppc EXCEPT ![p] = "idle"]
  /\ sent' = [sent EXCEPT ![p] = @ + 1]
  /\ UNCHANGED <<init, sreq, async, qAlive, wpc, apc, inits>>

\* push with the wait for size_ < capacity_ dropped.
WritePushNoCap(p) ==
  /\ ppc[p] = "push"
  /\ \/ /\ ~qAlive
        /\ crashed' = crashed \cup {"null_queue"}
        /\ UNCHANGED <<q, out, early>>
     \/ /\ qAlive
        /\ q' = Append(q, Msg(p))
        /\ early' = IF sreq THEN early ELSE early \cup {Msg(p)}
        /\ UNCHANGED <<out, crashed>>
  /\ ppc' = [ppc EXCEPT ![p] = "idle"]
  /\ sent' = [sent EXCEPT ![p] = @ + 1]
  /\ UNCHANGED <<init, sreq, async, qAlive, wpc, fileOpen, lines, written, apc, inits>>

\* write(): log_queue_->push(log, 100), reading log_queue_ again; a null
\* pointer here crashes; a full queue times out and the line goes to
\* stdout.
WritePush(p) ==
  /\ ppc[p] = "push"
  /\ \/ /\ ~qAlive
        /\ crashed' = crashed \cup {"null_queue"}
        /\ UNCHANGED <<q, out, early>>
     \/ /\ qAlive
        /\ Len(q) < QCap
        /\ q' = Append(q, Msg(p))
        /\ early' = IF sreq THEN early ELSE early \cup {Msg(p)}
        /\ UNCHANGED <<out, crashed>>
     \/ /\ qAlive
        /\ Len(q) = QCap
        /\ out' = out \cup {Msg(p)}
        /\ UNCHANGED <<q, early, crashed>>
  /\ ppc' = [ppc EXCEPT ![p] = "idle"]
  /\ sent' = [sent EXCEPT ![p] = @ + 1]
  /\ UNCHANGED <<init, sreq, async, qAlive, wpc, fileOpen, lines, written, apc, inits>>

-----------------------------------------------------------------------------

\* async_write_thread: while (!shutdown_requested_) pop(log, 100) and
\* sync_write it; nothing else writes the file meanwhile, so the pop and
\* the write are one step.
AsyncLoop ==
  /\ wpc = "loop"
  /\ ~sreq
  /\ qAlive
  /\ q # <<>>
  /\ SyncWrite(Head(q))
  /\ q' = Tail(q)
  /\ UNCHANGED <<init, sreq, async, qAlive, wpc, ppc, sent, early, apc, inits, crashed>>

\* The loop ends once shutdown_requested_ is seen and the thread stops
\* without draining what is left.
AsyncStopNoDrain ==
  /\ wpc = "loop"
  /\ sreq
  /\ wpc' = "exited"
  /\ UNCHANGED <<init, sreq, async, qAlive, q, fileVars, ppc, sent, early, apc, inits, crashed>>

\* The loop ends once shutdown_requested_ is seen.
AsyncStop ==
  /\ wpc = "loop"
  /\ sreq
  /\ wpc' = "drain"
  /\ UNCHANGED <<init, sreq, async, qAlive, q, fileVars, ppc, sent, early, apc, inits, crashed>>

\* Before exiting: while (pop(log, 0)) sync_write(log).
AsyncDrain ==
  /\ wpc = "drain"
  /\ qAlive
  /\ q # <<>>
  /\ SyncWrite(Head(q))
  /\ q' = Tail(q)
  /\ UNCHANGED <<init, sreq, async, qAlive, wpc, ppc, sent, early, apc, inits, crashed>>

\* The non-blocking pop finds the queue empty: the thread function returns.
AsyncExit ==
  /\ wpc = "drain"
  /\ ~qAlive \/ q = <<>>
  /\ wpc' = "exited"
  /\ UNCHANGED <<init, sreq, async, qAlive, q, fileVars, ppc, sent, early, apc, inits, crashed>>

-----------------------------------------------------------------------------

Init ==
  /\ init = FALSE
  /\ sreq = FALSE
  /\ async = FALSE
  /\ qAlive = FALSE
  /\ q = <<>>
  /\ wpc = "none"
  /\ fileOpen = FALSE
  /\ lines = 0
  /\ written = <<>>
  /\ out = {}
  /\ ppc = [p \in Producers |-> "idle"]
  /\ sent = [p \in Producers |-> 0]
  /\ early = {}
  /\ apc = "down"
  /\ inits = 0
  /\ crashed = {}

\* The process has exited and every producer is done.
Finished ==
  /\ apc = "gone"
  /\ \A p \in Producers : ppc[p] = "idle" /\ sent[p] = MaxMsgs
  /\ UNCHANGED vars

Next ==
  \/ Initialize \/ ShutdownStart \/ ShutdownJoin \/ ShutdownClose
  \/ ShutdownReset \/ ShutdownClear \/ Exit
  \/ \E p \in Producers : WriteCheck(p) \/ WriteRoute(p) \/ WritePush(p)
  \/ AsyncLoop \/ AsyncStop \/ AsyncDrain \/ AsyncExit
  \/ Finished

Spec == Init /\ [][Next]_vars

-----------------------------------------------------------------------------

TypeOK ==
  /\ init \in BOOLEAN /\ sreq \in BOOLEAN /\ async \in BOOLEAN
  /\ qAlive \in BOOLEAN /\ fileOpen \in BOOLEAN
  /\ crashed \subseteq {"null_queue", "terminate"}
  /\ q \in Seq(Lines) /\ Len(q) <= QCap
  /\ wpc \in {"none", "loop", "drain", "exited"}
  /\ lines \in 0..MaxLines + 1
  /\ written \in Seq(Lines)
  /\ out \subseteq Lines
  /\ ppc \in [Producers -> {"idle", "checked", "push"}]
  /\ sent \in [Producers -> 0..MaxMsgs]
  /\ early \subseteq Lines
  /\ apc \in {"down", "up", "s_join", "s_close", "s_reset", "s_clear", "gone"}
  /\ inits \in 0..MaxInits

\* Shutdown drains the queue (spec: "shutdown drains an in-memory queue,
\* then closes the backing file"): once shutdown() has joined the writer
\* thread, every line the queue accepted before shutdown_requested_ was set
\* has been written, to a log file or, if none could be opened, to stdout.
DrainedOnShutdown ==
  apc \in {"s_close", "s_reset", "s_clear"} => early \subseteq Delivered

\* Each producer's lines reach the log files in the order it wrote them,
\* whether they went through the queue and the writer thread or were
\* written synchronously once the queue was gone.
FileOrderPerProducer ==
  \A i, j \in 1..Len(written) :
    (i < j /\ written[i][1] = written[j][1]) => written[i][2] < written[j][2]

\* A write() racing shutdown() never pushes through the log_queue_ that
\* shutdown() has just reset (it read log_queue_ as non-null in one
\* expression and pushes through it in the next).
NoQueueUseAfterReset == "null_queue" \notin crashed

\* The writer thread is always joined before its std::thread is destroyed
\* or replaced, including when initialize() fails after starting it and
\* the program gives up (httpServer.cpp returns 1 from main).
NoJoinableThreadDestroyed == "terminate" \notin crashed

=============================================================================
