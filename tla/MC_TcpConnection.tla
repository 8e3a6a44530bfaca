-------------------------- MODULE MC_TcpConnection --------------------------
(* Model-checking instance of TcpConnection: one connection, messages of  *)
(* two units against a one-unit kernel buffer so that every send is a     *)
(* partial write that spills into output_buf_.                            *)
EXTENDS TcpConnection

CONSTANTS t1, t2, acc, loop

\* Two application threads, for the checks that need sends of two
\* non-loop threads in one batch.
MCThreads == {t1, t2}

\* One application thread: with the loop's own reply from on_message it is
\* the second sender, and with the acceptor the second thread queueing
\* functors.
MCThreads1 == {t1}
====
