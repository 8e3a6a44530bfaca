---------------------------- MODULE MC_ThreadPool ----------------------------
EXTENDS ThreadPool

CONSTANTS t1, t2

MCTasks == {t1, t2}

=============================================================================
