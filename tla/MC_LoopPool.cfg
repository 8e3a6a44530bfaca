\* Two worker loops and three connections: the round robin wraps, both
\* loops hold connections when the server stops, and a worker can be at
\* any point of run_in_thread when start() or stop() runs.
CONSTANTS
  c1 = c1
  c2 = c2
  c3 = c3
  Conns <- MCConns
  N = 2
SPECIFICATION Spec
INVARIANTS TypeOK NoWorkerMissesItsLoop RoundRobinBalanced
