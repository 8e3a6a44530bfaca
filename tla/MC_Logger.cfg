\* Two producers with two lines each, a one-slot queue (so pushes time
\* out), rotation after one line, and two initialize() calls (restart).
CONSTANTS
  p1 = p1
  p2 = p2
  Producers <- MCProducers
  MaxMsgs = 2
  QCap = 1
  MaxLines = 1
  MaxInits = 2
SPECIFICATION Spec
INVARIANTS TypeOK DrainedOnShutdown FileOrderPerProducer
