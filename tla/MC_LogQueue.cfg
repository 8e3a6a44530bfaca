\* The ring buffer against the bounded FIFO: three slots, so front_ and
\* rear_ wrap, and batches of up to two.
CONSTANTS
  i1 = i1
  i2 = i2
  Items <- MCItems
  Blank = Blank
  Cap = 3
  MaxBatch = 2
  Debug = FALSE
SPECIFICATION Spec
INVARIANTS TypeOK
PROPERTIES FifoRefinement
