\* A one-shot task and a task repeated twice, three units of time (the
\* repeat is due three times), one pool worker, and the timer started twice.
CONSTANTS
  c1 = c1
  c2 = c2
  None = None
  Calls <- MCCalls
  Kind <- MCKind
  Interval <- MCInterval
  Count <- MCCount
  PoolSize = 1
  MaxFires = 3
  MaxTime = 3
  MaxStarts = 2
SPECIFICATION Spec
INVARIANTS TypeOK FiresWithinCount CancelHonoured
PROPERTIES DueTasksFire
