\* Two workers and two tasks posted concurrently with stop().
CONSTANTS
  t1 = t1
  t2 = t2
  Tasks <- MCTasks
  None = None
  N = 2
SPECIFICATION Spec
INVARIANTS TypeOK StopDrains
PROPERTIES AcceptedTasksRun
