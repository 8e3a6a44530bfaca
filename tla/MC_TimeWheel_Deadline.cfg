CONSTANTS
  c1 = c1
  c2 = c2
  Conns <- MCConns
  CloseConns <- MCNoCloseConns
  Fds = {5}
  W = 3
  TN = 2
  AgeCap = 4
  MaxActivity = 2
SPECIFICATION Spec
CONSTRAINT AddWithinTick
PROPERTIES
  IdleRefinement
