\* Two connections (one of them may be closed) on a wheel of two slots
\* with a two-tick idle timeout: entries wrap, move on activity, expire
\* and are cleaned up. Small enough for the liveness check.
CONSTANTS
  c1 = c1
  c2 = c2
  Conns <- MCConns
  CloseConns <- MCCloseConns
  Fds = {5}
  W = 2
  TN = 2
  AgeCap = 3
  MaxActivity = 1
SPECIFICATION Spec
INVARIANTS
  TypeOK
  

  
