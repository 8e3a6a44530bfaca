\* The base loop with no I/O threads: three clients on three descriptor
\* numbers, so a connection accepted after a close reuses its number,
\* possibly in the middle of the batch that closed it.
CONSTANTS
  c1 = c1
  c2 = c2
  c3 = c3
  Clients <- MCClients
  ConnFds = {5, 6, 7}
  WakeFd = 3
  ListenFd = 4
SPECIFICATION Spec
INVARIANTS
  TypeOK
  RegistryConsistent
  NoSpuriousClose
PROPERTIES
  ClosedPeersReleased
