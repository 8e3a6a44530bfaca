CONSTANTS
  t1 = t1
  t2 = t2
  acc = acc
  loop = loop
  Threads <- MCThreads
  Acceptor = acc
  Loop = loop
  MsgLen = 2
  SockCap = 1
  OutCap = 2
  MaxSends = 1
  MaxShutdowns = 1
  MaxPeerUnits = 1
SPECIFICATION Spec
PROPERTIES
  PeerCloseTearsDown
