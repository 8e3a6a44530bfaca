CONSTANTS
  c1 = c1
  c2 = c2
  c3 = c3
  o1 = o1
  Clients <- MCClients
  Others <- MCOthers
  MaxFds = 4
  MaxErrors = 1
  MaxOpens = 2
SPECIFICATION Spec
INVARIANTS
  TypeOK
PROPERTIES
  ClientsServed
