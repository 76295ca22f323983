SPECIFICATION McpSpec
CONSTANTS
  None = None
  Shared = Shared
  alice = alice
  bob = bob
  v1 = v1
  v2 = v2
  v3 = v3
  t1 = t1
  t2 = t2
  Sessions = {s1, s2}
  Clients <- MCClients
  Servers <- MCServers
  Threads <- MCThreads
  ClientOf <- MCClientOf
  ThreadsOf <- MCThreadsOf
SYMMETRY Symmetry
INVARIANTS
  McpTypeOK
  CallsStayWithTheirClient
  ThreadRestoresItsOwnSession
PROPERTIES
  ServerKeepsItsSession
