SPECIFICATION Spec
CONSTANTS
  n1 = n1
  n2 = n2
  e1 = e1
  e2 = e2
  Node = {n1, n2}
  Endpoint = {e1, e2, e3}
  FirstHosts <- OneHost
  Home <- TwoHomes
  Lan <- NoLan
  None = None
  TTL = 1
  Backlog <- OneSlow
  Faults = {"net", "ipc", "rebind", "restart", "split"}
  MaxFaults = 1
INVARIANTS TypeOK ConfiguredUnlessOverlap InstalledOnce
