SPECIFICATION FairSpec
CONSTANTS
  n1 = n1
  n2 = n2
  e1 = e1
  e2 = e2
  Node = {n1, n2}
  Endpoint = {e1, e2}
  FirstHosts <- AnyHost
  Home <- TwoHomes
  Lan <- OneLan
  None = None
  TTL = 2
  Backlog <- NoneSlow
  Faults = {"net", "ipc", "restart", "split"}
  MaxFaults = 1
PROPERTY PeersMeet
