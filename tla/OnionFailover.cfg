SPECIFICATION FairSpec
CONSTANTS
  Node = {n1, n2}
  None = None
  FailoverAfter = 3
  Faults = {"net", "start", "torDies", "crash", "signal"}
  MaxFaults = 2
INVARIANTS TypeOK OneThreadStarts ServerHasRegistry TorHasRegistry
PROPERTY FailoverHappens
