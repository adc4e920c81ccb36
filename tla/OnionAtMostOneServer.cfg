SPECIFICATION Spec
CONSTANTS
  Node = {n1, n2}
  None = None
  FailoverAfter = 3
  Faults = {}
  MaxFaults = 1
INVARIANT AtMostOneServer
