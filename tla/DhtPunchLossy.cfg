SPECIFICATION FairSpec
CONSTANTS
  Node = {n1, n2}
  Endpoint = {e1, e2}
  Room = {r1}
  LongRoom = {}
  Public = {}
  KnowsSelf = {n1, n2}
  Attempts = 2
  NoPayload = NoPayload
  None = None
  Faults = {"lose"}
  MaxFaults = 1
PROPERTY OneSideConfigures
