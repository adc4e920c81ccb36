SPECIFICATION FairSpec
CONSTANTS
  Node = {n1, n2}
  Endpoint = {e1, e2}
  Room = {r1}
  LongRoom = {}
  Public = {}
  KnowsSelf = {n1, n2}
  Attempts = 1
  NoPayload = NoPayload
  None = None
  Faults = {"duplicate", "restart", "announce"}
  MaxFaults = 1
PROPERTIES Configures PunchersStop
