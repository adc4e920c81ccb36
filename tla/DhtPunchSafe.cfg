SPECIFICATION Spec
CONSTANTS
  Node = {n1, n2}
  Endpoint = {e1, e2, e3}
  Room = {r1, r2}
  LongRoom = {r2}
  Public = {}
  KnowsSelf = {n1, n2}
  Attempts = 1
  NoPayload = NoPayload
  None = None
  Faults = {"lose", "duplicate", "expire", "rebind", "restart", "announce", "ipc"}
  MaxFaults = 1
INVARIANTS TypeOK NeverConfirmsItself DeviceIsRoomMember
PROPERTY ImplementsTwoWayPath
SYMMETRY EndpointSymmetry
