SPECIFICATION FairSpec
CONSTANTS
  Relay = {r1, r2}
  Endpoint = {e1, e2}
  Home = e1
  None = None
  Cooldown = 2
  SubLife = 2
  Faults = {"publish", "sub", "ipc", "rebind", "restart", "cutoff", "republish"}
  MaxFaults = 2
INVARIANTS TypeOK ConfiguredIsDevice OneGoroutine
PROPERTY FollowsPublisher
