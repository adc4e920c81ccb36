SPECIFICATION FairSpec
CONSTANTS
  Endpoint = {e1, e2}
  Tx = {t1, t2, t3}
  Servers = 2
  Dead = {1}
  None = None
  Panic = Panic
  Rewritten = eMiddlebox
  Unpadded = Unpadded
  MaxAttrs = 3
  Faults = {"lose", "duplicate", "late", "rebind", "bad", "odd"}
  MaxFaults = 4
INVARIANTS TypeOK TableIsRunningQuery ResultIsRecent OnlyUnpaddedOverruns
PROPERTY FindsAddress
CHECK_DEADLOCK FALSE
