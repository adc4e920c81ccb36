SPECIFICATION FairSpec
CONSTANTS
  p1 = p1
  p2 = p2
  r1 = r1
  r2 = r2
  r3 = r3
  k1 = k1
  k2 = k2
  wg0 = wg0
  wg1 = wg1
  file0 = file0
  file1 = file1
  Unset = Unset
  Blank = Blank
  Junk = Junk
  None = None
  Proc = {p1, p2}
  Shells <- SomeShells
  EnvFiles <- SomeEnvFiles
  Confs <- SomeConfs
  DefaultRoom = r0
  DefaultPort = 51820
  DefaultIface = wg0
  DefaultKeyFile = file0
  Torn = Torn
  Stale = Stale
  Faults = {"kill", "read", "store", "step"}
  MaxFaults = 2
INVARIANTS TypeOK SettingsHold IdentityKept UapiIsOwn
PROPERTY ComesUp
CHECK_DEADLOCK FALSE
