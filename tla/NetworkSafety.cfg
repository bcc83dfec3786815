CONSTANTS
  a = a
  b = b
  u1 = u1
  u2 = u2
  d1 = d1
  d2 = d2
  None = None
  Names <- MCNames
  UUIDs <- MCUUIDs
  Cfgs <- MCCfgs
  UndefinesActive = TRUE
  Playbooks <- MCPlaybooks
  InitHosts <- MCHosts
  MaxFaults = 1
  MaxMeddle = 1
SPECIFICATION FairSpec
INVARIANTS
  TypeOK
  Idempotent
PROPERTIES
  Promised
  CheckInert
  Converges
