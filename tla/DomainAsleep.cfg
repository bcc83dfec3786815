CONSTANTS
  a = a
  b = b
  u1 = u1
  u2 = u2
  c1 = c1
  c2 = c2
  m1 = m1
  m2 = m2
  None = None
  Names <- MCNames1
  UUIDs <- MCUUIDs
  Cfgs <- MCCfgs
  Macs <- MCMacs
  Playbooks <- MCPlaybooks1
  InitHosts <- MCHosts1
  MaxFaults = 0
  MaxMeddle = 0
SPECIFICATION Spec
INVARIANT
  RunningRuns
