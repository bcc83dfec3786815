CONSTANTS
  a = a
  b = b
  u1 = u1
  u2 = u2
  c1 = c1
  c2 = c2
  m1 = m1
  m2 = m2
  None = None
  Names <- MCNames2
  UUIDs <- MCUUIDs
  Cfgs <- MCCfgs
  Macs <- MCMacs
  Playbooks <- MCPlaybooks2
  InitHosts <- MCHosts2
  MaxFaults = 1
  MaxMeddle = 1
SPECIFICATION FairSpec
PROPERTIES
  OnlyAsked
  Converges
