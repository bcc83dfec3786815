CONSTANTS
  base = base
  os = os
  data = data
  seed = seed
  os2 = os2
  seed2 = seed2
  x = x
  v1 = v1
  v2 = v2
  i1 = i1
  i2 = i2
  None = None
  VolNames <- MCVolNames
  Caps <- MCCaps
  PoolIds <- MCPoolIds
  IsoSize = 1
  Names <- MCNames
  VMs <- MCVMs
  UserPlays <- MCUserPlays
  Letters = 1
  InitVols <- MCVols
  InitPools <- MCPools
  MaxFaults = 1
  MaxMeddle = 1
SPECIFICATION FairSpec
INVARIANTS
  TypeOK
  EntryExact
  PlayIdempotent
PROPERTIES
  GuestDataKept
  FirstBoot
  Completes
