CONSTANTS
  a = a
  b = b
  u1 = u1
  u2 = u2
  p1 = p1
  p2 = p2
  f1 = f1
  f2 = f2
  None = None
  Names <- MCNames
  UUIDs <- MCUUIDs
  Cfgs <- MCPaths
  Images <- MCImages
  UndefinesActive = FALSE
  StoragePools <- MCStoragePools
  ImagePool = a
  BaseImages <- MCImages
  UserPlays <- MCUserPlays
  InitHosts <- MCHosts
  InitDisks <- MCDisks
  MaxFaults = 1
  MaxMeddle = 1
SPECIFICATION RolesSpec
INVARIANT
  VolumesRegistered
