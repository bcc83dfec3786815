CONSTANTS
  None = None
  Empty = Empty
  Units <- MCUnits
  Services <- MCServices
  SocketsOf <- MCSocketsOf
  RemoteOf <- MCRemoteOf
  Bound <- MCBound
  Also <- MCAlso
  Settings <- MCSettings
  Modern = TRUE
  Dependents = {"storage"}
  UserPlays <- MCUserPlays
  InitHosts <- MCHosts
  MaxFaults = 0
  MaxMeddle = 1
  MaxTrouble = 1
SPECIFICATION Spec
INVARIANT
  DisableStops
