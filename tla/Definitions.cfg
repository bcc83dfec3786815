CONSTANTS
  slashed = slashed
  br0 = br0
  br1 = br1
  eth0 = eth0
  junk = junk
  mask = mask
  None = None
  Empty = Empty
  BadNames <- MCBadNames
  Addresses <- MCAddresses
  Netmasks <- MCNetmasks
  Macs <- MCMacs
  Sites <- MCSites
  Parts <- MCParts
  Base <- MCBase
  Letters <- MCLetters
SPECIFICATION Spec
INVARIANTS
  TypeOK
  VlansCarried
  DhcpCarried
  ForwardersCarried
  DisksMade
  OwnVolumes
