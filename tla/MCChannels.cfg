SPECIFICATION Spec
CONSTANTS
  u1 = u1
  u2 = u2
  http = http
  Urls <- MCUrls
  BadUrls <- MCBadUrls
  Settings <- MCSettings
  FirstFiles <- MCFirstFiles
  MaxChannels = 2
  MaxId = 3
  MaxCell = 3
  MaxLag = 1
INVARIANTS
  PlacesAreDistinct
  RestartKeepsChannels
  ConnectionFollowsConfig
PROPERTIES
  LaterFileIsKept
  ConnectionsAreLeftAlone
