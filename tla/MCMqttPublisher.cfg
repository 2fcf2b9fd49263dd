CONSTANTS
  EntityCount = 3
  StageTimeout = 1
  ReconnectBack = 2
  Keepalive = 3
  PublishInterval = 5
  KeepaliveTold = 4
  MaxFaults = 3
SPECIFICATION Spec
INVARIANT TypeOK
INVARIANT AnnouncedWhole
INVARIANT KeepaliveKept
PROPERTY VanishedNoticed
PROPERTY AvailabilityTrue
