SPECIFICATION FairSpec
CONSTANTS
  a1 = a1  a2 = a2  b1 = b1
  u1 = u1  u2 = u2  u3 = u3
  w1 = w1  w2 = w2  w3 = w3
  FileIds = {a1}
  Uploads = {u1}
  Owner <- MCOwner
  SafeName <- MCSafeName
  Metas <- OneChunk
  Data = {0}
  ChunkSizes = {1}
  Workers = {w1}
  Reaper = reaper
  KeepBoth = FALSE
  MaxFileBytes = 2
  MaxChunks = 1
  MaxReservedBytes = 4
  MaxOwnerBytes = 4
  MaxActiveFiles = 3
  MaxOwnerFiles = 2
  MaxCompletedSessions = 1
  MaxSuffix = 2
  ReuseIds = FALSE
  External <- MCExternal
  Restarts = TRUE
  Nil = nil
  Blank = blank
  NoFile = nofile
PROPERTIES
  NeverReplaces
  ImplementsLifecycle
  EveryUploadSettles
  SpaceIsReleased
