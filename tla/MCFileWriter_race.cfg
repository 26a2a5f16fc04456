SPECIFICATION Spec
CONSTANTS
  a1 = a1  a2 = a2  b1 = b1
  u1 = u1  u2 = u2  u3 = u3
  w1 = w1  w2 = w2  w3 = w3
  FileIds = {a1}
  Uploads = {u1}
  Owner <- MCOwner
  SafeName <- MCSafeName
  Metas <- TwoChunks
  Data = {0, 1}
  ChunkSizes = {1, 2}
  Workers = {w1, w2}
  Reaper = reaper
  KeepBoth = TRUE
  MaxFileBytes = 2
  MaxChunks = 2
  MaxReservedBytes = 2
  MaxOwnerBytes = 2
  MaxActiveFiles = 1
  MaxOwnerFiles = 1
  MaxCompletedSessions = 1
  MaxSuffix = 2
  ReuseIds = FALSE
  External = {}
  Restarts = FALSE
  Nil = nil
  Blank = blank
  NoFile = nofile
SYMMETRY Sym
INVARIANTS
  NoWriteAfterClose
  SavedIntact
  FullInv
