\* Notes.md says a URL found on disk is stored in memory too.
SPECIFICATION Spec
CONSTANTS
  k1 = k1
  Keys = {k1}
  mp4 = mp4
  Exts = {mp4}
  v1 = v1
  Videos = {v1}
  Empty = Empty
  Nil = Nil
  Null = Null
  Readers = {}
  Faults = {"write", "list", "sweep", "kill"}
  MaxJobs = 1
  MaxBlocks = 1
  MaxClears = 1
PROPERTIES
  HitIsStoredInMemory
