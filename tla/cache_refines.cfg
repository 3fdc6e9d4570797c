\* Every operation of VideoCacheManager with every failure and a direct reader, while
\* the process lives: refinement, and progress of the queue and of main.
SPECIFICATION FairSpec
CONSTANTS
  k1 = k1
  Keys = {k1}
  mp4 = mp4
  Exts = {mp4}
  v1 = v1
  Videos = {v1}
  Empty = Empty
  Nil = Nil
  Null = Null
  t1 = t1
  Readers = {t1}
  Faults = {"write", "list", "sweep"}
  MaxJobs = 2
  MaxBlocks = 2
  MaxClears = 2
PROPERTIES
  ImplementsCacheStore
  MainIsReleased
  ClearIsReported
