\* What the app does: no queryDataFromCache; a clear may fail half-way.
SPECIFICATION Spec
CONSTANTS
  k1 = k1
  k2 = k2
  Keys = {k1, k2}
  Exts = {mp4}
  Videos = {v1}
  mp4 = mp4
  v1 = v1
  Empty = Empty
  Nil = Nil
  Null = Null
  Readers = {}
  Faults = {"list", "sweep", "kill"}
  MaxJobs = 3
  MaxBlocks = 2
  MaxClears = 2
SYMMETRY Symmetry
INVARIANTS
  ReportedClearIsComplete
  HandedPathIsLive
  AnswersInOrder
  LevelsAgree
