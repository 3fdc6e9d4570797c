\* The recorder and the comments do not make the page disappear.
SPECIFICATION Spec
CONSTANTS
  c1 = c1
  c2 = c2
  c3 = c3
  Cells = {c1, c2, c3}
  LastRow = 2
  NoVideo = {}
  Nil = Nil
  MaxTaps = 0
  MaxBlocks = 2

INVARIANTS
  CoveredPageIsSilent
