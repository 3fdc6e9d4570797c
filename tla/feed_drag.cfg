\* What a comment says of the feed and the code does not do.
SPECIFICATION Spec
CONSTANTS
  c1 = c1
  c2 = c2
  c3 = c3
  Cells = {c1, c2, c3}
  LastRow = 2
  NoVideo = {}
  Nil = Nil
  MaxTaps = 0
  MaxBlocks = 2

PROPERTIES
  PlaysOnceDragEnds
