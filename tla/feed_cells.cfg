\* Three posts, one without a URL, three cells, taps whose animation ends at any time.
SPECIFICATION Spec
CONSTANTS
  c1 = c1
  c2 = c2
  c3 = c3
  Cells = {c1, c2, c3}
  LastRow = 2
  NoVideo = {1}
  Nil = Nil
  MaxTaps = 2
  MaxBlocks = 2
SYMMETRY Symmetry
INVARIANTS
  SoundIsUnderControl
  HiddenCellsArePaused
  LeftPageIsSilent
  PlayerHasItsPost
