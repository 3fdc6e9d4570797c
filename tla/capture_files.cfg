\* Files of previous sessions stay.
SPECIFICATION Spec
CONSTANTS
  Nil = Nil
  MaxAsks = 2
  MaxSetUps = 2
  MaxFiles = 1
PROPERTIES
  PreviousFilesAreCleared
