\* A recording goes on after the release: its layer is left in the view.
SPECIFICATION Spec
CONSTANTS
  Nil = Nil
  MaxAsks = 2
  MaxSetUps = 2
  MaxFiles = 1
INVARIANTS
  ReleasedIsEnding
