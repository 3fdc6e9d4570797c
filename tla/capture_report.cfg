\* A recording that fails is not reported.
SPECIFICATION FairSpec
CONSTANTS
  Nil = Nil
  MaxAsks = 2
  MaxSetUps = 2
  MaxFiles = 2
PROPERTIES
  RecordingIsReported
