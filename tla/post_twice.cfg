\* Back and Next post a video twice.
SPECIFICATION Spec
CONSTANTS
  MaxTakes = 1
  MaxPages = 2
  MaxAttempts = 2
INVARIANTS
  OnePostPerVideo
