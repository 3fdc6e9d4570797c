\* Three requests for permission under way, three set-ups, two recordings, traps and
\* restarts, and the progress of the permissions and of a recording.
SPECIFICATION FairSpec
CONSTANTS
  Nil = Nil
  MaxAsks = 3
  MaxSetUps = 3
  MaxFiles = 2
INVARIANTS
  CameraNeedsBothPermissions
  PreviewShowsTheSession
  ExitUnlessLost
  GrantIsNotLost
  ReleasedIsStopped
PROPERTIES
  GrantsLeadToCamera
  ReleasedRecordingEnds
