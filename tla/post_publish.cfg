\* Two videos, three posting pages, three uploads, the end of the process at any time.
SPECIFICATION Spec
CONSTANTS
  MaxTakes = 2
  MaxPages = 3
  MaxAttempts = 3
INVARIANTS
  DocumentsHaveVideos
  OnePostPerPage
PROPERTIES
  ToldIsFinal
  DismissedIsPublished
