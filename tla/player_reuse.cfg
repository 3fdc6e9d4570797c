\* One reuse, two videos: every interleaving of main, the delegate queue,
\* the cancel queue and the cache.
SPECIFICATION Spec
CONSTANTS
  u1 = u1
  u2 = u2
  Urls = {u1, u2}
  NoURL = NoURL
  Size = 2
  r1 = r1
  r2 = r2
  Requests = {r1, r2}
  Nil = Nil
  Empty = Empty
  MaxReuses = 1
SYMMETRY Symmetry
INVARIANTS
  StoredWhole
  ShownVideoMatchesPost
  WaitingIsListed
  ServedIsUpToDate
  DownloadNeverStalls
