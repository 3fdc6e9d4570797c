\* A cell that is not reused, two requests of any range at once: what is delivered and
\* stored, and the progress of its download.
SPECIFICATION FairSpec
CONSTANTS
  u1 = u1
  u2 = u2
  Urls = {u1, u2}
  NoURL = NoURL
  Size = 2
  r1 = r1
  r2 = r2
  Requests = {r1, r2}
  Nil = Nil
  Empty = Empty
  MaxReuses = 0
INVARIANTS
  DeliveredIsTheVideo
PROPERTIES
  FirstUseStoresItsVideo
  DownloadIsHandedOver
  ListedIsServed
