\* A completed download finds no URL.
SPECIFICATION Spec
CONSTANTS
  u1 = u1
  u2 = u2
  Urls = {u1, u2}
  NoURL = NoURL
  Size = 1
  r1 = r1
  r2 = r2
  Requests = {r1, r2}
  Nil = Nil
  Empty = Empty
  MaxReuses = 1
PROPERTIES
  CompletionNeverTraps
