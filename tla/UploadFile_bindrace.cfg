\* A file whose temporary ref expired is bound while the cleanup is at it.
CONSTANTS
  File = {f1}
  Slot = {1, 2}
  Scene = {s1}
  User = {u1}
  SuperUser = {}
  Request = {q1}
  Cleaner = {c1}
  MaxTotalFiles = 0
  MaxOwnerFiles = 0
  TempTTL = 0
  PutTTL = {}
  PendingTTL = 0
  PresignSupported = FALSE
  Losable = {}
  Content = {}
  MaxTime = 0
SPECIFICATION Spec
PROPERTIES BoundBytesAreKept
