\* Two presigned files of the same or different age, of which one may lose its
\* storage; a handler and a cleanup task that is run again and again.
CONSTANTS
  File = {f1, f2}
  Slot = {1}
  Scene = {s1}
  User = {u1}
  SuperUser = {}
  Request = {q1}
  Cleaner = {c1}
  MaxTotalFiles = 0
  MaxOwnerFiles = 0
  TempTTL = 1
  PutTTL = {1}
  PendingTTL = 0
  PresignSupported = TRUE
  Losable = {f1}
  Content = {"good"}
  MaxTime = 1
SPECIFICATION FairPresignedSpec
PROPERTIES PendingIsResolved ExpiredRefIsCleared
