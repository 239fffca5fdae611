\* A limit of one file, two handlers, three files.
CONSTANTS
  File = {f1, f2, f3}
  Slot = {1}
  Scene = {s1}
  User = {u1}
  SuperUser = {}
  Request = {q1, q2}
  Cleaner = {}
  MaxTotalFiles = 1
  MaxOwnerFiles = 1
  TempTTL = 0
  PutTTL = {1}
  PendingTTL = 0
  PresignSupported = TRUE
  Losable = {}
  Content = {"good"}
  MaxTime = 0
SPECIFICATION Spec
SYMMETRY Symmetry
INVARIANTS QuotaOvershootBounded
