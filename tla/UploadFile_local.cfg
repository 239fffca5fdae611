\* A local backend (no presigned uploads), two normal users and a super admin.
CONSTANTS
  File = {f1}
  Slot = {1, 2}
  Scene = {s1}
  User = {u1, u2, root}
  SuperUser = {root}
  Request = {q1, q2}
  Cleaner = {c1}
  MaxTotalFiles = 0
  MaxOwnerFiles = 0
  TempTTL = 0
  PutTTL = {}
  PendingTTL = 0
  PresignSupported = FALSE
  Losable = {}
  Content = {}
  MaxTime = 0
SPECIFICATION Spec
SYMMETRY Symmetry
INVARIANTS BoundBeforeRunIsKept OwnersAreGranted
