\* An s3 or oss backend; a URL lives shorter or longer than the grace period.
CONSTANTS
  File = {f1}
  Slot = {1, 2}
  Scene = {s1, s2}
  User = {u1}
  SuperUser = {}
  Request = {q1, q2}
  Cleaner = {c1}
  MaxTotalFiles = 0
  MaxOwnerFiles = 0
  TempTTL = 2
  PutTTL = {1, 3}
  PendingTTL = 2
  PresignSupported = TRUE
  Losable = {}
  Content = {"good", "bad"}
  MaxTime = 3
SPECIFICATION Spec
SYMMETRY Symmetry
INVARIANTS TypeOK NamesExist LateUploadIsBounded RevivalsBounded
