\* Two downloads of one of two files (only one has a registered backend), limits 0, 1
\* and none, shares that end, file tokens.
CONSTANTS
  File = {f1, f2}
  Public = {}
  Share = {s1}
  Request = {q1, q2}
  Limit = {0, 1}
  Lifetime = {1}
  TokenTTL = 2
  AskedTTL = {0, 1, 2}
  AccessMaxTTL = 1
  Registered = {f1}
  CountBound = 3
  MaxTime = 2
SPECIFICATION Spec
SYMMETRY Symmetry
INVARIANTS TypeOK DownloadOvershootBounded ServedIsCounted
INVARIANTS EndedShareDrains FileTokensAreShort
