\* Two handlers at a time on each group of tables.
CONSTANTS
  d1 = d1
  d2 = d2
  d3 = d3
  m1 = m1
  m2 = m2
  r1 = r1
  r2 = r2
  s1 = s1
  k1 = k1
  u1 = u1
  n1 = n1
  n2 = n2
  Dept = {d1, d2, d3}
  Menu = {m1, m2}
  Role = {r1, r2}
  Scope = {s1}
  Rule = {k1}
  User = {u1}
  Name = {n1, n2}
  None = None
  Request = {q1, q2}
  Areas <- MCAreas
SPECIFICATION Spec
SYMMETRY Symmetry
INVARIANTS NamesBounded StrandedOnlyByRaces HiddenOnlyByMoves
INVARIANTS QuietAuthenticationIsExact
CHECK_DEADLOCK FALSE
