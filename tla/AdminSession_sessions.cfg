\* Two handlers at a time of one account: what signs it in against what signs
\* it out, four selections of operations.
CONSTANTS
  User = {u1}
  Name = {n1, n2}
  Password = {p1, p2}
  Sid = {s1, s2, s3}
  NoSid = NoSid
  Request = {q1, q2}
  Called = {{"login", "refresh", "password", "rename", "logout"},
            {"login", "refresh", "password", "multi_login"},
            {"login", "swagger", "delete", "multi_login"},
            {"login", "refresh", "status"}}
  HistoryCount = 1
  EraBound = 1
SPECIFICATION Spec
SYMMETRY Symmetry
CHECK_DEADLOCK FALSE
INVARIANTS RevokedSessionsAreGone RefreshedIsGone SingleLoginOvershootBounded
