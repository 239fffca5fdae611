\* Two callbacks or account changes at a time, two identities, three accounts.
CONSTANTS
  Identity = {i1, i2}
  User = {u1, u2, u3}
  Email = {e1}
  State = {t1, t2}
  Request = {q1, q2}
  None = None
SPECIFICATION Spec
SYMMETRY Symmetry
INVARIANTS TypeOK AccountsPerEmailBounded StateUsesBounded
PROPERTY ImplementsIdentityMap
