\* Three logins or address changes at a time, a lock after two failures.
CONSTANTS
  User = {u1}
  Captcha = {c1}
  Code = {k1}
  Request = {q1, q2, q3}
  Called = {{"swagger"}, {"login"}, {"email"}}
  LockThreshold = 2
  LockDuration = 2
  CaptchaTTL = 1
  CodeTTL = 1
  FailureBound = 3
SPECIFICATION FairSpec
INVARIANTS TypeOK GuessesBoundedByLock CodesAreSpent
PROPERTY LocksEnd
