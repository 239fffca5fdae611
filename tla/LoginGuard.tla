------------------------------ MODULE LoginGuard ------------------------------
(***************************************************************************)
(* What stands before a login and before a new email address: the graphic  *)
(* captcha, the count of failed logins and the lock it leads to            *)
(* (admin/internal/app/admin/service/auth_service.go), and the captcha     *)
(* sent by mail (plugins/email/service/service.go, checked by              *)
(* user_service.go).                                                       *)
(*                                                                         *)
(* All of it lives in Redis keys that expire, or in maps of the process    *)
(* under a mutex when there is no Redis.  A Redis command is one atomic    *)
(* step; a function that holds the mutex is one too.  Times are what is    *)
(* left of them: a tick takes one from every key that expires.             *)
(***************************************************************************)
EXTENDS Naturals, FiniteSets

CONSTANTS
  User,          \* accounts
  Captcha,       \* graphic captchas that may be issued, each at most once
  Code,          \* codes that may be mailed, each at most once
  Request,       \* request handlers that may run at the same time
  Called,        \* the sets of operations that are called together
  LockThreshold, \* USER_LOCK_THRESHOLD; 0 is no lock at all
  LockDuration,  \* USER_LOCK_SECONDS, in ticks
  CaptchaTTL,    \* LOGIN_CAPTCHA_EXPIRE_SECONDS, in ticks
  CodeTTL,       \* the lifetime of a mailed code, in ticks
  FailureBound   \* bound of the count that handlers which died may leave

Task == {"login", "swagger", "email"}

ASSUME SetAssumption ==
  /\ IsFiniteSet(Request) /\ Captcha \cap Code = {}
  /\ Called \subseteq SUBSET Task
ASSUME NumberAssumption ==
  /\ LockThreshold \in Nat /\ FailureBound \in Nat
  /\ {LockDuration, CaptchaTTL, CodeTTL} \subseteq Nat \ {0}

VARIABLES
  called,    \* the operations that are called
  store,     \* where the keys are: "redis" or "memory"
  failures,  \* the failure count of a user and what is left of its life
  lock,      \* what is left of the lock of a user; 0: not locked
  stale,     \* users whose run-out lock is still in the process's map
  captcha,   \* what is left of the captchas that wait for an answer
  mailed,    \* the mailed code of the client's address, and its life
  req,       \* where each request handler is, with its local variables
  drawn,     \* captchas and codes that were drawn
  used,      \* history: logins or addresses a captcha or code has opened
  answered   \* history: "wrong password" answers since the last lock,
             \* right password or end of the count

vars == <<called, store, failures, lock, stale, captcha, mailed, req, drawn,
          used, answered>>

env    == <<called, store>>
counts == <<failures, lock, stale, answered>>
codes  == <<captcha, mailed, drawn, used>>

-----------------------------------------------------------------------------
(* Keys and local states.                                                  *)

\* A key that is not there, and the life of one that never ends by itself.
None    == [key |-> "none"]
Forever == 0

Life  == 0 .. LockDuration + CaptchaTTL + CodeTTL
Count == {c \in [n: Nat, left: Life] : c.n = 0 => c.left = Forever}
Mail  == [code: Code, left: Life]

NoCount == [n |-> 0, left |-> Forever]

Idle == [pc |-> "idle"]
PC == {"getCaptcha", "delCaptcha", "checkLock", "record", "incr", "expire",
       "setLock", "delCount", "reset", "getCode", "delCode", "writeEmail"}

\* "right" tells a right password from a wrong one; "code" is the captcha or
\* the mailed code the client answers, "count" what INCR returned.
Handler == [pc: PC, user: User, right: BOOLEAN,
            code: Captcha \cup Code \cup {0}, count: Nat]

Locked(u) == lock[u] > 0

-----------------------------------------------------------------------------
Init ==
  /\ called \in Called
  /\ store \in {"redis", "memory"}
  /\ failures = [u \in User |-> NoCount]
  /\ lock = [u \in User |-> 0]
  /\ stale = {}
  /\ captcha = [c \in Captcha |-> None]
  /\ mailed = None
  /\ req = [q \in Request |-> Idle]
  /\ drawn = {}
  /\ used = [x \in Captcha \cup Code |-> 0]
  /\ answered = [u \in User |-> 0]

Goto(q, pc) == req' = [req EXCEPT ![q].pc = pc]
Return(q)   == req' = [req EXCEPT ![q] = Idle]

Begin(q, pc, u, right, x) ==
  /\ req[q] = Idle
  /\ req' = [req EXCEPT ![q] = [pc |-> pc, user |-> u, right |-> right,
                                code |-> x, count |-> 0]]

-----------------------------------------------------------------------------
(* The graphic captcha.                                                    *)

\* In Redis a captcha expires, in the process's map it stays.
IssueCaptcha(c) ==
  /\ "login" \in called /\ c \notin drawn
  /\ drawn' = drawn \cup {c}
  /\ captcha' = [captcha EXCEPT ![c] =
       [left |-> IF store = "redis" THEN CaptchaTTL ELSE Forever]]
  /\ UNCHANGED <<env, counts, mailed, req, used>>

\* Login with a captcha the client has seen.
BeginLogin(q, u, right, c) ==
  /\ "login" \in called /\ c \in drawn
  /\ Begin(q, "getCaptcha", u, right, c)
  /\ UNCHANGED <<env, counts, codes>>

\* SwaggerLogin, Login with the fixture captcha, or with captchas disabled.
BeginUnchecked(q, u, right) ==
  /\ "swagger" \in called
  /\ Begin(q, "checkLock", u, right, 0)
  /\ UNCHANGED <<env, counts, codes>>

\* The captcha is there and the answer is right.  Redis: read now, deleted
\* later.  Memory: both under the mutex.
GetCaptcha(q) ==
  LET c == req[q].code IN
  /\ req[q].pc = "getCaptcha"
  /\ captcha[c] # None
  /\ IF store = "redis"
     THEN Goto(q, "delCaptcha") /\ UNCHANGED <<captcha, used>>
     ELSE /\ Goto(q, "checkLock")
          /\ captcha' = [captcha EXCEPT ![c] = None]
          /\ used' = [used EXCEPT ![c] = @ + 1]
  /\ UNCHANGED <<env, counts, mailed, drawn>>

\* Mutant: the captcha is left to expire.
DelCaptchaKept(q) ==
  LET c == req[q].code IN
  /\ req[q].pc = "delCaptcha"
  /\ captcha' = captcha
  /\ used' = [used EXCEPT ![c] = @ + 1]
  /\ Goto(q, "checkLock")
  /\ UNCHANGED <<env, counts, mailed, drawn>>

\* Whether or not it is still there.
DelCaptcha(q) ==
  LET c == req[q].code IN
  /\ req[q].pc = "delCaptcha"
  /\ captcha' = [captcha EXCEPT ![c] = None]
  /\ used' = [used EXCEPT ![c] = @ + 1]
  /\ Goto(q, "checkLock")
  /\ UNCHANGED <<env, counts, mailed, drawn>>

-----------------------------------------------------------------------------
(* The lock and the failure count, of a user that exists and is enabled.   *)

\* A lock that has run out stays in the process's map until it is looked at,
\* and takes the count with it.
ForgetStale(u) ==
  /\ stale' = stale \ {u}
  /\ failures' = IF u \in stale THEN [failures EXCEPT ![u] = NoCount]
                 ELSE failures
  /\ answered' = IF u \in stale THEN [answered EXCEPT ![u] = 0] ELSE answered

\* Mutant: a refused login extends the lock.
CheckLoginLockExtending(q) ==
  LET u == req[q].user IN
  /\ req[q].pc = "checkLock"
  /\ IF LockThreshold > 0 /\ Locked(u)
     THEN Return(q) /\ lock' = [lock EXCEPT ![u] = LockDuration]
                    /\ UNCHANGED <<stale, failures, answered>>
     ELSE /\ Goto(q, IF req[q].right THEN "reset"
                     ELSE IF store = "redis" THEN "incr" ELSE "record")
          /\ ForgetStale(u)
          /\ UNCHANGED lock
  /\ UNCHANGED <<env, codes>>

\* A locked user is refused.  Otherwise the password is compared with the row
\* read before; a right one that has expired is an Abort.
CheckLoginLock(q) ==
  LET u == req[q].user IN
  /\ req[q].pc = "checkLock"
  /\ IF LockThreshold > 0 /\ Locked(u)
     THEN Return(q) /\ UNCHANGED <<stale, failures, answered>>
     ELSE /\ Goto(q, IF req[q].right THEN "reset"
                     ELSE IF store = "redis" THEN "incr" ELSE "record")
          /\ ForgetStale(u)
  /\ UNCHANGED <<env, codes, lock>>

\* recordLoginFailure over Redis, one command at a time.
IncrFailure(q) ==
  LET u == req[q].user  n == failures[u].n + 1 IN
  /\ req[q].pc = "incr"
  /\ IF LockThreshold = 0
     THEN Return(q) /\ UNCHANGED failures
     ELSE /\ n <= FailureBound
          /\ failures' = [failures EXCEPT ![u].n = n]
          /\ req' = [req EXCEPT ![q].pc = "expire", ![q].count = n]
  /\ UNCHANGED <<env, codes, lock, stale, answered>>

\* Mutant: the key is written anew with its life.
ExpireFailureAnew(q) ==
  LET u == req[q].user IN
  /\ req[q].pc = "expire"
  /\ failures' = [failures EXCEPT ![u].left = LockDuration]
  /\ IF req[q].count < LockThreshold
     THEN Return(q) /\ answered' = [answered EXCEPT ![u] = @ + 1]
     ELSE Goto(q, "setLock") /\ UNCHANGED answered
  /\ UNCHANGED <<env, codes, lock, stale>>

\* EXPIRE changes nothing when the key is gone by now.
ExpireFailure(q) ==
  LET u == req[q].user IN
  /\ req[q].pc = "expire"
  /\ failures' = IF failures[u].n = 0 THEN failures
                 ELSE [failures EXCEPT ![u].left = LockDuration]
  /\ IF req[q].count < LockThreshold
     THEN Return(q) /\ answered' = [answered EXCEPT ![u] = @ + 1]
     ELSE Goto(q, "setLock") /\ UNCHANGED answered
  /\ UNCHANGED <<env, codes, lock, stale>>

SetLock(q) ==
  LET u == req[q].user IN
  /\ req[q].pc = "setLock"
  /\ lock' = [lock EXCEPT ![u] = LockDuration]
  /\ answered' = [answered EXCEPT ![u] = 0]
  /\ Goto(q, "delCount")
  /\ UNCHANGED <<env, codes, failures, stale>>

DelFailures(q) ==
  LET u == req[q].user IN
  /\ req[q].pc = "delCount"
  /\ failures' = [failures EXCEPT ![u] = NoCount]
  /\ Return(q)
  /\ UNCHANGED <<env, codes, lock, stale, answered>>

\* Mutant: the threshold is compared before the failure is counted.
RecordLoginFailureLate(q) ==
  LET u == req[q].user  n == failures[u].n + 1 IN
  /\ req[q].pc = "record"
  /\ IF LockThreshold = 0 \/ failures[u].n < LockThreshold
     THEN /\ failures' = [failures EXCEPT ![u].n = n]
          /\ answered' = [answered EXCEPT ![u] = @ + 1]
          /\ UNCHANGED <<lock, stale>>
     ELSE /\ lock' = [lock EXCEPT ![u] = LockDuration]
          /\ stale' = stale \cup {u}
          /\ failures' = [failures EXCEPT ![u] = NoCount]
          /\ answered' = [answered EXCEPT ![u] = 0]
  /\ Return(q)
  /\ UNCHANGED <<env, codes>>

\* The same in memory, under the mutex; the count never expires.
RecordLoginFailure(q) ==
  LET u == req[q].user  n == failures[u].n + 1 IN
  /\ req[q].pc = "record"
  /\ IF LockThreshold = 0
     THEN UNCHANGED <<failures, lock, stale, answered>>
     ELSE IF n < LockThreshold
     THEN /\ failures' = [failures EXCEPT ![u].n = n]
          /\ answered' = [answered EXCEPT ![u] = @ + 1]
          /\ UNCHANGED <<lock, stale>>
     ELSE /\ lock' = [lock EXCEPT ![u] = LockDuration]
          /\ stale' = stale \cup {u}
          /\ failures' = [failures EXCEPT ![u] = NoCount]
          /\ answered' = [answered EXCEPT ![u] = 0]
  /\ Return(q)
  /\ UNCHANGED <<env, codes>>

\* After a right password: one DEL of both keys, or both under the mutex.
ResetLoginFailure(q) ==
  LET u == req[q].user IN
  /\ req[q].pc = "reset"
  /\ failures' = [failures EXCEPT ![u] = NoCount]
  /\ lock' = [lock EXCEPT ![u] = 0]
  /\ stale' = stale \ {u}
  /\ answered' = [answered EXCEPT ![u] = 0]
  /\ Return(q)
  /\ UNCHANGED <<env, codes>>

-----------------------------------------------------------------------------
(* The mailed code; it is stored by the client's address, not the mailbox. *)

\* The mail may still fail to go out: then no client has the code.
SendCaptcha(k) ==
  /\ store = "redis"
  /\ "email" \in called /\ k \notin drawn
  /\ drawn' = drawn \cup {k}
  /\ mailed' = [code |-> k, left |-> CodeTTL]
  /\ UNCHANGED <<env, counts, captcha, req, used>>

\* Without Redis one fixture code opens every change.
BeginUpdateEmail(q, u, k) ==
  /\ store = "redis"
  /\ "email" \in called /\ k \in drawn
  /\ Begin(q, "getCode", u, TRUE, k)
  /\ UNCHANGED <<env, counts, codes>>

\* The code there is the client's; the new address is looked up in between.
GetCode(q) ==
  /\ req[q].pc = "getCode"
  /\ mailed # None /\ mailed.code = req[q].code
  /\ Goto(q, "delCode")
  /\ UNCHANGED <<env, counts, codes>>

\* Whatever code is there by now.
DelCode(q) ==
  /\ req[q].pc = "delCode"
  /\ mailed' = None
  /\ Goto(q, "writeEmail")
  /\ UNCHANGED <<env, counts, captcha, drawn, used>>

UpdateUserEmail(q) ==
  /\ req[q].pc = "writeEmail"
  /\ used' = [used EXCEPT ![req[q].code] = @ + 1]
  /\ Return(q)
  /\ UNCHANGED <<env, counts, captcha, mailed, drawn>>

-----------------------------------------------------------------------------
\* A handler returns early: it is refused, Redis fails, or its process dies.
Abort(q) ==
  /\ req[q] # Idle
  /\ Return(q)
  /\ UNCHANGED <<env, counts, codes>>

\* A key with one tick left is gone after it.
Aged(x) == IF x = None \/ x.left = Forever THEN x
           ELSE IF x.left = 1 THEN None ELSE [x EXCEPT !.left = @ - 1]

AgedCount(x) == IF x.left = 1 THEN NoCount
                ELSE IF x.left = Forever THEN x ELSE [x EXCEPT !.left = @ - 1]

Tick ==
  /\ failures' = [u \in User |-> AgedCount(failures[u])]
  /\ lock' = [u \in User |-> IF lock[u] = 0 THEN 0 ELSE lock[u] - 1]
  /\ captcha' = [c \in Captcha |-> Aged(captcha[c])]
  /\ mailed' = Aged(mailed)
  /\ answered' = [u \in User |->
       IF failures[u].n > 0 /\ failures'[u].n = 0 THEN 0 ELSE answered[u]]
  /\ UNCHANGED <<env, stale, req, drawn, used>>

Next ==
  \/ Tick
  \/ \E c \in Captcha : IssueCaptcha(c)
  \/ \E k \in Code : SendCaptcha(k)
  \/ \E q \in Request :
       \/ \E u \in User, right \in BOOLEAN :
            \/ \E c \in Captcha : BeginLogin(q, u, right, c)
            \/ BeginUnchecked(q, u, right)
       \/ \E u \in User, k \in Code : BeginUpdateEmail(q, u, k)
       \/ GetCaptcha(q) \/ DelCaptcha(q)
       \/ CheckLoginLock(q) \/ RecordLoginFailure(q) \/ ResetLoginFailure(q)
       \/ IncrFailure(q) \/ ExpireFailure(q) \/ SetLock(q) \/ DelFailures(q)
       \/ GetCode(q) \/ DelCode(q) \/ UpdateUserEmail(q)
       \/ Abort(q)

Spec == Init /\ [][Next]_vars

\* Time goes on.
FairSpec == Spec /\ WF_vars(Tick)

-----------------------------------------------------------------------------
(* Properties.                                                             *)

TypeOK ==
  /\ called \in Called
  /\ store \in {"redis", "memory"}
  /\ failures \in [User -> Count]
  /\ lock \in [User -> 0 .. LockDuration]
  /\ stale \subseteq User
  /\ captcha \in [Captcha -> {None} \cup [left: Life]]
  /\ mailed \in {None} \cup Mail
  /\ req \in [Request -> {Idle} \cup Handler]
  /\ drawn \subseteq Captcha \cup Code
  /\ used \in [Captcha \cup Code -> Nat]
  /\ answered \in [User -> Nat]

\* Whoever guesses passwords is told "wrong" fewer times than the threshold
\* before the account is locked.  Over Redis each handler that stalls between
\* two commands may miss, or wipe, the count of a later series, which costs at
\* most a threshold of guesses for every handler (recordLoginFailure).
GuessesBoundedByLock ==
  LockThreshold > 0 =>
    \A u \in User : answered[u] <=
      IF store = "redis" THEN LockThreshold * Cardinality(Request)
                         ELSE LockThreshold - 1

\* In memory a captcha opens one login.  Over Redis a captcha, and a mailed
\* code, opens no more than handlers that had read it when it was deleted
\* (verifyCaptcha, UpdateEmailForIP).
CodesAreSpent ==
  \A x \in Captcha \cup Code :
    used[x] <= IF store = "redis" THEN Cardinality(Request) ELSE 1

\* Nobody can keep an account locked: a login refused for the lock does not
\* count, so every lock runs out (checkLoginLock).
LocksEnd == \A u \in User : []<>~Locked(u)
=============================================================================
