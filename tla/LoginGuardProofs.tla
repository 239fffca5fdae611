--------------------------- MODULE LoginGuardProofs ---------------------------
(***************************************************************************)
(* Theorems about LoginGuard, for every number of accounts, captchas and   *)
(* handlers, and every threshold and lifetime.                             *)
(***************************************************************************)
EXTENDS LoginGuard, FiniteSetTheorems, TLAPS

-----------------------------------------------------------------------------
(* Type correctness, by what the parts of the state are about.             *)

\* A handler that is about a captcha, or about a mailed code, has one.
Ready(h) ==
  /\ h.pc \in {"getCaptcha", "delCaptcha"} => h.code \in Captcha
  /\ h.pc \in {"getCode", "delCode", "writeEmail"} => h.code \in Code

EnvTyped == called \in Called /\ store \in {"redis", "memory"}

HandlersTyped ==
  /\ req \in [Request -> {Idle} \cup Handler]
  /\ \A q \in Request : req[q] # Idle => Ready(req[q])

CountsTyped ==
  /\ failures \in [User -> Count]
  /\ lock \in [User -> 0 .. LockDuration]
  /\ stale \subseteq User
  /\ answered \in [User -> Nat]

CodesTyped ==
  /\ captcha \in [Captcha -> {None} \cup [left: Life]]
  /\ mailed \in {None} \cup Mail
  /\ drawn \subseteq Captcha \cup Code
  /\ used \in [Captcha \cup Code -> Nat]

Typed == EnvTyped /\ HandlersTyped /\ CountsTyped /\ CodesTyped

\* The lifetimes fit in what a key may have left.
LEMMA Lives ==
  /\ Forever \in Life /\ LockDuration \in Life /\ CaptchaTTL \in Life
  /\ CodeTTL \in Life
  /\ \A n \in Life : n # Forever => n - 1 \in Life
BY NumberAssumption DEF Life, Forever

\* A handler that is somewhere is a typed one.
LEMMA AtPlace ==
  ASSUME Typed, NEW q \in Request, req[q].pc \in PC
  PROVE  req[q] \in Handler /\ Ready(req[q])
BY DEF Typed, HandlersTyped, Idle, PC

\* A handler that is somewhere is not idle.
LEMMA NotIdle ==
  ASSUME Typed, NEW q \in Request, req[q] # Idle
  PROVE  req[q] \in Handler /\ Ready(req[q])
BY DEF Typed, HandlersTyped

\* A handler that moves to a ready place leaves the handlers typed.
LEMMA MoveTyped ==
  ASSUME Typed, NEW q \in Request, NEW h \in {Idle} \cup Handler,
         h # Idle => Ready(h), req' = [req EXCEPT ![q] = h]
  PROVE  HandlersTyped'
BY DEF Typed, HandlersTyped

\* So does one that goes where no code is needed, or that returns.
LEMMA GotoTyped ==
  ASSUME Typed, NEW q \in Request, req[q].pc \in PC, NEW pc \in PC, Goto(q, pc),
         \/ pc \notin {"getCaptcha", "delCaptcha", "getCode", "delCode", "writeEmail"}
         \/ pc = "delCaptcha" /\ req[q].pc = "getCaptcha"
         \/ pc = "delCode" /\ req[q].pc = "getCode"
         \/ pc = "writeEmail" /\ req[q].pc = "delCode"
  PROVE  HandlersTyped'
<1> DEFINE h == [req[q] EXCEPT !.pc = pc]
<1>1. req[q] \in Handler /\ Ready(req[q])
  BY AtPlace
<1>2. h \in Handler /\ h.pc = pc /\ h.code = req[q].code
  BY <1>1 DEF Handler
<1>3. Ready(h)
  BY <1>1, <1>2 DEF Ready
<1>4. req' = [req EXCEPT ![q] = h]
  BY DEF Goto
<1> HIDE DEF h
<1> QED BY <1>2, <1>3, <1>4, MoveTyped

\* So does one that returns.
LEMMA ReturnTyped ==
  ASSUME Typed, NEW q \in Request, Return(q)
  PROVE  HandlersTyped'
BY MoveTyped DEF Return

\* So does one that begins, with the captcha or code it is about.
LEMMA BeginTyped ==
  ASSUME Typed, NEW q \in Request, NEW pc \in PC, NEW u \in User,
         NEW right \in BOOLEAN, NEW x \in Captcha \cup Code \cup {0},
         Begin(q, pc, u, right, x),
         \/ pc = "checkLock"
         \/ pc = "getCaptcha" /\ x \in Captcha
         \/ pc = "getCode" /\ x \in Code
  PROVE  HandlersTyped'
<1> DEFINE h == [pc |-> pc, user |-> u, right |-> right, code |-> x, count |-> 0]
<1>1. h \in Handler
  BY DEF Handler
<1>2. Ready(h)
  BY DEF Ready
<1>3. req' = [req EXCEPT ![q] = h]
  BY DEF Begin
<1> HIDE DEF h
<1> QED BY <1>1, <1>2, <1>3, MoveTyped

\* The steps of the handlers keep the handlers typed.
LEMMA HandlersStep ==
  ASSUME Typed, [Next]_vars
  PROVE  HandlersTyped'
<1>1. CASE UNCHANGED req
  BY <1>1 DEF Typed, HandlersTyped
<1>2. ASSUME NEW q \in Request, NEW u \in User, NEW right \in BOOLEAN,
             NEW c \in Captcha, BeginLogin(q, u, right, c)
      PROVE  HandlersTyped'
  BY <1>2, BeginTyped DEF BeginLogin, PC
<1>3. ASSUME NEW q \in Request, NEW u \in User, NEW right \in BOOLEAN,
             BeginUnchecked(q, u, right)
      PROVE  HandlersTyped'
  BY <1>3, BeginTyped DEF BeginUnchecked, PC
<1>4. ASSUME NEW q \in Request, NEW u \in User, NEW k \in Code,
             BeginUpdateEmail(q, u, k)
      PROVE  HandlersTyped'
  BY <1>4, BeginTyped DEF BeginUpdateEmail, PC
<1>5. ASSUME NEW q \in Request, GetCaptcha(q) \/ DelCaptcha(q)
      PROVE  HandlersTyped'
  <2>1. \/ Goto(q, "checkLock")
        \/ Goto(q, "delCaptcha") /\ req[q].pc = "getCaptcha"
    BY <1>5 DEF GetCaptcha, DelCaptcha
  <2>2. req[q].pc \in PC /\ "checkLock" \in PC /\ "delCaptcha" \in PC
    BY <1>5 DEF GetCaptcha, DelCaptcha, PC
  <2> QED BY <2>1, <2>2, GotoTyped
<1>6. ASSUME NEW q \in Request, CheckLoginLock(q)
      PROVE  HandlersTyped'
  <2>1. Return(q) \/ Goto(q, "reset") \/ Goto(q, "incr") \/ Goto(q, "record")
    BY <1>6 DEF CheckLoginLock
  <2>2. req[q].pc \in PC /\ {"reset", "incr", "record"} \subseteq PC
    BY <1>6 DEF CheckLoginLock, PC
  <2> QED BY <2>1, <2>2, GotoTyped, ReturnTyped
<1>7. ASSUME NEW q \in Request, IncrFailure(q)
      PROVE  HandlersTyped'
  <2>1. CASE Return(q)
    BY <2>1, ReturnTyped
  <2>2. CASE LockThreshold # 0
    <3>1. req[q] \in Handler /\ req[q].user \in User
      BY <1>7, AtPlace DEF IncrFailure, PC, Handler
    <3> DEFINE n == failures[req[q].user].n + 1
    <3> DEFINE h == [req[q] EXCEPT !.pc = "expire", !.count = n]
    <3>2. n \in Nat
      BY <3>1 DEF Typed, CountsTyped, Count
    <3>3. req' = [req EXCEPT ![q] = h]
      BY <1>7, <2>2 DEF IncrFailure
    <3> HIDE DEF n
    <3>4. h \in Handler /\ h.pc = "expire"
      BY <3>1, <3>2 DEF Handler, PC
    <3> HIDE DEF h
    <3> QED BY <3>3, <3>4, MoveTyped DEF Ready
  <2> QED BY <1>7, <2>1, <2>2 DEF IncrFailure
<1>8. ASSUME NEW q \in Request, ExpireFailure(q) \/ SetLock(q)
      PROVE  HandlersTyped'
  <2>1. Return(q) \/ Goto(q, "setLock") \/ Goto(q, "delCount")
    BY <1>8 DEF ExpireFailure, SetLock
  <2>2. req[q].pc \in PC /\ {"setLock", "delCount"} \subseteq PC
    BY <1>8 DEF ExpireFailure, SetLock, PC
  <2> QED BY <2>1, <2>2, GotoTyped, ReturnTyped
<1>9. ASSUME NEW q \in Request, GetCode(q) \/ DelCode(q)
      PROVE  HandlersTyped'
  <2>1. \/ Goto(q, "delCode") /\ req[q].pc = "getCode"
        \/ Goto(q, "writeEmail") /\ req[q].pc = "delCode"
    BY <1>9 DEF GetCode, DelCode
  <2>2. req[q].pc \in PC /\ "delCode" \in PC /\ "writeEmail" \in PC
    BY <1>9 DEF GetCode, DelCode, PC
  <2> QED BY <2>1, <2>2, GotoTyped
<1>10. ASSUME NEW q \in Request, Return(q)
       PROVE  HandlersTyped'
  BY <1>10, ReturnTyped
<1> QED
  BY <1>1, <1>2, <1>3, <1>4, <1>5, <1>6, <1>7, <1>8, <1>9, <1>10
  DEF Next, vars, Tick, IssueCaptcha, SendCaptcha, RecordLoginFailure,
      ResetLoginFailure, DelFailures, UpdateUserEmail, Abort

\* A count that lost a tick is one, or is gone.
LEMMA AgedCountType ==
  ASSUME NEW x \in Count
  PROVE  AgedCount(x) \in Count
<1>1. x.n \in Nat /\ x.left \in Life /\ (x.n = 0 => x.left = Forever)
  BY DEF Count
<1>2. NoCount \in Count
  BY Lives DEF NoCount, Count
<1>3. CASE x.left = 1
  BY <1>2, <1>3 DEF AgedCount
<1>4. CASE x.left = Forever
  BY <1>4 DEF AgedCount, Forever
<1>5. CASE x.left # 1 /\ x.left # Forever
  <2>1. AgedCount(x) = [x EXCEPT !.left = x.left - 1]
    BY <1>5 DEF AgedCount
  <2>2. x.left - 1 \in Life
    BY <1>1, <1>5, Lives
  <2> QED BY <1>1, <1>5, <2>1, <2>2 DEF Count
<1> QED BY <1>3, <1>4, <1>5

\* A key that lost a tick is one, or is gone.
LEMMA AgedType ==
  /\ \A x \in {None} \cup [left: Life] : Aged(x) \in {None} \cup [left: Life]
  /\ \A x \in {None} \cup Mail :
       /\ Aged(x) \in {None} \cup Mail
       /\ Aged(x) # None => x # None /\ Aged(x).code = x.code
<1>1. ASSUME NEW x \in [left: Life]
      PROVE  Aged(x) \in {None} \cup [left: Life]
  <2>1. x.left \in Life /\ (x.left # Forever => x.left - 1 \in Life)
    BY Lives
  <2> QED BY <2>1 DEF Aged
<1>2. ASSUME NEW x \in Mail
      PROVE  /\ Aged(x) \in {None} \cup Mail
             /\ Aged(x) # None => Aged(x).code = x.code
  <2>1. x.left \in Life /\ (x.left # Forever => x.left - 1 \in Life)
    BY Lives DEF Mail
  <2> QED BY <2>1 DEF Aged, Mail
<1>3. Aged(None) = None
  BY DEF Aged
<1>4. \A x \in Mail : x # None
  BY DEF Mail, None
<1> QED BY <1>1, <1>2, <1>3, <1>4

\* The steps keep the counts and the locks typed.
LEMMA CountsStep ==
  ASSUME Typed, [Next]_vars
  PROVE  CountsTyped'
<1>0. CountsTyped /\ NoCount \in Count /\ LockDuration \in 0 .. LockDuration
  BY Lives, NumberAssumption DEF Typed, NoCount, Count, Life, Forever
<1>1. CASE UNCHANGED counts
  BY <1>0, <1>1 DEF counts, CountsTyped
<1>2. CASE Tick
  <2>1. failures' \in [User -> Count]
    BY <1>0, <1>2, AgedCountType DEF Tick, CountsTyped
  <2>2. lock' \in [User -> 0 .. LockDuration]
    <3>1. \A n \in 0 .. LockDuration :
            (IF n = 0 THEN 0 ELSE n - 1) \in 0 .. LockDuration
      BY NumberAssumption
    <3> QED BY <1>0, <1>2, <3>1 DEF Tick, CountsTyped
  <2>3. answered' \in [User -> Nat] /\ stale' \subseteq User
    BY <1>0, <1>2 DEF Tick, CountsTyped
  <2> QED BY <2>1, <2>2, <2>3 DEF CountsTyped
<1>3. ASSUME NEW q \in Request, req[q].pc \in PC
      PROVE  req[q].user \in User
  BY <1>3, AtPlace DEF Handler
<1>4. ASSUME NEW q \in Request, CheckLoginLock(q)
      PROVE  CountsTyped'
  BY <1>0, <1>4 DEF CheckLoginLock, ForgetStale, CountsTyped
<1>5. ASSUME NEW q \in Request, IncrFailure(q)
      PROVE  CountsTyped'
  <2>1. req[q].user \in User
    BY <1>3, <1>5 DEF IncrFailure, PC
  <2>2. PICK u \in User : u = req[q].user
    BY <2>1
  <2>3. failures[u].n \in Nat /\ failures[u].left \in Life /\ failures[u] \in Count
    BY <1>0 DEF CountsTyped, Count
  <2>4. [failures[u] EXCEPT !.n = failures[u].n + 1] \in Count
    BY <2>3 DEF Count
  <2>5. \/ failures' = failures
        \/ failures' = [failures EXCEPT ![u] = [failures[u] EXCEPT !.n = failures[u].n + 1]]
    BY <1>5, <2>2 DEF IncrFailure
  <2>6. failures' \in [User -> Count]
    BY <1>0, <2>4, <2>5 DEF CountsTyped
  <2> QED BY <1>0, <1>5, <2>6 DEF IncrFailure, CountsTyped
<1>6. ASSUME NEW q \in Request, ExpireFailure(q)
      PROVE  CountsTyped'
  <2>1. req[q].user \in User
    BY <1>3, <1>6 DEF ExpireFailure, PC
  <2>2. PICK u \in User : u = req[q].user
    BY <2>1
  <2>3. failures[u].n \in Nat /\ failures[u].left \in Life /\ failures[u] \in Count
    BY <1>0 DEF CountsTyped, Count
  <2>4. failures[u].n # 0 => [failures[u] EXCEPT !.left = LockDuration] \in Count
    BY <2>3, Lives DEF Count
  <2>5. \/ failures' = failures
        \/ /\ failures[u].n # 0
           /\ failures' = [failures EXCEPT ![u] = [failures[u] EXCEPT !.left = LockDuration]]
    BY <1>6, <2>2 DEF ExpireFailure
  <2>6. failures' \in [User -> Count]
    BY <1>0, <2>4, <2>5 DEF CountsTyped
  <2>7. answered' \in [User -> Nat]
    BY <1>0, <1>6 DEF ExpireFailure, CountsTyped
  <2> QED BY <1>0, <1>6, <2>6, <2>7 DEF ExpireFailure, CountsTyped
<1>7. ASSUME NEW q \in Request, SetLock(q)
      PROVE  CountsTyped'
  BY <1>0, <1>7 DEF SetLock, CountsTyped
<1>8. ASSUME NEW q \in Request, DelFailures(q)
      PROVE  CountsTyped'
  BY <1>0, <1>8 DEF DelFailures, CountsTyped
<1>9. ASSUME NEW q \in Request, RecordLoginFailure(q)
      PROVE  CountsTyped'
  <2>1. req[q].user \in User
    BY <1>3, <1>9 DEF RecordLoginFailure, PC
  <2>2. PICK u \in User : u = req[q].user
    BY <2>1
  <2>3. failures[u].n \in Nat /\ failures[u].left \in Life /\ failures[u] \in Count
    BY <1>0 DEF CountsTyped, Count
  <2>4. [failures[u] EXCEPT !.n = failures[u].n + 1] \in Count
    BY <2>3 DEF Count
  <2>5. \/ failures' = failures
        \/ failures' = [failures EXCEPT ![u] = NoCount]
        \/ failures' = [failures EXCEPT ![u] = [failures[u] EXCEPT !.n = failures[u].n + 1]]
    BY <1>9, <2>2 DEF RecordLoginFailure
  <2>6. failures' \in [User -> Count]
    BY <1>0, <2>4, <2>5 DEF CountsTyped
  <2>7. answered' \in [User -> Nat]
    BY <1>0, <1>9 DEF RecordLoginFailure, CountsTyped
  <2>8. lock' \in [User -> 0 .. LockDuration] /\ stale' \subseteq User
    BY <1>0, <1>9, <2>1 DEF RecordLoginFailure, CountsTyped
  <2> QED BY <2>6, <2>7, <2>8 DEF CountsTyped
<1>10. ASSUME NEW q \in Request, ResetLoginFailure(q)
       PROVE  CountsTyped'
  <2>1. 0 \in 0 .. LockDuration
    BY NumberAssumption
  <2> QED BY <1>0, <1>10, <2>1 DEF ResetLoginFailure, CountsTyped
<1> QED
  BY <1>1, <1>2, <1>4, <1>5, <1>6, <1>7, <1>8, <1>9, <1>10
  DEF Next, vars, counts, codes, IssueCaptcha, SendCaptcha, BeginLogin,
      BeginUnchecked, BeginUpdateEmail, GetCaptcha, DelCaptcha, GetCode, DelCode,
      UpdateUserEmail, Abort

\* The steps keep the captchas and the mailed codes typed.
LEMMA CodesStep ==
  ASSUME Typed, [Next]_vars
  PROVE  CodesTyped'
<1>0. CodesTyped
  BY DEF Typed
<1>1. CASE UNCHANGED codes
  BY <1>0, <1>1 DEF codes, CodesTyped
<1>2. CASE Tick
  <2>1. captcha' \in [Captcha -> {None} \cup [left: Life]]
    BY <1>0, <1>2, AgedType DEF Tick, CodesTyped
  <2>2. mailed' \in {None} \cup Mail
    BY <1>0, <1>2, AgedType DEF Tick, CodesTyped
  <2> QED BY <1>0, <1>2, <2>1, <2>2 DEF Tick, CodesTyped
<1>3. ASSUME NEW c \in Captcha, IssueCaptcha(c)
      PROVE  CodesTyped'
  <2>1. [left |-> IF store = "redis" THEN CaptchaTTL ELSE Forever] \in [left: Life]
    BY Lives
  <2> QED BY <1>0, <1>3, <2>1 DEF IssueCaptcha, CodesTyped
<1>4. ASSUME NEW k \in Code, SendCaptcha(k)
      PROVE  CodesTyped'
  <2>1. [code |-> k, left |-> CodeTTL] \in Mail
    BY Lives DEF Mail
  <2> QED BY <1>0, <1>4, <2>1 DEF SendCaptcha, CodesTyped
<1>5. ASSUME NEW q \in Request, GetCaptcha(q) \/ DelCaptcha(q)
      PROVE  CodesTyped'
  BY <1>0, <1>5 DEF GetCaptcha, DelCaptcha, CodesTyped
<1>6. ASSUME NEW q \in Request, DelCode(q) \/ UpdateUserEmail(q)
      PROVE  CodesTyped'
  BY <1>0, <1>6 DEF DelCode, UpdateUserEmail, CodesTyped
<1> QED
  BY <1>1, <1>2, <1>3, <1>4, <1>5, <1>6
  DEF Next, vars, codes, BeginLogin, BeginUnchecked, BeginUpdateEmail,
      CheckLoginLock, RecordLoginFailure, ResetLoginFailure, IncrFailure,
      ExpireFailure, SetLock, DelFailures, GetCode, Abort

\* The initial states are typed.
LEMMA TypedInit == Init => Typed
<1>1. Init => CountsTyped
  BY Lives, NumberAssumption DEF Init, CountsTyped, NoCount, Count
<1> QED BY <1>1 DEF Init, Typed, EnvTyped, HandlersTyped, CodesTyped

\* Every step keeps the types.
LEMMA TypedStep ==
  ASSUME Typed, [Next]_vars
  PROVE  Typed'
<1>1. UNCHANGED <<called, store>>
  BY DEF Next, vars, env, Tick, IssueCaptcha, SendCaptcha, BeginLogin,
     BeginUnchecked, BeginUpdateEmail, GetCaptcha, DelCaptcha, CheckLoginLock,
     RecordLoginFailure, ResetLoginFailure, IncrFailure, ExpireFailure, SetLock,
     DelFailures, GetCode, DelCode, UpdateUserEmail, Abort
<1>2. EnvTyped'
  BY <1>1 DEF Typed, EnvTyped
<1> QED BY <1>2, HandlersStep, CountsStep, CodesStep DEF Typed

\* Counts, locks, captchas, codes and handlers are well-typed in every
\* reachable state; a count that nobody has is not there.
THEOREM TypeCorrect == Spec => []TypeOK
<1>1. Typed => TypeOK
  BY DEF Typed, EnvTyped, HandlersTyped, CountsTyped, CodesTyped, TypeOK
<1> QED BY <1>1, TypedInit, TypedStep, PTL DEF Spec

-----------------------------------------------------------------------------
(* Uses of a captcha and of a mailed code.  The handlers that are past the *)
(* comparison and have not deleted the key are counted with the uses.      *)

CodePC  == {"getCaptcha", "delCaptcha", "getCode", "delCode", "writeEmail"}
SpendPC == {"delCaptcha", "delCode", "writeEmail"}

Spending(x) == {q \in Request : req[q].pc \in SpendPC /\ req[q].code = x}

\* The captcha or the code is still there to be compared with.
Waiting(x) ==
  \/ x \in Captcha /\ captcha[x] # None
  \/ mailed # None /\ mailed.code = x

UsesBounded(x) ==
  IF store = "redis" THEN used[x] + Cardinality(Spending(x)) <= Cardinality(Request)
  ELSE used[x] <= 1

\* While a code waits nobody has used it or deleted it; one that was not drawn
\* is unknown; in memory nobody stands between comparison and deletion.
Unspent(x) ==
  Waiting(x) => /\ x \in drawn /\ used[x] = 0
                /\ \A q \in Request : ~(req[q].pc = "writeEmail" /\ req[q].code = x)

Spent ==
  /\ \A x \in Captcha \cup Code :
       UsesBounded(x) /\ Unspent(x) /\ (x \notin drawn => used[x] = 0)
  /\ \A q \in Request :
       /\ req[q].pc \in CodePC => req[q].code \in drawn
       /\ req[q].pc \in SpendPC \cup {"getCode"} => store = "redis"

\* The handlers that are about to use a code are finitely many.
LEMMA SpendingFinite ==
  ASSUME NEW x
  PROVE  /\ IsFiniteSet(Spending(x)) /\ Cardinality(Spending(x)) \in Nat
         /\ Cardinality(Request) \in Nat
         /\ Cardinality(Spending(x)) <= Cardinality(Request)
BY SetAssumption, FS_Subset, FS_CardinalityType DEF Spending

\* Which handlers are about to use a code after one of them has moved.
LEMMA SpendingMoves ==
  ASSUME Typed, NEW q \in Request, NEW h, req' = [req EXCEPT ![q] = h], NEW x
  PROVE  /\ \A p \in Request : req'[p] = IF p = q THEN h ELSE req[p]
         /\ h.pc \notin SpendPC \/ h.code # x
              => Spending(x)' \subseteq Spending(x) \ {q}
         /\ q \in Spending(x) => Spending(x)' \subseteq Spending(x)
<1>1. \A p \in Request : req'[p] = IF p = q THEN h ELSE req[p]
  BY DEF Typed, HandlersTyped
<1> QED BY <1>1 DEF Spending

\* A step that adds no such handler and does not use the code keeps its bound.
LEMMA BoundShrinks ==
  ASSUME Typed, NEW x \in Captcha \cup Code, UsesBounded(x), store' = store,
         used'[x] = used[x], Spending(x)' \subseteq Spending(x)
  PROVE  UsesBounded(x)'
<1>1. /\ Cardinality(Spending(x)') <= Cardinality(Spending(x))
      /\ Cardinality(Spending(x)') \in Nat /\ Cardinality(Spending(x)) \in Nat
      /\ Cardinality(Request) \in Nat
  BY SpendingFinite, FS_Subset, FS_CardinalityType
<1>2. used[x] \in Nat
  BY DEF Typed, CodesTyped
<1> QED BY <1>1, <1>2 DEF UsesBounded

\* A handler that goes elsewhere than to the use of a code.
LEMMA MoveSpent ==
  ASSUME Typed, Spent, NEW q \in Request, NEW h, req' = [req EXCEPT ![q] = h],
         h.pc \notin SpendPC,
         h.pc \in {"getCaptcha", "getCode"} => h.code \in drawn,
         h.pc = "getCode" => store = "redis",
         UNCHANGED <<store, captcha, mailed, drawn, used>>
  PROVE  Spent'
<1>1. \A p \in Request : req'[p] = IF p = q THEN h ELSE req[p]
  BY SpendingMoves
<1>2. ASSUME NEW x \in Captcha \cup Code
      PROVE  UsesBounded(x)' /\ Unspent(x)' /\ (x \notin drawn' => used'[x] = 0)
  <2>1. Spending(x)' \subseteq Spending(x)
    BY SpendingMoves
  <2>2. UsesBounded(x) /\ Unspent(x) /\ (x \notin drawn => used[x] = 0)
    BY DEF Spent
  <2>3. UsesBounded(x)'
    BY <2>1, <2>2, BoundShrinks
  <2>4. Unspent(x)'
    BY <1>1, <2>2 DEF Unspent, Waiting, SpendPC
  <2> QED BY <2>2, <2>3, <2>4
<1>3. \A p \in Request :
        /\ req'[p].pc \in CodePC => req'[p].code \in drawn
        /\ req'[p].pc \in SpendPC \cup {"getCode"} => store = "redis"
  BY <1>1 DEF Spent, CodePC, SpendPC
<1> QED BY <1>2, <1>3 DEF Spent

\* A step of no handler: what waits now waited before, or is new.
LEMMA EnvSpent ==
  ASSUME Typed, Spent, UNCHANGED <<store, req, used>>, drawn \subseteq drawn',
         \A x \in Captcha \cup Code :
           Waiting(x)' => x \in drawn' /\ (Waiting(x) \/ x \notin drawn)
  PROVE  Spent'
<1>1. ASSUME NEW x \in Captcha \cup Code
      PROVE  UsesBounded(x)' /\ Unspent(x)' /\ (x \notin drawn' => used'[x] = 0)
  <2>1. Spending(x)' \subseteq Spending(x)
    BY DEF Spending
  <2>2. UsesBounded(x) /\ Unspent(x) /\ (x \notin drawn => used[x] = 0)
    BY DEF Spent
  <2>3. UsesBounded(x)'
    BY <2>1, <2>2, BoundShrinks
  <2>4. Unspent(x)'
    <3> SUFFICES ASSUME Waiting(x)'
                 PROVE  /\ x \in drawn' /\ used[x] = 0
                        /\ \A q \in Request : ~(req[q].pc = "writeEmail" /\ req[q].code = x)
      BY DEF Unspent
    <3>1. CASE Waiting(x)
      BY <2>2, <3>1 DEF Unspent
    <3>2. CASE x \notin drawn
      BY <2>2, <3>2 DEF Spent, CodePC
    <3> QED BY <3>1, <3>2
  <2> QED BY <2>2, <2>3, <2>4
<1> QED BY <1>1 DEF Spent

\* A handler that has compared a code which is there: nobody had used it.
LEMMA TakeSpent ==
  ASSUME Typed, Spent, NEW q \in Request, NEW h, req' = [req EXCEPT ![q] = h],
         h.pc \in {"delCaptcha", "delCode"}, h.code \in Captcha \cup Code,
         Waiting(h.code), store = "redis",
         UNCHANGED <<store, captcha, mailed, drawn, used>>
  PROVE  Spent'
<1>0. PICK c \in Captcha \cup Code : c = h.code
  OBVIOUS
<1>1. \A p \in Request : req'[p] = IF p = q THEN h ELSE req[p]
  BY SpendingMoves
<1>2. ASSUME NEW x \in Captcha \cup Code
      PROVE  UsesBounded(x)' /\ Unspent(x)' /\ (x \notin drawn' => used'[x] = 0)
  <2>1. UsesBounded(x) /\ Unspent(x) /\ (x \notin drawn => used[x] = 0)
    BY DEF Spent
  <2>2. CASE x # c
    <3>1. Spending(x)' \subseteq Spending(x)
      BY <1>0, <2>2, SpendingMoves
    <3> QED BY <1>1, <2>1, <3>1, BoundShrinks DEF Unspent, Waiting
  <2>3. CASE x = c
    <3>1. used[x] = 0
      BY <1>0, <2>1, <2>3 DEF Unspent
    <3>2. /\ Cardinality(Spending(x)') <= Cardinality(Request)
          /\ Cardinality(Spending(x)') \in Nat
      BY SetAssumption, FS_Subset, FS_CardinalityType DEF Spending
    <3>3. UsesBounded(x)'
      BY <3>1, <3>2 DEF UsesBounded
    <3> QED BY <1>1, <2>1, <3>3 DEF Unspent, Waiting
  <2> QED BY <2>2, <2>3
<1>3. c \in drawn
  BY <1>0 DEF Spent, Unspent
<1>4. \A p \in Request :
        /\ req'[p].pc \in CodePC => req'[p].code \in drawn
        /\ req'[p].pc \in SpendPC \cup {"getCode"} => store = "redis"
  BY <1>0, <1>1, <1>3 DEF Spent
<1> QED BY <1>2, <1>4 DEF Spent

\* A handler that uses a code is past it: it waits for nobody any more.
LEMMA UseSpent ==
  ASSUME Typed, Spent, NEW q \in Request, NEW c \in Captcha \cup Code, NEW h,
         req' = [req EXCEPT ![q] = h], h.pc \notin CodePC,
         q \in Spending(c), used' = [used EXCEPT ![c] = @ + 1],
         UNCHANGED <<store, drawn>>,
         \A x \in Captcha \cup Code : Waiting(x)' => Waiting(x) /\ x # c
  PROVE  Spent'
<1>1. \A p \in Request : req'[p] = IF p = q THEN h ELSE req[p]
  BY SpendingMoves
<1>2. store = "redis" /\ c \in drawn /\ h.pc \notin SpendPC
  BY DEF Spent, Spending, CodePC, SpendPC
<1>3. ASSUME NEW x \in Captcha \cup Code
      PROVE  UsesBounded(x)' /\ Unspent(x)' /\ (x \notin drawn' => used'[x] = 0)
  <2>1. UsesBounded(x) /\ Unspent(x) /\ (x \notin drawn => used[x] = 0)
    BY DEF Spent
  <2>2. Spending(x)' \subseteq Spending(x) \ {q}
    BY <1>2, SpendingMoves
  <2>3. CASE x # c
    <3>1. used'[x] = used[x]
      BY <2>3 DEF Typed, CodesTyped
    <3>2. UsesBounded(x)'
      BY <2>1, <2>2, <3>1, BoundShrinks
    <3>3. Unspent(x)'
      BY <1>1, <1>2, <2>1, <3>1 DEF Unspent, SpendPC
    <3> QED BY <2>1, <3>1, <3>2, <3>3
  <2>4. CASE x = c
    <3>1. used'[x] = used[x] + 1 /\ used[x] \in Nat
      BY <2>4 DEF Typed, CodesTyped
    <3>2. IsFiniteSet(Spending(x)) /\ Cardinality(Spending(x)) \in Nat
          /\ Cardinality(Request) \in Nat
      BY SpendingFinite
    <3>3. /\ IsFiniteSet(Spending(x) \ {q})
          /\ Cardinality(Spending(x) \ {q}) = Cardinality(Spending(x)) - 1
      BY <2>4, <3>2, FS_RemoveElement
    <3>4. /\ Cardinality(Spending(x)') <= Cardinality(Spending(x) \ {q})
          /\ Cardinality(Spending(x)') \in Nat
      BY <2>2, <3>3, FS_Subset, FS_CardinalityType
    <3>5. used[x] + Cardinality(Spending(x)) <= Cardinality(Request)
      BY <1>2, <2>1 DEF UsesBounded
    <3>6. UsesBounded(x)'
      BY <1>2, <3>1, <3>2, <3>3, <3>4, <3>5 DEF UsesBounded
    <3>7. Unspent(x)' /\ x \in drawn'
      BY <1>2, <2>4 DEF Unspent
    <3> QED BY <3>6, <3>7
  <2> QED BY <2>3, <2>4
<1>4. \A p \in Request :
        /\ req'[p].pc \in CodePC => req'[p].code \in drawn
        /\ req'[p].pc \in SpendPC \cup {"getCode"} => store = "redis"
  BY <1>1 DEF Spent, CodePC, SpendPC
<1> QED BY <1>3, <1>4 DEF Spent

\* In memory the captcha is compared and deleted at once.
LEMMA OnceSpent ==
  ASSUME Typed, Spent, NEW q \in Request, GetCaptcha(q), store # "redis"
  PROVE  Spent'
<1> DEFINE h == [req[q] EXCEPT !.pc = "checkLock"]
<1>1. req[q] \in Handler /\ req[q].code \in Captcha /\ req[q].pc = "getCaptcha"
  BY AtPlace DEF GetCaptcha, PC, Ready
<1>2. PICK c \in Captcha : c = req[q].code
  BY <1>1
<1>3. /\ req' = [req EXCEPT ![q] = h] /\ h.pc = "checkLock"
      /\ captcha[c] # None
      /\ captcha' = [captcha EXCEPT ![c] = None]
      /\ used' = [used EXCEPT ![c] = @ + 1]
      /\ UNCHANGED <<store, mailed, drawn>>
  BY <1>1, <1>2 DEF GetCaptcha, Goto, Handler, env
<1> HIDE DEF h
<1>4. \A p \in Request : req'[p] = IF p = q THEN h ELSE req[p]
  BY <1>3, SpendingMoves
<1>5. c \in drawn /\ used[c] = 0
  BY <1>3 DEF Spent, Unspent, Waiting
<1>6. ASSUME NEW x \in Captcha \cup Code
      PROVE  UsesBounded(x)' /\ Unspent(x)' /\ (x \notin drawn' => used'[x] = 0)
  <2>1. UsesBounded(x) /\ Unspent(x) /\ (x \notin drawn => used[x] = 0)
    BY DEF Spent
  <2>2. used'[x] = IF x = c THEN used[x] + 1 ELSE used[x]
    BY <1>3 DEF Typed, CodesTyped
  <2>3. UsesBounded(x)'
    BY <1>3, <1>5, <2>1, <2>2 DEF UsesBounded
  <2>4. Waiting(x)' => Waiting(x) /\ x # c
    <3>1. x = c => ~Waiting(x)'
      <4>1. mailed # None => mailed.code \in Code
        BY DEF Typed, CodesTyped, Mail
      <4> QED BY <1>3, <4>1, SetAssumption DEF Waiting, Typed, CodesTyped
    <3>2. Waiting(x)' => Waiting(x)
      BY <1>3 DEF Waiting, Typed, CodesTyped
    <3> QED BY <3>1, <3>2
  <2>5. Unspent(x)'
    BY <1>3, <1>4, <2>1, <2>2, <2>4 DEF Unspent
  <2> QED BY <1>3, <1>5, <2>1, <2>2, <2>3, <2>5
<1>7. \A p \in Request :
        /\ req'[p].pc \in CodePC => req'[p].code \in drawn
        /\ req'[p].pc \in SpendPC \cup {"getCode"} => store = "redis"
  BY <1>3, <1>4 DEF Spent, CodePC, SpendPC
<1> QED BY <1>3, <1>6, <1>7 DEF Spent

\* The steps that are about captchas.
LEMMA CaptchaSpent ==
  ASSUME Typed, Spent, NEW q \in Request, GetCaptcha(q) \/ DelCaptcha(q)
  PROVE  Spent'
<1>1. CASE GetCaptcha(q) /\ store = "redis"
  <2> DEFINE h == [req[q] EXCEPT !.pc = "delCaptcha"]
  <2>1. req[q] \in Handler /\ req[q].code \in Captcha
    BY <1>1, AtPlace DEF GetCaptcha, PC, Ready
  <2>2. /\ req' = [req EXCEPT ![q] = h] /\ h.pc = "delCaptcha"
        /\ h.code = req[q].code /\ captcha[h.code] # None
        /\ UNCHANGED <<store, captcha, mailed, drawn, used>>
    BY <1>1, <2>1 DEF GetCaptcha, Goto, Handler, env
  <2> HIDE DEF h
  <2>3. Waiting(h.code) /\ h.code \in Captcha \cup Code
    BY <2>1, <2>2 DEF Waiting
  <2> QED BY <1>1, <2>2, <2>3, TakeSpent
<1>2. CASE GetCaptcha(q) /\ store # "redis"
  BY <1>2, OnceSpent
<1>3. CASE DelCaptcha(q)
  <2> DEFINE h == [req[q] EXCEPT !.pc = "checkLock"]
  <2>1. req[q] \in Handler /\ req[q].code \in Captcha
    BY <1>3, AtPlace DEF DelCaptcha, PC, Ready
  <2>2. PICK c \in Captcha : c = req[q].code
    BY <2>1
  <2>3. /\ req' = [req EXCEPT ![q] = h] /\ h.pc \notin CodePC
        /\ captcha' = [captcha EXCEPT ![c] = None]
        /\ used' = [used EXCEPT ![c] = @ + 1]
        /\ UNCHANGED <<store, mailed, drawn>>
    BY <1>3, <2>1, <2>2 DEF DelCaptcha, Goto, Handler, CodePC, env
  <2> HIDE DEF h
  <2>4. q \in Spending(c)
    BY <1>3, <2>2 DEF DelCaptcha, Spending, SpendPC
  <2>5. \A x \in Captcha \cup Code : Waiting(x)' => Waiting(x) /\ x # c
    <3>1. mailed # None => mailed.code \in Code
      BY DEF Typed, CodesTyped, Mail
    <3>2. ~Waiting(c)'
      BY <2>3, <3>1, SetAssumption DEF Waiting, Typed, CodesTyped
    <3>3. \A x \in Captcha \cup Code : Waiting(x)' => Waiting(x)
      BY <2>3 DEF Waiting, Typed, CodesTyped
    <3> QED BY <3>2, <3>3
  <2> QED BY <2>3, <2>4, <2>5, UseSpent
<1> QED BY <1>1, <1>2, <1>3

\* The steps that are about mailed codes.
LEMMA MailSpent ==
  ASSUME Typed, Spent, NEW q \in Request,
         GetCode(q) \/ DelCode(q) \/ UpdateUserEmail(q)
  PROVE  Spent'
<1>0. req[q] \in Handler /\ req[q].code \in Code
  BY AtPlace DEF GetCode, DelCode, UpdateUserEmail, PC, Ready
<1>1. CASE GetCode(q)
  <2> DEFINE h == [req[q] EXCEPT !.pc = "delCode"]
  <2>1. /\ req' = [req EXCEPT ![q] = h] /\ h.pc = "delCode"
        /\ h.code = req[q].code /\ mailed # None /\ mailed.code = h.code
        /\ UNCHANGED <<store, captcha, mailed, drawn, used>>
    BY <1>0, <1>1 DEF GetCode, Goto, Handler, env, codes
  <2> HIDE DEF h
  <2>2. store = "redis"
    BY <1>1 DEF GetCode, Spent
  <2>3. Waiting(h.code) /\ h.code \in Captcha \cup Code
    BY <1>0, <2>1 DEF Waiting
  <2> QED BY <2>1, <2>2, <2>3, TakeSpent
<1>2. CASE DelCode(q)
  <2> DEFINE h == [req[q] EXCEPT !.pc = "writeEmail"]
  <2>1. /\ req' = [req EXCEPT ![q] = h] /\ h.pc = "writeEmail"
        /\ h.code = req[q].code /\ mailed' = None
        /\ UNCHANGED <<store, captcha, drawn, used>>
    BY <1>0, <1>2 DEF DelCode, Goto, Handler, env
  <2> HIDE DEF h
  <2>2. \A p \in Request : req'[p] = IF p = q THEN h ELSE req[p]
    BY <2>1, SpendingMoves
  <2>3. ASSUME NEW x \in Captcha \cup Code
        PROVE  UsesBounded(x)' /\ Unspent(x)' /\ (x \notin drawn' => used'[x] = 0)
    <3>1. UsesBounded(x) /\ Unspent(x) /\ (x \notin drawn => used[x] = 0)
      BY DEF Spent
    <3>2. Spending(x)' \subseteq Spending(x)
      <4>1. h.code = x => q \in Spending(x)
        BY <1>2, <2>1 DEF DelCode, Spending, SpendPC
      <4> QED BY <2>1, <4>1, SpendingMoves
    <3>3. UsesBounded(x)'
      BY <2>1, <3>1, <3>2, BoundShrinks
    <3>4. Waiting(x)' => Waiting(x) /\ x \in Captcha
      BY <2>1 DEF Waiting
    <3>5. x \in Captcha => x # h.code
      BY <1>0, <2>1, SetAssumption
    <3>6. Unspent(x)'
      BY <2>1, <2>2, <3>1, <3>4, <3>5 DEF Unspent
    <3> QED BY <2>1, <3>1, <3>3, <3>6
  <2>4. \A p \in Request :
          /\ req'[p].pc \in CodePC => req'[p].code \in drawn
          /\ req'[p].pc \in SpendPC \cup {"getCode"} => store = "redis"
    BY <1>2, <2>1, <2>2 DEF Spent, CodePC, SpendPC, DelCode
  <2> QED BY <2>1, <2>3, <2>4 DEF Spent
<1>3. CASE UpdateUserEmail(q)
  <2>1. PICK c \in Code : c = req[q].code
    BY <1>0
  <2>2. /\ req' = [req EXCEPT ![q] = Idle] /\ Idle.pc \notin CodePC
        /\ used' = [used EXCEPT ![c] = @ + 1]
        /\ UNCHANGED <<store, captcha, mailed, drawn>>
    BY <1>3, <2>1 DEF UpdateUserEmail, Return, Idle, CodePC, env
  <2>3. q \in Spending(c)
    BY <1>3, <2>1 DEF UpdateUserEmail, Spending, SpendPC
  <2>4. \A x \in Captcha \cup Code : Waiting(x)' => Waiting(x) /\ x # c
    <3>1. \A x \in Captcha \cup Code : Waiting(x)' <=> Waiting(x)
      BY <2>2 DEF Waiting
    <3>2. ~Waiting(c)
      BY <1>3, <2>1 DEF Spent, Unspent, UpdateUserEmail
    <3> QED BY <3>1, <3>2
  <2> QED BY <2>2, <2>3, <2>4, UseSpent
<1> QED BY <1>1, <1>2, <1>3

\* Every step keeps the bounds on uses.
LEMMA SpentStep ==
  ASSUME Typed, Spent, [Next]_vars
  PROVE  Spent'
<1>1. CASE Tick
  <2>1. UNCHANGED <<store, req, used, drawn>>
    BY <1>1 DEF Tick, env
  <2>2. \A c \in Captcha : captcha'[c] # None => captcha[c] # None
    BY <1>1 DEF Tick, Aged
  <2>3. mailed' # None => mailed # None /\ mailed'.code = mailed.code
    BY <1>1, AgedType DEF Tick, Typed, CodesTyped
  <2>4. \A x \in Captcha \cup Code : Waiting(x)' => Waiting(x)
    BY <2>2, <2>3 DEF Waiting
  <2>5. \A x \in Captcha \cup Code : Waiting(x) => x \in drawn
    BY DEF Spent, Unspent
  <2> QED BY <2>1, <2>4, <2>5, EnvSpent
<1>2. ASSUME NEW c \in Captcha, IssueCaptcha(c)
      PROVE  Spent'
  <2>1. /\ UNCHANGED <<store, req, used, mailed>>
        /\ c \notin drawn /\ drawn' = drawn \cup {c}
        /\ \A x \in Captcha : x # c => captcha'[x] = captcha[x]
    BY <1>2 DEF IssueCaptcha, env, Typed, CodesTyped
  <2>2. \A x \in Captcha \cup Code : Waiting(x)' => Waiting(x) \/ x = c
    BY <2>1 DEF Waiting
  <2>3. \A x \in Captcha \cup Code : Waiting(x) => x \in drawn
    BY DEF Spent, Unspent
  <2> QED BY <2>1, <2>2, <2>3, EnvSpent
<1>3. ASSUME NEW k \in Code, SendCaptcha(k)
      PROVE  Spent'
  <2>1. /\ UNCHANGED <<store, req, used, captcha>>
        /\ k \notin drawn /\ drawn' = drawn \cup {k} /\ mailed'.code = k
    BY <1>3 DEF SendCaptcha, env
  <2>2. \A x \in Captcha \cup Code : Waiting(x)' => Waiting(x) \/ x = k
    BY <2>1 DEF Waiting
  <2>3. \A x \in Captcha \cup Code : Waiting(x) => x \in drawn
    BY DEF Spent, Unspent
  <2> QED BY <2>1, <2>2, <2>3, EnvSpent
<1>4. ASSUME NEW q \in Request, NEW pc, NEW u, NEW right, NEW x,
             Begin(q, pc, u, right, x), UNCHANGED <<env, codes>>,
             \/ pc = "checkLock"
             \/ pc = "getCaptcha" /\ x \in drawn
             \/ pc = "getCode" /\ x \in drawn /\ store = "redis"
      PROVE  Spent'
  <2> DEFINE h == [pc |-> pc, user |-> u, right |-> right, code |-> x, count |-> 0]
  <2>1. req' = [req EXCEPT ![q] = h] /\ h.pc = pc /\ h.code = x
    BY <1>4 DEF Begin
  <2>2. UNCHANGED <<store, captcha, mailed, drawn, used>>
    BY <1>4 DEF env, codes
  <2> HIDE DEF h
  <2> QED BY <1>4, <2>1, <2>2, MoveSpent DEF SpendPC
<1>5. ASSUME NEW q \in Request, NEW h, req' = [req EXCEPT ![q] = h],
             h.pc \notin CodePC, UNCHANGED <<env, codes>>
      PROVE  Spent'
  <2>1. UNCHANGED <<store, captcha, mailed, drawn, used>>
    BY <1>5 DEF env, codes
  <2>2. h.pc \notin SpendPC /\ h.pc \notin {"getCaptcha", "getCode"}
    BY <1>5 DEF CodePC, SpendPC
  <2> QED BY <1>5, <2>1, <2>2, MoveSpent
<1>6. ASSUME NEW q \in Request, Return(q), UNCHANGED <<env, codes>>
      PROVE  Spent'
  <2>1. Idle.pc \notin CodePC
    BY DEF Idle, CodePC
  <2> QED BY <1>5, <1>6, <2>1 DEF Return
<1>7. ASSUME NEW q \in Request, NEW pc, Goto(q, pc), pc \notin CodePC,
             req[q].pc \in PC, UNCHANGED <<env, codes>>
      PROVE  Spent'
  <2> DEFINE h == [req[q] EXCEPT !.pc = pc]
  <2>1. req' = [req EXCEPT ![q] = h] /\ h.pc = pc
    BY <1>7, AtPlace DEF Goto, Handler
  <2> HIDE DEF h
  <2> QED BY <1>5, <1>7, <2>1
<1>8. ASSUME NEW q \in Request, CheckLoginLock(q)
      PROVE  Spent'
  <2>1. /\ Return(q) \/ Goto(q, "reset") \/ Goto(q, "incr") \/ Goto(q, "record")
        /\ UNCHANGED <<env, codes>> /\ req[q].pc \in PC
    BY <1>8 DEF CheckLoginLock, PC
  <2>2. {"reset", "incr", "record"} \cap CodePC = {}
    BY DEF CodePC
  <2> QED BY <1>6, <1>7, <2>1, <2>2
<1>9. ASSUME NEW q \in Request, IncrFailure(q)
      PROVE  Spent'
  <2>1. UNCHANGED <<env, codes>>
    BY <1>9 DEF IncrFailure
  <2>2. CASE Return(q)
    BY <1>6, <2>1, <2>2
  <2>3. CASE LockThreshold # 0
    <3> DEFINE n == failures[req[q].user].n + 1
    <3> DEFINE h == [req[q] EXCEPT !.pc = "expire", !.count = n]
    <3>1. req' = [req EXCEPT ![q] = h]
      BY <1>9, <2>3 DEF IncrFailure
    <3>2. h.pc = "expire"
      BY <1>9, AtPlace DEF IncrFailure, PC, Handler
    <3> HIDE DEF h
    <3> QED BY <1>5, <2>1, <3>1, <3>2 DEF CodePC
  <2> QED BY <1>9, <2>2, <2>3 DEF IncrFailure
<1>10. ASSUME NEW q \in Request, ExpireFailure(q) \/ SetLock(q)
       PROVE  Spent'
  <2>1. /\ Return(q) \/ Goto(q, "setLock") \/ Goto(q, "delCount")
        /\ UNCHANGED <<env, codes>> /\ req[q].pc \in PC
    BY <1>10 DEF ExpireFailure, SetLock, PC
  <2>2. {"setLock", "delCount"} \cap CodePC = {}
    BY DEF CodePC
  <2> QED BY <1>6, <1>7, <2>1, <2>2
<1>11. CASE UNCHANGED vars
  <2>1. UNCHANGED <<store, req, used, drawn, captcha, mailed>>
    BY <1>11 DEF vars
  <2>2. \A x \in Captcha \cup Code : Waiting(x)' <=> Waiting(x)
    BY <2>1 DEF Waiting
  <2>3. \A x \in Captcha \cup Code : Waiting(x) => x \in drawn
    BY DEF Spent, Unspent
  <2> QED BY <2>1, <2>2, <2>3, EnvSpent
<1>12. ASSUME NEW q \in Request, NEW u \in User, NEW right \in BOOLEAN,
              NEW c \in Captcha, BeginLogin(q, u, right, c)
       PROVE  Spent'
  BY <1>4, <1>12 DEF BeginLogin, env, codes
<1>13. ASSUME NEW q \in Request, NEW u \in User, NEW right \in BOOLEAN,
              BeginUnchecked(q, u, right)
       PROVE  Spent'
  BY <1>4, <1>13 DEF BeginUnchecked, env, codes
<1>14. ASSUME NEW q \in Request, NEW u \in User, NEW k \in Code,
              BeginUpdateEmail(q, u, k)
       PROVE  Spent'
  BY <1>4, <1>14 DEF BeginUpdateEmail, env, codes
<1>15. ASSUME NEW q \in Request,
              \/ RecordLoginFailure(q) \/ ResetLoginFailure(q)
              \/ DelFailures(q) \/ Abort(q)
       PROVE  Spent'
  <2>1. Return(q) /\ UNCHANGED <<env, codes>>
    BY <1>15 DEF RecordLoginFailure, ResetLoginFailure, DelFailures, Abort
  <2> QED BY <1>6, <2>1
<1> QED
  BY <1>1, <1>2, <1>3, <1>8, <1>9, <1>10, <1>11, <1>12, <1>13, <1>14, <1>15,
     CaptchaSpent, MailSpent
  DEF Next

\* A captcha, and a mailed code, opens no more logins or addresses than
\* handlers run together over Redis, and a captcha opens one in memory.
THEOREM UsesOfCodes == Spec => []CodesAreSpent
<1>1. Init => Spent
  <2> SUFFICES ASSUME Init
               PROVE  Spent
    OBVIOUS
  <2>1. ASSUME NEW x \in Captcha \cup Code
        PROVE  UsesBounded(x) /\ Unspent(x) /\ used[x] = 0
    <3>1. used[x] = 0 /\ Spending(x) = {} /\ ~Waiting(x)
      BY DEF Init, Spending, SpendPC, Idle, Waiting
    <3>2. Cardinality(Spending(x)) = 0 /\ Cardinality(Request) \in Nat
      BY <3>1, FS_EmptySet, SpendingFinite
    <3> QED BY <3>1, <3>2 DEF UsesBounded, Unspent
  <2>2. \A q \in Request : req[q].pc \notin CodePC
    BY DEF Init, Idle, CodePC
  <2> QED BY <2>1, <2>2 DEF Spent, CodePC, SpendPC
<1>2. Typed /\ Spent => CodesAreSpent
  <2> SUFFICES ASSUME Typed, Spent, NEW x \in Captcha \cup Code
               PROVE  used[x] <= IF store = "redis" THEN Cardinality(Request) ELSE 1
    BY DEF CodesAreSpent
  <2>1. UsesBounded(x) /\ used[x] \in Nat
    BY DEF Spent, Typed, CodesTyped
  <2>2. Cardinality(Spending(x)) \in Nat /\ Cardinality(Request) \in Nat
    BY SpendingFinite
  <2> QED BY <2>1, <2>2 DEF UsesBounded
<1>3. Typed /\ Spent /\ [Next]_vars => Spent'
  BY SpentStep
<1> QED BY <1>1, <1>2, <1>3, TypedInit, TypedStep, PTL DEF Spec

-----------------------------------------------------------------------------
(* Guesses.  Over Redis a count can be wiped by a handler that has locked  *)
(* the account before, and a handler that has counted answers later.  What *)
(* has been answered, with what is still to be, is the count, or less than *)
(* a threshold for every handler that is not waiting to wipe it.           *)

T == LockThreshold
N == Cardinality(Request)

Pending(u) == {q \in Request : /\ req[q].pc = "expire" /\ req[q].user = u
                               /\ req[q].count < T}
Wiping(u)  == {q \in Request : req[q].pc = "delCount" /\ req[q].user = u}

Low(n) == IF n < T THEN n ELSE T - 1

\* a answers, x handlers that will answer, d that will wipe a count of n.
Fits(a, x, d, n) ==
  IF d = N THEN a + x = 0
  ELSE a + x <= Low(n) + (T - 1) * (N - d - 1) + N

GuessesFit(u) ==
  IF store = "redis"
  THEN Fits(answered[u], Cardinality(Pending(u)), Cardinality(Wiping(u)),
            failures[u].n)
  ELSE /\ answered[u] <= failures[u].n /\ failures[u].n < T
       /\ failures[u].left = Forever

RedisPC == {"incr", "expire", "setLock", "delCount"}

\* Where a handler is fits where the keys are.
Placed(q) == /\ req[q].pc \in RedisPC => store = "redis"
             /\ req[q].pc = "record" => store # "redis"

Guarded ==
  /\ \A u \in User : GuessesFit(u)
  /\ \A q \in Request : Placed(q)

\* What the products of the bound need of arithmetic.
LEMMA Products ==
  ASSUME NEW a \in Nat, NEW b \in Int, NEW c \in Int
  PROVE  /\ a * b \in Int
         /\ b >= 0 => a * b >= 0
         /\ b <= c => a * b <= a * c
         /\ a * (b + 1) = a * b + a
OBVIOUS

\* Nobody has answered since the last lock, right password or end of the count.
LEMMA FitsAnew ==
  ASSUME T > 0, NEW x \in Nat, NEW d \in Nat, NEW n \in Nat, x + d <= N, N \in Nat
  PROVE  Fits(0, x, d, n)
<1>1. T \in Nat /\ T - 1 \in Nat /\ Low(n) \in Nat
  BY NumberAssumption DEF T, Low
<1>2. CASE d = N
  BY <1>2 DEF Fits
<1>3. CASE d # N
  <2>1. N - d - 1 >= 0 /\ N - d - 1 \in Int
    BY <1>3
  <2>2. (T - 1) * (N - d - 1) >= 0 /\ (T - 1) * (N - d - 1) \in Int
    BY <1>1, <2>1, Products
  <2> QED BY <1>1, <1>3, <2>2 DEF Fits
<1> QED BY <1>2, <1>3

\* Fewer handlers have something to do.
LEMMA FitsLess ==
  ASSUME T > 0, NEW a \in Nat, NEW x \in Nat, NEW d \in Nat, NEW n \in Nat,
         Fits(a, x, d, n), N \in Nat, d <= N,
         NEW y \in Nat, NEW e \in Nat, y <= x, e <= d
  PROVE  Fits(a, y, e, n)
<1>1. T \in Nat /\ T - 1 \in Nat /\ Low(n) \in Nat
  BY NumberAssumption DEF T, Low
<1>2. CASE d = N /\ e = N
  BY <1>2 DEF Fits
<1>3. CASE d = N /\ e # N
  <2>1. a + y = 0
    BY <1>3 DEF Fits
  <2>2. N - e - 1 >= 0 /\ N - e - 1 \in Int
    BY <1>3
  <2>3. (T - 1) * (N - e - 1) >= 0 /\ (T - 1) * (N - e - 1) \in Int
    BY <1>1, <2>2, Products
  <2> QED BY <1>1, <1>3, <2>1, <2>3 DEF Fits
<1>4. CASE d # N
  <2>1. N - d - 1 <= N - e - 1 /\ N - d - 1 \in Int /\ N - e - 1 \in Int /\ e # N
    BY <1>4
  <2>2. /\ (T - 1) * (N - d - 1) <= (T - 1) * (N - e - 1)
        /\ (T - 1) * (N - d - 1) \in Int /\ (T - 1) * (N - e - 1) \in Int
    BY <1>1, <2>1, Products
  <2> QED BY <1>1, <1>4, <2>1, <2>2 DEF Fits
<1> QED BY <1>2, <1>3, <1>4

\* A failure is counted, and will be answered if it is below the threshold.
LEMMA FitsCount ==
  ASSUME T > 0, NEW a \in Nat, NEW x \in Nat, NEW d \in Nat, NEW n \in Nat,
         Fits(a, x, d, n), N \in Nat, d < N,
         NEW y \in Nat, y <= x + 1, n + 1 < T \/ y <= x
  PROVE  Fits(a, y, d, n + 1)
<1>1. T \in Nat /\ T - 1 \in Nat
  BY NumberAssumption DEF T
<1>2. (T - 1) * (N - d - 1) \in Int
  BY <1>1, Products
<1> QED BY <1>1, <1>2 DEF Fits, Low

\* One of those who will answer does.
LEMMA FitsAnswer ==
  ASSUME T > 0, NEW a \in Nat, NEW x \in Nat, NEW d \in Nat, NEW n \in Nat,
         Fits(a, x, d, n), N \in Nat, NEW y \in Nat, y <= x - 1
  PROVE  Fits(a + 1, y, d, n)
<1>1. T \in Nat /\ T - 1 \in Nat /\ Low(n) \in Nat
  BY NumberAssumption DEF T, Low
<1>2. (T - 1) * (N - d - 1) \in Int
  BY <1>1, Products
<1> QED BY <1>1, <1>2 DEF Fits

\* One of those who will wipe the count does: at most a threshold less one is
\* lost, and as much was kept for it.
LEMMA FitsWipe ==
  ASSUME T > 0, NEW a \in Nat, NEW x \in Nat, NEW d \in Nat, NEW n \in Nat,
         Fits(a, x, d, n), N \in Nat, d <= N,
         NEW y \in Nat, NEW e \in Nat, y <= x, e <= d - 1
  PROVE  Fits(a, y, e, 0)
<1>1. T \in Nat /\ T - 1 \in Nat /\ Low(n) \in Nat /\ Low(n) <= T - 1 /\ Low(0) = 0
  BY NumberAssumption DEF T, Low
<1>2. N - e - 1 >= 0 /\ N - e - 1 \in Int /\ N - d - 1 \in Int /\ e # N
  BY <1>1
<1>3. (T - 1) * (N - e - 1) >= 0 /\ (T - 1) * (N - e - 1) \in Int
      /\ (T - 1) * (N - d - 1) \in Int
  BY <1>1, <1>2, Products
<1>4. CASE d = N
  <2>1. a + y = 0
    BY <1>4 DEF Fits
  <2> QED BY <1>1, <1>2, <1>3, <2>1 DEF Fits
<1>5. CASE d # N
  <2>1. (T - 1) * ((N - d - 1) + 1) = (T - 1) * (N - d - 1) + (T - 1)
    BY <1>1, <1>2, Products
  <2>2. (N - d - 1) + 1 <= N - e - 1 /\ (N - d - 1) + 1 \in Int
    BY <1>2
  <2>3. (T - 1) * ((N - d - 1) + 1) <= (T - 1) * (N - e - 1)
    BY <1>1, <1>2, <2>2, Products
  <2> QED BY <1>1, <1>2, <1>3, <1>5, <2>1, <2>3 DEF Fits
<1> QED BY <1>4, <1>5

\* What fits is within the bound.
LEMMA FitsBound ==
  ASSUME T > 0, NEW a \in Nat, NEW x \in Nat, NEW d \in Nat, NEW n \in Nat,
         Fits(a, x, d, n), N \in Nat, d <= N
  PROVE  a <= T * N
<1>1. T \in Nat /\ T - 1 \in Nat /\ Low(n) \in Nat /\ Low(n) <= T - 1
  BY NumberAssumption DEF T, Low
<1>2. CASE d = N
  <2>1. a = 0 /\ T * N >= 0
    BY <1>1, <1>2, Products DEF Fits
  <2> QED BY <2>1
<1>3. CASE d # N
  <2>1. N - d - 1 <= N - 1 /\ N - d - 1 \in Int /\ N - 1 \in Int
    BY <1>3
  <2>2. (T - 1) * (N - d - 1) <= (T - 1) * (N - 1)
        /\ (T - 1) * (N - d - 1) \in Int /\ (T - 1) * (N - 1) \in Int
    BY <1>1, <2>1, Products
  <2>3. (T - 1) * ((N - 1) + 1) = (T - 1) * (N - 1) + (T - 1)
    BY <1>1, <2>1, Products
  <2>4. (T - 1) * N + N = T * N
    BY <1>1
  <2>5. (N - 1) + 1 = N
    OBVIOUS
  <2>6. a <= (T - 1) * N + N
    BY <1>1, <1>3, <2>2, <2>3, <2>5 DEF Fits
  <2> QED BY <2>4, <2>6
<1> QED BY <1>2, <1>3

\* Before and after a step, nobody is to answer and to wipe at once.
LEMMA Counting ==
  ASSUME NEW u
  PROVE  /\ N \in Nat
         /\ IsFiniteSet(Pending(u)) /\ Cardinality(Pending(u)) \in Nat
         /\ IsFiniteSet(Wiping(u)) /\ Cardinality(Wiping(u)) \in Nat
         /\ Cardinality(Pending(u)) + Cardinality(Wiping(u)) <= N
         /\ Cardinality(Pending(u)') \in Nat /\ Cardinality(Wiping(u)') \in Nat
         /\ Cardinality(Pending(u)') + Cardinality(Wiping(u)') <= N
<1>1. ASSUME NEW A \in SUBSET Request, NEW B \in SUBSET Request, A \cap B = {}
      PROVE  /\ N \in Nat /\ IsFiniteSet(A) /\ IsFiniteSet(B)
             /\ Cardinality(A) \in Nat /\ Cardinality(B) \in Nat
             /\ Cardinality(A) + Cardinality(B) <= N
  <2>1. IsFiniteSet(A) /\ IsFiniteSet(B) /\ IsFiniteSet(A \cup B)
    BY SetAssumption, FS_Subset, FS_Union
  <2>2. Cardinality(A) \in Nat /\ Cardinality(B) \in Nat /\ N \in Nat
    BY <2>1, SetAssumption, FS_CardinalityType DEF N
  <2>3. Cardinality(A \cup B) = Cardinality(A) + Cardinality(B)
    <3>1. Cardinality(A \cap B) = 0
      BY <1>1, FS_EmptySet
    <3>2. Cardinality(A \cup B)
            = Cardinality(A) + Cardinality(B) - Cardinality(A \cap B)
      BY <2>1, FS_Union
    <3> QED BY <2>2, <3>1, <3>2
  <2>4. Cardinality(A \cup B) <= N
    BY SetAssumption, FS_Subset DEF N
  <2> QED BY <2>1, <2>2, <2>3, <2>4
<1>2. /\ Pending(u) \in SUBSET Request /\ Wiping(u) \in SUBSET Request
      /\ Pending(u) \cap Wiping(u) = {}
  BY DEF Pending, Wiping
<1>3. /\ Pending(u)' \in SUBSET Request /\ Wiping(u)' \in SUBSET Request
      /\ Pending(u)' \cap Wiping(u)' = {}
  BY DEF Pending, Wiping
<1> QED BY <1>1, <1>2, <1>3

\* The types of the numbers of a user.
LEMMA Numbers ==
  ASSUME Typed, NEW u \in User
  PROVE  /\ answered[u] \in Nat /\ failures[u] \in Count
         /\ failures[u].n \in Nat /\ failures[u].left \in Life
BY DEF Typed, CountsTyped, Count

\* A step that leaves the numbers of a user alone, and only takes handlers away.
LEMMA FitKept ==
  ASSUME Typed, T > 0, NEW u \in User, GuessesFit(u), store' = store,
         answered'[u] = answered[u], failures'[u].n = failures[u].n,
         store # "redis" => failures'[u] = failures[u],
         Pending(u)' \subseteq Pending(u), Wiping(u)' \subseteq Wiping(u)
  PROVE  GuessesFit(u)'
<1>1. /\ N \in Nat
      /\ Cardinality(Pending(u)) \in Nat /\ Cardinality(Wiping(u)) \in Nat
      /\ Cardinality(Wiping(u)) <= N
      /\ Cardinality(Pending(u)') \in Nat /\ Cardinality(Wiping(u)') \in Nat
  BY Counting
<1>2. /\ Cardinality(Pending(u)') <= Cardinality(Pending(u))
      /\ Cardinality(Wiping(u)') <= Cardinality(Wiping(u))
  BY Counting, FS_Subset
<1>3. CASE store = "redis"
  <2>1. Fits(answered[u], Cardinality(Pending(u)), Cardinality(Wiping(u)), failures[u].n)
    BY <1>3 DEF GuessesFit
  <2>2. Fits(answered[u], Cardinality(Pending(u)'), Cardinality(Wiping(u)'), failures[u].n)
    BY <1>1, <1>2, <2>1, Numbers, FitsLess
  <2>3. Fits(answered'[u], Cardinality(Pending(u)'), Cardinality(Wiping(u)'), failures'[u].n)
    BY <2>2
  <2> QED BY <1>3, <2>3 DEF GuessesFit, Fits
<1>4. CASE store # "redis"
  BY <1>4 DEF GuessesFit
<1> QED BY <1>3, <1>4

\* A step after which nobody was answered since the last lock, right password
\* or end of the count.
LEMMA FitAnew ==
  ASSUME Typed, T > 0, NEW u \in User, store' = store, answered'[u] = 0,
         failures'[u].n \in Nat,
         store # "redis" => failures'[u].n < T /\ failures'[u].left = Forever
  PROVE  GuessesFit(u)'
<1>1. /\ N \in Nat
      /\ Cardinality(Pending(u)') \in Nat /\ Cardinality(Wiping(u)') \in Nat
      /\ Cardinality(Pending(u)') + Cardinality(Wiping(u)') <= N
  BY Counting
<1>2. Fits(0, Cardinality(Pending(u)'), Cardinality(Wiping(u)'), failures'[u].n)
  BY <1>1, FitsAnew
<1>3. Fits(answered'[u], Cardinality(Pending(u)'), Cardinality(Wiping(u)'), failures'[u].n)
  BY <1>2
<1> QED BY <1>3 DEF GuessesFit, Fits

\* Where the handlers of a user are after one of them has moved.
LEMMA GuessMoves ==
  ASSUME Typed, NEW q \in Request, NEW h, req' = [req EXCEPT ![q] = h], NEW u
  PROVE  /\ \A p \in Request : req'[p] = IF p = q THEN h ELSE req[p]
         /\ Pending(u)' \subseteq Pending(u) \cup {q}
         /\ h.pc # "expire" \/ h.user # u \/ ~(h.count < T)
              => Pending(u)' \subseteq Pending(u) \ {q}
         /\ h.pc # "delCount" \/ h.user # u => Wiping(u)' \subseteq Wiping(u) \ {q}
<1>1. \A p \in Request : req'[p] = IF p = q THEN h ELSE req[p]
  BY DEF Typed, HandlersTyped
<1> QED BY <1>1 DEF Pending, Wiping

\* A handler that goes to no Redis command about a count.
LEMMA QuietGuess ==
  ASSUME Typed, T > 0, NEW q \in Request, NEW h, req' = [req EXCEPT ![q] = h],
         h.pc \notin {"expire", "delCount"}, NEW u \in User, GuessesFit(u),
         store' = store, answered'[u] = answered[u], failures'[u] = failures[u]
  PROVE  GuessesFit(u)'
<1>1. Pending(u)' \subseteq Pending(u) /\ Wiping(u)' \subseteq Wiping(u)
  BY GuessMoves
<1> QED BY <1>1, FitKept

\* A handler that is about another user.
LEMMA OtherGuess ==
  ASSUME Typed, T > 0, NEW q \in Request, NEW h, req' = [req EXCEPT ![q] = h],
         NEW u \in User, h.user # u, GuessesFit(u),
         store' = store, answered'[u] = answered[u], failures'[u] = failures[u]
  PROVE  GuessesFit(u)'
<1>1. Pending(u)' \subseteq Pending(u) /\ Wiping(u)' \subseteq Wiping(u)
  BY GuessMoves
<1> QED BY <1>1, FitKept

\* A handler that goes where the keys are leaves all of them where they are.
LEMMA PlacedKept ==
  ASSUME Typed, Guarded, NEW q \in Request, NEW h, req' = [req EXCEPT ![q] = h],
         store' = store, h.pc \in RedisPC => store = "redis",
         h.pc = "record" => store # "redis"
  PROVE  \A p \in Request : Placed(p)'
<1>1. \A p \in Request : req'[p] = IF p = q THEN h ELSE req[p]
  BY GuessMoves
<1> QED BY <1>1 DEF Guarded, Placed

\* Where a handler is that has gone on.
LEMMA Moved ==
  ASSUME Typed, NEW q \in Request, req[q].pc \in PC, NEW pc, Goto(q, pc)
  PROVE  \E h : /\ req' = [req EXCEPT ![q] = h]
                /\ h.pc = pc /\ h.user = req[q].user /\ h.count = req[q].count
<1> DEFINE h == [req[q] EXCEPT !.pc = pc]
<1>1. req[q] \in Handler
  BY AtPlace
<1>2. h.pc = pc /\ h.user = req[q].user /\ h.count = req[q].count
  BY <1>1 DEF Handler
<1>3. req' = [req EXCEPT ![q] = h]
  BY DEF Goto
<1> HIDE DEF h
<1> QED BY <1>2, <1>3

\* A handler that is somewhere is about a user.
LEMMA Owner ==
  ASSUME Typed, NEW q \in Request, req[q].pc \in PC
  PROVE  req[q].user \in User /\ req[q].count \in Nat
BY AtPlace DEF Handler

\* A step that is about no count.
LEMMA QuietGuarded ==
  ASSUME Typed, Guarded, T > 0, NEW q \in Request, NEW h,
         req' = [req EXCEPT ![q] = h],
         h.pc \notin {"expire", "delCount"}, UNCHANGED <<store, failures, answered>>,
         h.pc \in RedisPC => store = "redis", h.pc = "record" => store # "redis"
  PROVE  Guarded'
<1>1. \A u \in User : GuessesFit(u)'
  BY QuietGuess DEF Guarded
<1>2. \A p \in Request : Placed(p)'
  BY PlacedKept
<1> QED BY <1>1, <1>2 DEF Guarded

\* The check of the lock, which may forget a count of the process's map.
LEMMA CheckGuarded ==
  ASSUME Typed, Guarded, T > 0, NEW q \in Request, CheckLoginLock(q)
  PROVE  Guarded'
<1>1. req[q].pc \in PC /\ store' = store
  BY DEF CheckLoginLock, PC, env
<1>2. CASE Return(q) /\ UNCHANGED <<failures, answered>>
  BY <1>1, <1>2, QuietGuarded DEF Return, Idle, RedisPC
<1>3. ASSUME NEW pc \in {"reset", "incr", "record"}, Goto(q, pc),
             pc = "incr" => store = "redis", pc = "record" => store # "redis",
             ForgetStale(req[q].user)
      PROVE  Guarded'
  <2>1. PICK h : req' = [req EXCEPT ![q] = h] /\ h.pc = pc
    BY <1>1, <1>3, Moved
  <2>2. ASSUME NEW u \in User
        PROVE  GuessesFit(u)'
    <3>1. CASE answered'[u] = answered[u] /\ failures'[u] = failures[u]
      BY <1>1, <2>1, <3>1, QuietGuess DEF Guarded
    <3>2. CASE u = req[q].user /\ u \in stale
      <4>1. answered'[u] = 0 /\ failures'[u] = NoCount
        BY <1>3, <3>2 DEF ForgetStale, Typed, CountsTyped
      <4> QED BY <1>1, <4>1, FitAnew DEF NoCount
    <3> QED BY <1>3, <3>1, <3>2 DEF ForgetStale, Typed, CountsTyped
  <2>3. \A p \in Request : Placed(p)'
    BY <1>1, <1>3, <2>1, PlacedKept DEF RedisPC
  <2> QED BY <2>2, <2>3 DEF Guarded
<1>4. \/ Return(q) /\ UNCHANGED <<failures, answered>>
      \/ \E pc \in {"reset", "incr", "record"} :
           /\ Goto(q, pc) /\ ForgetStale(req[q].user)
           /\ pc = "incr" => store = "redis"
           /\ pc = "record" => store # "redis"
  BY DEF CheckLoginLock
<1> QED BY <1>2, <1>3, <1>4

\* A failure is counted, then answered, over Redis.
LEMMA IncrGuarded ==
  ASSUME Typed, Guarded, T > 0, NEW q \in Request, IncrFailure(q)
  PROVE  Guarded'
<1>1. /\ req[q].pc = "incr" /\ req[q].pc \in PC /\ store' = store
      /\ store = "redis" /\ req[q].user \in User /\ answered' = answered
  BY Owner DEF IncrFailure, PC, env, Guarded, Placed, RedisPC
<1>2. PICK w \in User : w = req[q].user
  BY <1>1
<1> DEFINE n == failures[w].n + 1
<1> DEFINE h == [req[q] EXCEPT !.pc = "expire", !.count = n]
<1>3. /\ req' = [req EXCEPT ![q] = h]
      /\ failures' = [failures EXCEPT ![w].n = n]
  <2>1. LockThreshold # 0
    BY DEF T
  <2>2. req' = [req EXCEPT ![q] = h]
    BY <1>2, <2>1 DEF IncrFailure
  <2>3. failures' = [failures EXCEPT ![w].n = n]
    BY <1>2, <2>1 DEF IncrFailure
  <2> QED BY <2>2, <2>3
<1>4. n = failures[w].n + 1 /\ failures[w].n \in Nat /\ n \in Nat
  BY Numbers
<1>5. h.pc = "expire" /\ h.user = w /\ h.count = n
  BY <1>1, <1>2, AtPlace DEF Handler
<1> HIDE DEF h, n
<1>6. ASSUME NEW u \in User
      PROVE  GuessesFit(u)'
  <2>1. CASE u # w
    BY <1>1, <1>3, <1>5, <2>1, OtherGuess DEF Guarded, Typed, CountsTyped
  <2>2. CASE u = w
    <3> DEFINE a == answered[w]
               x == Cardinality(Pending(w))
               d == Cardinality(Wiping(w))
               y == Cardinality(Pending(w)')
               e == Cardinality(Wiping(w)')
    <3>1. a \in Nat /\ x \in Nat /\ d \in Nat /\ y \in Nat /\ e \in Nat /\ N \in Nat
      BY Counting, Numbers
    <3>2. Fits(a, x, d, failures[w].n)
      BY <1>1 DEF Guarded, GuessesFit
    <3>3. e <= d /\ d < N
      <4>1. Wiping(w)' \subseteq Wiping(w) /\ IsFiniteSet(Wiping(w))
        BY <1>3, <1>5, GuessMoves, Counting
      <4>2. Wiping(w) \subseteq Request \ {q}
        BY <1>1 DEF Wiping
      <4>3. IsFiniteSet(Request \ {q}) /\ Cardinality(Request \ {q}) = N - 1
        BY SetAssumption, FS_RemoveElement DEF N
      <4>4. d <= N - 1
        BY <4>2, <4>3, FS_Subset
      <4> QED BY <3>1, <4>1, <4>4, FS_Subset
    <3>4. y <= x + 1 /\ (n < T \/ y <= x)
      <4>1. IsFiniteSet(Pending(w)) /\ q \notin Pending(w)
        BY <1>1, Counting DEF Pending
      <4>2. IsFiniteSet(Pending(w) \cup {q}) /\ Cardinality(Pending(w) \cup {q}) = x + 1
        BY <4>1, FS_AddElement
      <4>3. Pending(w)' \subseteq Pending(w) \cup {q}
        BY <1>3, GuessMoves
      <4>4. ~(n < T) => Pending(w)' \subseteq Pending(w)
        BY <1>3, <1>5, GuessMoves
      <4> QED BY <4>1, <4>2, <4>3, <4>4, FS_Subset
    <3> HIDE DEF a, x, d, y, e
    <3>5. Fits(a, y, d, n)
      BY <1>4, <3>1, <3>2, <3>3, <3>4, FitsCount
    <3>6. Fits(a, y, e, n)
      BY <1>4, <3>1, <3>3, <3>5, FitsLess
    <3>7. answered'[w] = a /\ failures'[w].n = n
      BY <1>1, <1>3 DEF a, Typed, CountsTyped, Count
    <3> QED BY <1>1, <2>2, <3>6, <3>7 DEF GuessesFit, Fits, y, e
  <2> QED BY <2>1, <2>2
<1>7. \A p \in Request : Placed(p)'
  BY <1>1, <1>3, <1>5, PlacedKept
<1> QED BY <1>6, <1>7 DEF Guarded

\* The rest of a failure over Redis.
LEMMA ExpireGuarded ==
  ASSUME Typed, Guarded, T > 0, NEW q \in Request, ExpireFailure(q)
  PROVE  Guarded'
<1>1. /\ req[q].pc = "expire" /\ req[q].pc \in PC /\ store' = store
      /\ store = "redis" /\ req[q].user \in User /\ req[q].count \in Nat
  BY Owner DEF ExpireFailure, PC, env, Guarded, Placed, RedisPC
<1>2. PICK w \in User : w = req[q].user
  BY <1>1
<1>3. \A u \in User : failures'[u].n = failures[u].n
  BY <1>2 DEF ExpireFailure, Typed, CountsTyped, Count
<1>4. CASE req[q].count < T
  <2>1. req' = [req EXCEPT ![q] = Idle] /\ answered' = [answered EXCEPT ![w] = @ + 1]
    BY <1>2, <1>4 DEF ExpireFailure, Return, T
  <2>2. ASSUME NEW u \in User
        PROVE  GuessesFit(u)'
    <3>0. Idle.pc = "idle"
      BY DEF Idle
    <3>1. Pending(u)' \subseteq Pending(u) \ {q} /\ Wiping(u)' \subseteq Wiping(u)
      BY <2>1, <3>0, GuessMoves
    <3>2. CASE u # w
      <4>1. answered'[u] = answered[u]
        BY <2>1, <3>2 DEF Typed, CountsTyped
      <4> QED BY <1>1, <1>3, <3>1, <4>1, FitKept DEF Guarded
    <3>3. CASE u = w
      <4> DEFINE a == answered[w]
                 x == Cardinality(Pending(w))
                 d == Cardinality(Wiping(w))
                 y == Cardinality(Pending(w)')
                 e == Cardinality(Wiping(w)')
                 n == failures[w].n
      <4>1. /\ a \in Nat /\ x \in Nat /\ d \in Nat /\ y \in Nat /\ e \in Nat
            /\ n \in Nat /\ N \in Nat /\ d <= N
        BY Counting, Numbers
      <4>2. Fits(a, x, d, n)
        BY <1>1 DEF Guarded, GuessesFit
      <4>3. e <= d
        BY <3>1, <3>3, Counting, FS_Subset
      <4>4. y <= x - 1
        <5>1. q \in Pending(w) /\ IsFiniteSet(Pending(w))
          BY <1>1, <1>2, <1>4, Counting DEF Pending
        <5>2. IsFiniteSet(Pending(w) \ {q}) /\ Cardinality(Pending(w) \ {q}) = x - 1
          BY <5>1, FS_RemoveElement
        <5> QED BY <3>1, <3>3, <5>2, FS_Subset
      <4>5. answered'[w] = a + 1 /\ failures'[w].n = n
        BY <1>3, <2>1 DEF Typed, CountsTyped
      <4> HIDE DEF a, x, d, y, e, n
      <4>6. Fits(a + 1, y, d, n)
        BY <4>1, <4>2, <4>4, FitsAnswer
      <4>7. a + 1 \in Nat
        BY <4>1
      <4>8. Fits(a + 1, y, e, n)
        BY <4>1, <4>3, <4>6, <4>7, FitsLess
      <4> QED BY <1>1, <3>3, <4>5, <4>8 DEF GuessesFit, Fits, y, e
    <3> QED BY <3>2, <3>3
  <2>3. \A p \in Request : Placed(p)'
    BY <1>1, <2>1, PlacedKept DEF Idle, RedisPC
  <2> QED BY <2>2, <2>3 DEF Guarded
<1>5. CASE ~(req[q].count < T)
  <2>1. Goto(q, "setLock") /\ answered' = answered
    BY <1>5 DEF ExpireFailure, T
  <2>2. PICK h : req' = [req EXCEPT ![q] = h] /\ h.pc = "setLock"
    BY <1>1, <2>1, Moved
  <2>3. ASSUME NEW u \in User
        PROVE  GuessesFit(u)'
    <3>1. Pending(u)' \subseteq Pending(u) /\ Wiping(u)' \subseteq Wiping(u)
      BY <2>2, GuessMoves
    <3> QED BY <1>1, <1>3, <2>1, <3>1, FitKept DEF Guarded
  <2>4. \A p \in Request : Placed(p)'
    BY <1>1, <2>2, PlacedKept
  <2> QED BY <2>3, <2>4 DEF Guarded
<1> QED BY <1>4, <1>5

\* The account is locked: the guesses begin anew.
LEMMA SetLockGuarded ==
  ASSUME Typed, Guarded, T > 0, NEW q \in Request, SetLock(q)
  PROVE  Guarded'
<1>1. /\ req[q].pc \in PC /\ store' = store /\ failures' = failures
      /\ store = "redis" /\ Goto(q, "delCount")
      /\ answered' = [answered EXCEPT ![req[q].user] = 0]
  BY DEF SetLock, PC, env, Guarded, Placed, RedisPC
<1>2. PICK h : /\ req' = [req EXCEPT ![q] = h]
               /\ h.pc = "delCount" /\ h.user = req[q].user
  BY <1>1, Moved
<1>3. ASSUME NEW u \in User
      PROVE  GuessesFit(u)'
  <2>1. CASE u # req[q].user
    <3>1. answered'[u] = answered[u]
      BY <1>1, <2>1 DEF Typed, CountsTyped
    <3> QED BY <1>1, <1>2, <2>1, <3>1, OtherGuess DEF Guarded
  <2>2. CASE u = req[q].user
    <3>1. answered'[u] = 0 /\ failures'[u].n \in Nat
      BY <1>1, <2>2, Numbers DEF Typed, CountsTyped
    <3> QED BY <1>1, <3>1, FitAnew
  <2> QED BY <2>1, <2>2
<1>4. \A p \in Request : Placed(p)'
  BY <1>1, <1>2, PlacedKept
<1> QED BY <1>3, <1>4 DEF Guarded

\* A count is wiped: as much was kept for the handler that does.
LEMMA WipeGuarded ==
  ASSUME Typed, Guarded, T > 0, NEW q \in Request, DelFailures(q)
  PROVE  Guarded'
<1>1. /\ req[q].pc = "delCount" /\ req[q].pc \in PC /\ store' = store
      /\ store = "redis" /\ req[q].user \in User /\ answered' = answered
      /\ req' = [req EXCEPT ![q] = Idle]
  BY Owner DEF DelFailures, Return, PC, env, Guarded, Placed, RedisPC
<1>2. PICK w \in User : w = req[q].user
  BY <1>1
<1>3. failures' = [failures EXCEPT ![w] = NoCount]
  BY <1>2 DEF DelFailures
<1>4. ASSUME NEW u \in User
      PROVE  GuessesFit(u)'
  <2>1. CASE u # w
    <3>1. failures'[u] = failures[u]
      BY <1>3, <2>1 DEF Typed, CountsTyped
    <3> QED BY <1>1, <3>1, QuietGuess DEF Guarded, Idle
  <2>2. CASE u = w
    <3> DEFINE a == answered[w]
               x == Cardinality(Pending(w))
               d == Cardinality(Wiping(w))
               y == Cardinality(Pending(w)')
               e == Cardinality(Wiping(w)')
               n == failures[w].n
    <3>1. /\ a \in Nat /\ x \in Nat /\ d \in Nat /\ y \in Nat /\ e \in Nat
          /\ n \in Nat /\ N \in Nat /\ d <= N
      BY Counting, Numbers
    <3>2. Fits(a, x, d, n)
      BY <1>1 DEF Guarded, GuessesFit
    <3>0. Idle.pc = "idle"
      BY DEF Idle
    <3>3. Pending(w)' \subseteq Pending(w) /\ Wiping(w)' \subseteq Wiping(w) \ {q}
      BY <1>1, <3>0, GuessMoves
    <3>4. y <= x
      BY <3>3, Counting, FS_Subset
    <3>5. e <= d - 1
      <4>1. q \in Wiping(w) /\ IsFiniteSet(Wiping(w))
        BY <1>1, <1>2, Counting DEF Wiping
      <4>2. IsFiniteSet(Wiping(w) \ {q}) /\ Cardinality(Wiping(w) \ {q}) = d - 1
        BY <4>1, FS_RemoveElement
      <4> QED BY <3>3, <4>2, FS_Subset
    <3>6. answered'[w] = a /\ failures'[w].n = 0
      BY <1>1, <1>3 DEF Typed, CountsTyped, NoCount
    <3> HIDE DEF a, x, d, y, e, n
    <3>7. Fits(a, y, e, 0)
      BY <3>1, <3>2, <3>4, <3>5, FitsWipe
    <3> QED BY <1>1, <2>2, <3>6, <3>7 DEF GuessesFit, Fits, y, e
  <2> QED BY <2>1, <2>2
<1>5. \A p \in Request : Placed(p)'
  BY <1>1, PlacedKept DEF Idle, RedisPC
<1> QED BY <1>4, <1>5 DEF Guarded

\* A failure in memory: nothing stands between the count and the answer.
LEMMA RecordGuarded ==
  ASSUME Typed, Guarded, T > 0, NEW q \in Request, RecordLoginFailure(q)
  PROVE  Guarded'
<1>1. /\ req[q].pc \in PC /\ store' = store /\ store # "redis"
      /\ req[q].user \in User /\ req' = [req EXCEPT ![q] = Idle]
  BY Owner DEF RecordLoginFailure, Return, PC, env, Guarded, Placed
<1>2. PICK w \in User : w = req[q].user
  BY <1>1
<1>3. /\ answered[w] \in Nat /\ failures[w].n \in Nat
      /\ answered[w] <= failures[w].n /\ failures[w].left = Forever
  BY <1>1, Numbers DEF Guarded, GuessesFit
<1>4. LockThreshold = T /\ LockThreshold # 0 /\ T \in Nat
  BY NumberAssumption DEF T
<1>5. ASSUME NEW u \in User
      PROVE  GuessesFit(u)'
  <2>1. CASE u # w
    <3>1. answered'[u] = answered[u] /\ failures'[u] = failures[u]
      BY <1>2, <1>4, <2>1 DEF RecordLoginFailure, Typed, CountsTyped
    <3> QED BY <1>1, <3>1, QuietGuess DEF Guarded, Idle
  <2>2. CASE u = w /\ failures[w].n + 1 < T
    <3>1. /\ answered'[w] = answered[w] + 1
          /\ failures' = [failures EXCEPT ![w].n = failures[w].n + 1]
      BY <1>2, <1>4, <2>2 DEF RecordLoginFailure, Typed, CountsTyped
    <3>2. failures'[w].n = failures[w].n + 1 /\ failures'[w].left = Forever
      BY <1>3, <3>1 DEF Typed, CountsTyped, Count
    <3> QED BY <1>1, <1>3, <2>2, <3>1, <3>2 DEF GuessesFit, T
  <2>3. CASE u = w /\ ~(failures[w].n + 1 < T)
    <3>1. answered'[w] = 0 /\ failures'[w] = NoCount
      BY <1>2, <1>4, <2>3 DEF RecordLoginFailure, Typed, CountsTyped
    <3> QED BY <1>1, <2>3, <3>1, FitAnew DEF NoCount
  <2> QED BY <2>1, <2>2, <2>3
<1>6. \A p \in Request : Placed(p)'
  BY <1>1, PlacedKept DEF Idle, RedisPC
<1> QED BY <1>5, <1>6 DEF Guarded

\* A right password: the count is deleted and the guesses begin anew.
LEMMA ResetGuarded ==
  ASSUME Typed, Guarded, T > 0, NEW q \in Request, ResetLoginFailure(q)
  PROVE  Guarded'
<1>1. /\ store' = store /\ req' = [req EXCEPT ![q] = Idle]
      /\ failures' = [failures EXCEPT ![req[q].user] = NoCount]
      /\ answered' = [answered EXCEPT ![req[q].user] = 0]
  BY DEF ResetLoginFailure, Return, env
<1>2. ASSUME NEW u \in User
      PROVE  GuessesFit(u)'
  <2>1. CASE u # req[q].user
    <3>1. answered'[u] = answered[u] /\ failures'[u] = failures[u]
      BY <1>1, <2>1 DEF Typed, CountsTyped
    <3> QED BY <1>1, <3>1, QuietGuess DEF Guarded, Idle
  <2>2. CASE u = req[q].user
    <3>1. answered'[u] = 0 /\ failures'[u] = NoCount
      BY <1>1, <2>2 DEF Typed, CountsTyped
    <3> QED BY <1>1, <3>1, FitAnew DEF NoCount
  <2> QED BY <2>1, <2>2
<1>3. \A p \in Request : Placed(p)'
  BY <1>1, PlacedKept DEF Idle, RedisPC
<1> QED BY <1>2, <1>3 DEF Guarded

\* A count that ends takes the guesses with it; in memory none does.
LEMMA TickGuarded ==
  ASSUME Typed, Guarded, T > 0, Tick
  PROVE  Guarded'
<1>1. store' = store /\ req' = req
  BY DEF Tick, env
<1>2. ASSUME NEW u \in User
      PROVE  GuessesFit(u)'
  <2>1. /\ failures'[u] = AgedCount(failures[u])
        /\ answered'[u] = IF failures[u].n > 0 /\ failures'[u].n = 0 THEN 0
                          ELSE answered[u]
    BY DEF Tick
  <2>2. /\ failures[u].n \in Nat /\ failures[u].left \in Life
        /\ failures[u].n = 0 => failures[u].left = Forever
        /\ failures[u] \in Count
    BY Numbers DEF Count
  <2>3. /\ Pending(u)' \subseteq Pending(u) /\ Wiping(u)' \subseteq Wiping(u)
    BY <1>1 DEF Pending, Wiping
  <2>4. \/ failures'[u] = NoCount /\ failures[u].left # Forever
        \/ failures'[u] = failures[u]
        \/ /\ failures'[u] = [failures[u] EXCEPT !.left = @ - 1]
           /\ failures[u].left # Forever
    BY <2>1 DEF AgedCount, Forever
  <2>5. CASE failures'[u] = NoCount /\ failures[u].left # Forever
    <3>1. answered'[u] = 0 /\ store = "redis"
      BY <2>1, <2>2, <2>5 DEF Guarded, GuessesFit, NoCount
    <3> QED BY <1>1, <2>5, <3>1, FitAnew DEF NoCount
  <2>6. CASE failures'[u] = failures[u]
    <3>1. answered'[u] = answered[u]
      BY <2>1, <2>2, <2>6
    <3> QED BY <1>1, <2>3, <2>6, <3>1, FitKept DEF Guarded
  <2>7. CASE /\ failures'[u] = [failures[u] EXCEPT !.left = @ - 1]
             /\ failures[u].left # Forever
    <3>1. failures'[u].n = failures[u].n /\ store = "redis"
      BY <2>2, <2>7 DEF Guarded, GuessesFit, Count
    <3>2. answered'[u] = answered[u]
      BY <2>1, <2>2, <3>1
    <3> QED BY <1>1, <2>3, <3>1, <3>2, FitKept DEF Guarded
  <2> QED BY <2>4, <2>5, <2>6, <2>7
<1>3. \A p \in Request : Placed(p)'
  BY <1>1 DEF Guarded, Placed
<1> QED BY <1>2, <1>3 DEF Guarded

\* Every step keeps the bound on guesses.
LEMMA GuardedStep ==
  ASSUME Typed, Guarded, T > 0, [Next]_vars
  PROVE  Guarded'
<1>1. CASE UNCHANGED <<store, failures, answered, req>>
  <2>1. \A u \in User : /\ Pending(u)' \subseteq Pending(u)
                       /\ Wiping(u)' \subseteq Wiping(u)
    BY <1>1 DEF Pending, Wiping
  <2>2. \A u \in User : GuessesFit(u)'
    BY <1>1, <2>1, FitKept DEF Guarded
  <2>3. \A p \in Request : Placed(p)'
    BY <1>1 DEF Guarded, Placed
  <2> QED BY <2>2, <2>3 DEF Guarded
<1>2. ASSUME NEW q \in Request, Return(q), UNCHANGED <<store, failures, answered>>
      PROVE  Guarded'
  BY <1>2, QuietGuarded DEF Return, Idle, RedisPC
<1>3. ASSUME NEW q \in Request, req[q].pc \in PC,
             NEW pc \in {"delCaptcha", "checkLock", "delCode", "writeEmail"},
             Goto(q, pc), UNCHANGED <<store, failures, answered>>
      PROVE  Guarded'
  <2>1. PICK h : req' = [req EXCEPT ![q] = h] /\ h.pc = pc
    BY <1>3, Moved
  <2> QED BY <1>3, <2>1, QuietGuarded DEF RedisPC
<1>4. ASSUME NEW q \in Request, NEW pc \in {"getCaptcha", "checkLock", "getCode"},
             NEW u, NEW right, NEW x, Begin(q, pc, u, right, x),
             UNCHANGED <<store, failures, answered>>
      PROVE  Guarded'
  <2> DEFINE h == [pc |-> pc, user |-> u, right |-> right, code |-> x, count |-> 0]
  <2>1. req' = [req EXCEPT ![q] = h] /\ h.pc = pc
    BY <1>4 DEF Begin
  <2> HIDE DEF h
  <2> QED BY <1>4, <2>1, QuietGuarded DEF RedisPC
<1>5. ASSUME NEW q \in Request, NEW u \in User, NEW right \in BOOLEAN,
             NEW c \in Captcha, BeginLogin(q, u, right, c)
      PROVE  Guarded'
  BY <1>4, <1>5 DEF BeginLogin, env, counts
<1>6. ASSUME NEW q \in Request, NEW u \in User, NEW right \in BOOLEAN,
             BeginUnchecked(q, u, right)
      PROVE  Guarded'
  BY <1>4, <1>6 DEF BeginUnchecked, env, counts
<1>7. ASSUME NEW q \in Request, NEW u \in User, NEW k \in Code,
             BeginUpdateEmail(q, u, k)
      PROVE  Guarded'
  BY <1>4, <1>7 DEF BeginUpdateEmail, env, counts
<1>8. ASSUME NEW q \in Request,
             GetCaptcha(q) \/ DelCaptcha(q) \/ GetCode(q) \/ DelCode(q)
      PROVE  Guarded'
  <2>1. \E pc \in {"delCaptcha", "checkLock", "delCode", "writeEmail"} : Goto(q, pc)
    BY <1>8 DEF GetCaptcha, DelCaptcha, GetCode, DelCode
  <2>2. req[q].pc \in PC /\ UNCHANGED <<store, failures, answered>>
    BY <1>8 DEF GetCaptcha, DelCaptcha, GetCode, DelCode, PC, env, counts
  <2> QED BY <1>3, <2>1, <2>2
<1>9. ASSUME NEW q \in Request, UpdateUserEmail(q) \/ Abort(q)
      PROVE  Guarded'
  BY <1>2, <1>9 DEF UpdateUserEmail, Abort, env, counts
<1>10. ASSUME \/ UNCHANGED vars
              \/ \E c \in Captcha : IssueCaptcha(c)
              \/ \E k \in Code : SendCaptcha(k)
       PROVE  Guarded'
  BY <1>1, <1>10 DEF vars, IssueCaptcha, SendCaptcha, env, counts
<1> QED
  BY <1>5, <1>6, <1>7, <1>8, <1>9, <1>10, TickGuarded, CheckGuarded,
     RecordGuarded, ResetGuarded, IncrGuarded, ExpireGuarded, SetLockGuarded,
     WipeGuarded
  DEF Next

\* Whoever guesses the password of an account is answered fewer times than
\* the threshold before the account is locked if the counts are in memory, and
\* at most a threshold for every handler if they are in Redis.
THEOREM GuessesBounded == Spec => []GuessesBoundedByLock
<1>1. ASSUME Init, T > 0
      PROVE  Guarded
  <2>1. ASSUME NEW u \in User
        PROVE  GuessesFit(u)
    <3>1. /\ N \in Nat
          /\ Cardinality(Pending(u)) \in Nat /\ Cardinality(Wiping(u)) \in Nat
          /\ Cardinality(Pending(u)) + Cardinality(Wiping(u)) <= N
      BY Counting
    <3>2. Fits(0, Cardinality(Pending(u)), Cardinality(Wiping(u)), 0)
      BY <1>1, <3>1, FitsAnew
    <3>3. answered[u] = 0 /\ failures[u].n = 0 /\ failures[u].left = Forever
      BY <1>1 DEF Init, NoCount
    <3> QED BY <1>1, <3>2, <3>3 DEF GuessesFit
  <2>2. \A q \in Request : Placed(q)
    BY <1>1 DEF Init, Idle, Placed, RedisPC
  <2> QED BY <2>1, <2>2 DEF Guarded
<1>2. ASSUME Typed, Guarded, T > 0
      PROVE  GuessesBoundedByLock
  <2> SUFFICES ASSUME NEW u \in User
               PROVE  answered[u] <= IF store = "redis" THEN T * N ELSE T - 1
    BY DEF GuessesBoundedByLock, T, N
  <2>1. GuessesFit(u) /\ answered[u] \in Nat /\ failures[u].n \in Nat /\ T \in Nat
    BY <1>2, Numbers, NumberAssumption DEF Guarded, T
  <2>2. CASE store = "redis"
    <3>1. /\ N \in Nat
          /\ Cardinality(Pending(u)) \in Nat /\ Cardinality(Wiping(u)) \in Nat
          /\ Cardinality(Wiping(u)) <= N
      BY Counting
    <3>2. Fits(answered[u], Cardinality(Pending(u)), Cardinality(Wiping(u)),
               failures[u].n)
      BY <2>1, <2>2 DEF GuessesFit
    <3>3. answered[u] <= T * N
      BY <1>2, <2>1, <3>1, <3>2, FitsBound
    <3> QED BY <2>2, <3>3
  <2>3. CASE store # "redis"
    BY <2>1, <2>3 DEF GuessesFit
  <2> QED BY <2>2, <2>3
<1>3. Init => (T > 0 => Guarded)
  BY <1>1
<1>4. Typed /\ (T > 0 => Guarded) /\ [Next]_vars => (T > 0 => Guarded)'
  BY GuardedStep DEF T
<1>5. Typed /\ (T > 0 => Guarded) => GuessesBoundedByLock
  BY <1>2 DEF GuessesBoundedByLock, T
<1> QED BY <1>3, <1>4, <1>5, TypedInit, TypedStep, PTL DEF Spec
=============================================================================
