------------------------- MODULE OAuth2BindingProofs -------------------------
(***************************************************************************)
(* Theorems about OAuth2Binding, for every number of identities, accounts, *)
(* states and handlers: it implements IdentityMap.                         *)
(***************************************************************************)
EXTENDS OAuth2Binding, FiniteSetTheorems, TLAPS

-----------------------------------------------------------------------------
(* Type correctness.                                                       *)

\* What a handler knows where it is: its task, and who it is about.
Ready(h) ==
  /\ h.task \in {"login", "binding"} => h.identity \in Identity
  /\ h.pc = "pop" => h.state \in State
  /\ h.task \in {"binding", "email"} => h.user \in User
  /\ h.pc \in {"pop", "getBySID", "createBinding"} => h.task \in {"login", "binding"}
  /\ h.pc = "checkBinding" => h.task = "binding"
  /\ h.pc \in {"findByEmail", "getUser", "getCreated", "signIn"} => h.task = "login"
  /\ h.pc = "checkEmail" => h.task # "binding"
  /\ h.pc = "createUser" => h.task \in {"login", "create"}
  /\ h.pc = "updateEmail" => h.task = "email"
  /\ h.pc \in {"getUser", "getCreated", "signIn"} => h.user \in User
  /\ h.pc = "createBinding" => h.user \in User

Typed == TypeOK /\ \A q \in Request : req[q] # Idle => Ready(req[q])

\* A handler that moves to a ready place leaves the handlers typed.
LEMMA MoveTyped ==
  ASSUME Typed, NEW q \in Request, NEW h \in Handler, Ready(h),
         req' = [req EXCEPT ![q] = h]
  PROVE  /\ req' \in [Request -> {Idle} \cup Handler]
         /\ \A p \in Request : req'[p] # Idle => Ready(req'[p])
BY DEF Typed, TypeOK

\* A handler that is at a place is a typed one.
LEMMA AtPlace ==
  ASSUME Typed, NEW q \in Request, req[q].pc \in PC
  PROVE  req[q] \in Handler /\ Ready(req[q])
BY DEF Typed, TypeOK, Idle, PC

\* A handler that returns leaves the handlers typed.
LEMMA ReturnTyped ==
  ASSUME Typed, NEW q \in Request, Return(q)
  PROVE  /\ req' \in [Request -> {Idle} \cup Handler]
         /\ \A p \in Request : req'[p] # Idle => Ready(req'[p])
BY DEF Typed, TypeOK, Return

\* A new handler that is ready leaves the handlers typed.
LEMMA BeginTyped ==
  ASSUME Typed, NEW q \in Request, NEW pc \in PC,
         NEW task \in {"login", "binding", "create", "email"},
         NEW i \in Identity \cup {None}, NEW u \in User \cup {None},
         NEW e \in Email \cup {None}, NEW t \in State \cup {None},
         Begin(q, pc, task, i, u, e, t),
         Ready([pc |-> pc, task |-> task, identity |-> i, user |-> u,
                email |-> e, state |-> t])
  PROVE  /\ req' \in [Request -> {Idle} \cup Handler]
         /\ \A p \in Request : req'[p] # Idle => Ready(req'[p])
<1> DEFINE h == [pc |-> pc, task |-> task, identity |-> i, user |-> u,
                 email |-> e, state |-> t]
<1>1. h \in Handler
  BY DEF Handler
<1>2. req' = [req EXCEPT ![q] = h]
  BY DEF Begin
<1> QED BY <1>1, <1>2, MoveTyped

\* A handler that goes to a place it is ready for leaves the handlers typed.
LEMMA GotoTyped ==
  ASSUME Typed, NEW q \in Request, NEW pc \in PC, req[q].pc \in PC, Goto(q, pc),
         Ready([req[q] EXCEPT !.pc = pc])
  PROVE  /\ req' \in [Request -> {Idle} \cup Handler]
         /\ \A p \in Request : req'[p] # Idle => Ready(req'[p])
<1> DEFINE h == [req[q] EXCEPT !.pc = pc]
<1>1. h \in Handler
  BY AtPlace DEF Handler
<1>2. req' = [req EXCEPT ![q] = h]
  BY DEF Goto
<1> QED BY <1>1, <1>2, MoveTyped

\* A handler that goes on with a user leaves the handlers typed.
LEMMA FoundTyped ==
  ASSUME Typed, NEW q \in Request, NEW pc \in PC, NEW u \in User,
         req[q].pc \in PC, req[q].task = "login",
         req' = [req EXCEPT ![q].pc = pc, ![q].user = u],
         pc \in {"getUser", "getCreated", "createBinding"}
  PROVE  /\ req' \in [Request -> {Idle} \cup Handler]
         /\ \A p \in Request : req'[p] # Idle => Ready(req'[p])
<1> DEFINE h == [req[q] EXCEPT !.pc = pc, !.user = u]
<1>1. /\ h \in Handler
      /\ h.pc = pc /\ h.user = u /\ h.task = "login"
      /\ h.identity = req[q].identity /\ h.state = req[q].state
  BY AtPlace DEF Handler
<1>2. req' = [req EXCEPT ![q] = h]
  BY AtPlace DEF Handler, Typed, TypeOK
<1> HIDE DEF h
<1>3. Ready(h)
  BY <1>1, AtPlace DEF Ready
<1> QED BY <1>1, <1>2, <1>3, MoveTyped

LEMMA TypedInit == Init => Typed
BY DEF Init, Typed, TypeOK, UserRow, NoUser, NoPayload, Idle

\* Every step keeps rows, states and handlers typed.
LEMMA TypedStep == Typed /\ [Next]_vars => Typed'
<1> SUFFICES ASSUME Typed, [Next]_vars PROVE Typed'
  OBVIOUS
<1> USE DEF PC
<1>1. CASE \E t \in State :
             \/ LoginAuthURL(t)
             \/ \E u \in User : BindingAuthURL(t, u)
             \/ ExpireState(t)
  BY <1>1 DEF LoginAuthURL, BindingAuthURL, ExpireState, Typed, TypeOK,
              Payload, NoPayload
<1>2. CASE \E t \in State, q \in Request, i \in Identity, e \in Email \cup {None} :
             BeginCallback(q, i, e, t)
  <2> PICK t \in State, q \in Request, i \in Identity, e \in Email \cup {None} :
             BeginCallback(q, i, e, t)
    BY <1>2
  <2>1. /\ state[t].type \in {"login", "binding"}
        /\ state[t].user \in User \cup {None}
        /\ state[t].type = "binding" => state[t].user \in User
    BY DEF BeginCallback, Payload
  <2> DEFINE h == [pc |-> "pop", task |-> state[t].type, identity |-> i,
                   user |-> state[t].user, email |-> e, state |-> t]
  <2>2. h \in Handler /\ Ready(h)
    BY <2>1 DEF Handler, Ready
  <2>3. req' = [req EXCEPT ![q] = h]
    BY DEF BeginCallback, Begin
  <2>4. /\ req' \in [Request -> {Idle} \cup Handler]
        /\ \A p \in Request : req'[p] # Idle => Ready(req'[p])
    BY <2>2, <2>3, MoveTyped
  <2> QED BY <2>4 DEF BeginCallback, Typed, TypeOK
<1>3. CASE \E u \in User : Unbind(u) \/ DeleteUser(u)
  BY <1>3 DEF Unbind, DeleteUser, Typed, TypeOK, UserRow
<1>4. CASE \E q \in Request, e \in Email \cup {None} : BeginCreate(q, e)
  <2> PICK q \in Request, e \in Email \cup {None} : BeginCreate(q, e)
    BY <1>4
  <2>1. Ready([pc |-> "checkEmail", task |-> "create", identity |-> None,
               user |-> None, email |-> e, state |-> None])
    BY DEF Ready
  <2>2. Begin(q, "checkEmail", "create", None, None, e, None)
    BY DEF BeginCreate
  <2>3. /\ req' \in [Request -> {Idle} \cup Handler]
        /\ \A p \in Request : req'[p] # Idle => Ready(req'[p])
    BY <2>1, <2>2, BeginTyped
  <2> QED BY <2>3 DEF BeginCreate, Typed, TypeOK
<1>5. CASE \E q \in Request, e \in Email \cup {None}, u \in User :
             BeginUpdateEmail(q, u, e)
  <2> PICK q \in Request, e \in Email \cup {None}, u \in User :
             BeginUpdateEmail(q, u, e)
    BY <1>5
  <2>1. /\ req' \in [Request -> {Idle} \cup Handler]
        /\ \A p \in Request : req'[p] # Idle => Ready(req'[p])
    BY BeginTyped DEF BeginUpdateEmail, Ready
  <2> QED BY <2>1 DEF BeginUpdateEmail, Typed, TypeOK
<1>6. ASSUME NEW q \in Request, Step(q)
      PROVE  Typed'
  <2>1. CASE DelState(q)
    <3>1. req[q].state \in State /\ req[q].task \in {"login", "binding"}
      BY <2>1, AtPlace DEF DelState, Ready
    <3> DEFINE pc == IF req[q].task = "binding" THEN "checkBinding" ELSE "getBySID"
    <3> DEFINE h == [req[q] EXCEPT !.pc = pc, !.state = None]
    <3>2. h \in Handler /\ Ready(h)
      BY <2>1, AtPlace DEF DelState, Ready, Handler
    <3>3. req' = [req EXCEPT ![q] = h]
      BY <2>1 DEF DelState
    <3>4. /\ req' \in [Request -> {Idle} \cup Handler]
          /\ \A p \in Request : req'[p] # Idle => Ready(req'[p])
      BY <3>2, <3>3, MoveTyped
    <3> QED BY <2>1, <3>1, <3>4 DEF DelState, Typed, TypeOK, NoPayload
  <2>2. CASE CheckBinding(q)
    <3>1. Ready([req[q] EXCEPT !.pc = "getBySID"])
      BY <2>2, AtPlace DEF CheckBinding, Ready, Handler
    <3>2. /\ req' \in [Request -> {Idle} \cup Handler]
          /\ \A p \in Request : req'[p] # Idle => Ready(req'[p])
      BY <2>2, <3>1, GotoTyped DEF CheckBinding
    <3> QED BY <2>2, <3>2 DEF CheckBinding, Typed, TypeOK
  <2>3. CASE GetBySID(q)
    <3>1. CASE Goto(q, IF req[q].task = "binding" THEN "createBinding" ELSE "findByEmail")
      <4> DEFINE pc == IF req[q].task = "binding" THEN "createBinding" ELSE "findByEmail"
      <4>1. Ready([req[q] EXCEPT !.pc = pc])
        BY <2>3, AtPlace DEF GetBySID, Ready, Handler
      <4>2. /\ req' \in [Request -> {Idle} \cup Handler]
            /\ \A p \in Request : req'[p] # Idle => Ready(req'[p])
        BY <2>3, <3>1, <4>1, GotoTyped DEF GetBySID
      <4> QED BY <2>3, <4>2 DEF GetBySID, Typed, TypeOK
    <3>2. CASE /\ req[q].task = "login"
               /\ \E u \in User :
                    req' = [req EXCEPT ![q].pc = "getUser", ![q].user = u]
      <4>1. /\ req' \in [Request -> {Idle} \cup Handler]
            /\ \A p \in Request : req'[p] # Idle => Ready(req'[p])
        BY <2>3, <3>2, FoundTyped DEF GetBySID
      <4> QED BY <2>3, <4>1 DEF GetBySID, Typed, TypeOK
    <3> QED BY <2>3, <3>1, <3>2 DEF GetBySID
  <2>4. CASE FindByEmail(q)
    <3>0. req[q].task = "login"
      BY <2>4, AtPlace DEF FindByEmail, Ready
    <3>1. CASE Goto(q, "checkEmail")
      <4>1. Ready([req[q] EXCEPT !.pc = "checkEmail"])
        BY <2>4, <3>0, AtPlace DEF FindByEmail, Ready, Handler
      <4>2. /\ req' \in [Request -> {Idle} \cup Handler]
            /\ \A p \in Request : req'[p] # Idle => Ready(req'[p])
        BY <2>4, <3>1, <4>1, GotoTyped DEF FindByEmail
      <4> QED BY <2>4, <4>2 DEF FindByEmail, Typed, TypeOK
    <3>2. CASE \E u \in Holders(req[q].email) :
                 req' = [req EXCEPT ![q].pc = "createBinding", ![q].user = u]
      <4>1. /\ req' \in [Request -> {Idle} \cup Handler]
            /\ \A p \in Request : req'[p] # Idle => Ready(req'[p])
        BY <2>4, <3>0, <3>2, FoundTyped DEF FindByEmail, Holders
      <4> QED BY <2>4, <4>1 DEF FindByEmail, Typed, TypeOK
    <3> QED BY <2>4, <3>1, <3>2 DEF FindByEmail
  <2>5. CASE GetUser(q)
    <3> DEFINE pc == IF req[q].pc = "getUser" THEN "signIn" ELSE "createBinding"
    <3>1. Ready([req[q] EXCEPT !.pc = pc])
      BY <2>5, AtPlace DEF GetUser, Ready, Handler
    <3>2. /\ req' \in [Request -> {Idle} \cup Handler]
          /\ \A p \in Request : req'[p] # Idle => Ready(req'[p])
      BY <2>5, <3>1, GotoTyped DEF GetUser
    <3> QED BY <2>5, <3>2 DEF GetUser, Typed, TypeOK
  <2>6. CASE CreateBinding(q)
    <3>0. req[q].identity \in Identity /\ req[q].user \in User
      BY <2>6, AtPlace DEF CreateBinding, Ready
    <3>1. /\ req' \in [Request -> {Idle} \cup Handler]
          /\ \A p \in Request : req'[p] # Idle => Ready(req'[p])
      <4>1. CASE Return(q)
        BY <4>1, ReturnTyped
      <4>2. CASE req[q].task = "login" /\ Goto(q, "signIn")
        <5>1. Ready([req[q] EXCEPT !.pc = "signIn"])
          BY <2>6, <4>2, AtPlace DEF CreateBinding, Ready, Handler
        <5> QED BY <2>6, <4>2, <5>1, GotoTyped DEF CreateBinding
      <4> QED BY <2>6, <4>1, <4>2 DEF CreateBinding
    <3> QED BY <2>6, <3>0, <3>1 DEF CreateBinding, Typed, TypeOK
  <2>7. CASE OAuth2Login(q) \/ Abort(q)
    <3>1. /\ req' \in [Request -> {Idle} \cup Handler]
          /\ \A p \in Request : req'[p] # Idle => Ready(req'[p])
      BY <2>7, ReturnTyped DEF OAuth2Login, Abort
    <3> QED BY <2>7, <3>1 DEF OAuth2Login, Abort, Typed, TypeOK
  <2>8. CASE CheckEmail(q)
    <3> DEFINE pc == IF req[q].task = "email" THEN "updateEmail" ELSE "createUser"
    <3>1. Ready([req[q] EXCEPT !.pc = pc])
      BY <2>8, AtPlace DEF CheckEmail, Ready, Handler
    <3>2. /\ req' \in [Request -> {Idle} \cup Handler]
          /\ \A p \in Request : req'[p] # Idle => Ready(req'[p])
      BY <2>8, <3>1, GotoTyped DEF CheckEmail
    <3> QED BY <2>8, <3>2 DEF CheckEmail, Typed, TypeOK
  <2>9. CASE CreateUser(q)
    <3> PICK u \in User :
          /\ user' = [user EXCEPT ![u] = [status |-> "live", email |-> req[q].email]]
          /\ \/ /\ req[q].task = "login"
                /\ req' = [req EXCEPT ![q].pc = "getCreated", ![q].user = u]
             \/ Return(q)
      BY <2>9 DEF CreateUser
    <3>1. /\ req' \in [Request -> {Idle} \cup Handler]
          /\ \A p \in Request : req'[p] # Idle => Ready(req'[p])
      BY <2>9, ReturnTyped, FoundTyped DEF CreateUser
    <3>2. req[q].email \in Email \cup {None}
      BY <2>9, AtPlace DEF CreateUser, Handler
    <3> QED BY <2>9, <3>1, <3>2 DEF CreateUser, Typed, TypeOK, UserRow
  <2>10. CASE UpdateUserEmail(q)
    <3>1. /\ req' \in [Request -> {Idle} \cup Handler]
          /\ \A p \in Request : req'[p] # Idle => Ready(req'[p])
      BY <2>10, ReturnTyped DEF UpdateUserEmail
    <3>2. req[q].email \in Email \cup {None}
      BY <2>10, AtPlace DEF UpdateUserEmail, Handler
    <3> QED BY <2>10, <3>1, <3>2 DEF UpdateUserEmail, Typed, TypeOK, UserRow
  <2> QED BY <1>6, <2>1, <2>2, <2>3, <2>4, <2>5, <2>6, <2>7, <2>8, <2>9, <2>10 DEF Step
<1>7. CASE UNCHANGED vars
  BY <1>7 DEF vars, Typed, TypeOK
<1> QED BY <1>1, <1>2, <1>3, <1>4, <1>5, <1>6, <1>7 DEF Next

\* Rows, states and handlers are well-formed in every reachable state.
THEOREM TypeCorrect == Spec => []TypeOK
<1>1. Typed => TypeOK
  BY DEF Typed
<1> QED BY <1>1, TypedInit, TypedStep, PTL DEF Spec

-----------------------------------------------------------------------------
(* The refinement of IdentityMap.                                          *)

Answers == [q \in Request |-> Answer(q)]

AnswerOf(h) ==
  IF h.pc \in {"getUser", "signIn"} THEN <<h.identity, h.user>> ELSE None

\* A step of one handler changes the answer of that handler only.
LEMMA AnswerMoves ==
  ASSUME Typed, NEW q \in Request, NEW h, req' = [req EXCEPT ![q] = h]
  PROVE  Answers' = [Answers EXCEPT ![q] = AnswerOf(h)]
<1>1. \A p \in Request : Answer(p)' = IF p = q THEN AnswerOf(h) ELSE Answer(p)
  BY DEF Typed, TypeOK, Answer, AnswerOf
<1> QED BY <1>1 DEF Answers

\* A step that leaves the bindings and whether a handler has an answer alone is
\* a stutter.
LEMMA Stutter ==
  ASSUME Typed, NEW q \in Request, NEW h, req' = [req EXCEPT ![q] = h],
         AnswerOf(h) = Answer(q), UNCHANGED binding
  PROVE  UNCHANGED IM!vars
<1>1. Answers' = [Answers EXCEPT ![q] = Answer(q)]
  BY AnswerMoves
<1>2. Answers' = Answers
  BY <1>1 DEF Answers
<1> QED BY <1>2 DEF IM!vars, Answers

\* A handler that returns answers or gives up.
LEMMA ReturnRefines ==
  ASSUME Typed, NEW q \in Request, Return(q), UNCHANGED binding
  PROVE  IM!Return(q)
<1>1. AnswerOf(Idle) = None
  BY DEF AnswerOf, Idle
<1>2. Answers' = [Answers EXCEPT ![q] = None]
  BY <1>1, AnswerMoves DEF Return
<1> QED BY <1>2 DEF IM!Return, Answers

\* The initial states of IdentityMap.
LEMMA InitRefines == Init => IM!Init
BY DEF Init, IM!Init, Answer, Idle

\* Every step of a handler is a step of IdentityMap or a stutter.
LEMMA HandlerRefines ==
  ASSUME Typed, NEW q \in Request, Step(q)
  PROVE  [IM!Next]_(IM!vars)
<1> USE DEF PC
<1>1. CASE DelState(q)
  <2> DEFINE h == [req[q] EXCEPT !.pc = IF req[q].task = "binding"
                                          THEN "checkBinding" ELSE "getBySID",
                                 !.state = None]
  <2>1. AnswerOf(h) = Answer(q)
    BY <1>1, AtPlace DEF DelState, Answer, AnswerOf, Handler
  <2>2. req' = [req EXCEPT ![q] = h]
    BY <1>1 DEF DelState
  <2> QED BY <1>1, <2>1, <2>2, Stutter DEF DelState
<1>2. CASE CheckBinding(q)
  <2> DEFINE h == [req[q] EXCEPT !.pc = "getBySID"]
  <2>1. AnswerOf(h) = Answer(q)
    BY <1>2, AtPlace DEF CheckBinding, Answer, AnswerOf, Handler
  <2>2. req' = [req EXCEPT ![q] = h]
    BY <1>2 DEF CheckBinding, Goto
  <2> QED BY <1>2, <2>1, <2>2, Stutter DEF CheckBinding
<1>3. CASE GetBySID(q)
  <2>1. CASE Goto(q, IF req[q].task = "binding" THEN "createBinding" ELSE "findByEmail")
    <3> DEFINE h == [req[q] EXCEPT !.pc = IF req[q].task = "binding"
                                            THEN "createBinding" ELSE "findByEmail"]
    <3>1. AnswerOf(h) = Answer(q)
      BY <1>3, AtPlace DEF GetBySID, Answer, AnswerOf, Handler
    <3>2. req' = [req EXCEPT ![q] = h]
      BY <2>1 DEF Goto
    <3> QED BY <1>3, <3>1, <3>2, Stutter DEF GetBySID
  <2>2. ASSUME NEW u \in User, <<req[q].identity, u>> \in binding,
               req' = [req EXCEPT ![q].pc = "getUser", ![q].user = u]
        PROVE  IM!Resolve(q)
    <3> DEFINE h == [req[q] EXCEPT !.pc = "getUser", !.user = u]
    <3>1. h.pc = "getUser" /\ h.user = u /\ h.identity = req[q].identity
      BY <1>3, AtPlace DEF GetBySID, Handler
    <3>2. req' = [req EXCEPT ![q] = h]
      BY <2>2, <1>3, AtPlace DEF GetBySID, Handler, Typed, TypeOK
    <3> HIDE DEF h
    <3>3. Answers' = [Answers EXCEPT ![q] = <<req[q].identity, u>>]
      BY <3>1, <3>2, AnswerMoves DEF AnswerOf
    <3> QED BY <1>3, <2>2, <3>3 DEF IM!Resolve, Answers, GetBySID
  <2> QED BY <1>3, <2>1, <2>2 DEF GetBySID, IM!Next
<1>4. CASE FindByEmail(q)
  <2>1. CASE Goto(q, "checkEmail")
    <3> DEFINE h == [req[q] EXCEPT !.pc = "checkEmail"]
    <3>1. AnswerOf(h) = Answer(q)
      BY <1>4, AtPlace DEF FindByEmail, Answer, AnswerOf, Handler
    <3>2. req' = [req EXCEPT ![q] = h]
      BY <2>1 DEF Goto
    <3> QED BY <1>4, <3>1, <3>2, Stutter DEF FindByEmail
  <2>2. ASSUME NEW u, req' = [req EXCEPT ![q].pc = "createBinding", ![q].user = u]
        PROVE  UNCHANGED IM!vars
    <3> DEFINE h == [req[q] EXCEPT !.pc = "createBinding", !.user = u]
    <3>1. AnswerOf(h) = Answer(q)
      BY <1>4, AtPlace DEF FindByEmail, Answer, AnswerOf, Handler
    <3>2. req' = [req EXCEPT ![q] = h]
      BY <2>2, <1>4, AtPlace DEF FindByEmail, Handler, Typed, TypeOK
    <3> QED BY <1>4, <3>1, <3>2, Stutter DEF FindByEmail
  <2> QED BY <1>4, <2>1, <2>2 DEF FindByEmail
<1>5. CASE GetUser(q)
  <2> DEFINE h == [req[q] EXCEPT !.pc = IF req[q].pc = "getUser"
                                          THEN "signIn" ELSE "createBinding"]
  <2>1. AnswerOf(h) = Answer(q)
    BY <1>5, AtPlace DEF GetUser, Answer, AnswerOf, Handler
  <2>2. req' = [req EXCEPT ![q] = h]
    BY <1>5 DEF GetUser, Goto
  <2> QED BY <1>5, <2>1, <2>2, Stutter DEF GetUser
<1>6. CASE CreateBinding(q)
  <2> DEFINE i == req[q].identity
             u == req[q].user
  <2>1. i \in Identity /\ u \in User /\ IM!Free(i, u)
    BY <1>6, AtPlace DEF CreateBinding, Ready, IM!Free, BoundSID, BoundUser
  <2>2. binding' = binding \cup {<<i, u>>}
    BY <1>6 DEF CreateBinding
  <2>3. CASE Return(q)
    <3>0. AnswerOf(Idle) = None
      BY DEF AnswerOf, Idle
    <3>1. Answers' = [Answers EXCEPT ![q] = None]
      BY <2>3, <3>0, AnswerMoves DEF Return
    <3>2. Answer(q) = None
      BY <1>6 DEF CreateBinding, Answer
    <3>3. Answers' = Answers
      BY <3>1, <3>2 DEF Answers
    <3>4. IM!Bind(i, u)
      BY <2>1, <2>2, <3>3 DEF IM!Bind, Answers
    <3> QED BY <2>1, <3>4 DEF IM!Next
  <2>4. CASE Goto(q, "signIn")
    <3> DEFINE h == [req[q] EXCEPT !.pc = "signIn"]
    <3>1. AnswerOf(h) = <<i, u>>
      BY <1>6, AtPlace DEF CreateBinding, AnswerOf, Handler
    <3>2. req' = [req EXCEPT ![q] = h]
      BY <2>4 DEF Goto
    <3>3. Answers' = [Answers EXCEPT ![q] = <<i, u>>]
      BY <3>1, <3>2, AnswerMoves
    <3>4. IM!BindAndResolve(q, i, u)
      BY <2>1, <2>2, <3>3 DEF IM!BindAndResolve, Answers
    <3> QED BY <2>1, <3>4 DEF IM!Next
  <2> QED BY <1>6, <2>3, <2>4 DEF CreateBinding
<1>7. CASE CheckEmail(q)
  <2> DEFINE h == [req[q] EXCEPT !.pc = IF req[q].task = "email"
                                          THEN "updateEmail" ELSE "createUser"]
  <2>1. AnswerOf(h) = Answer(q)
    BY <1>7, AtPlace DEF CheckEmail, Answer, AnswerOf, Handler
  <2>2. req' = [req EXCEPT ![q] = h]
    BY <1>7 DEF CheckEmail, Goto
  <2> QED BY <1>7, <2>1, <2>2, Stutter DEF CheckEmail
<1>8. CASE OAuth2Login(q) \/ UpdateUserEmail(q) \/ Abort(q)
  <2>1. IM!Return(q)
    BY <1>8, ReturnRefines DEF OAuth2Login, UpdateUserEmail, Abort
  <2> QED BY <2>1 DEF IM!Next
<1>9. CASE CreateUser(q)
  <2>1. CASE Return(q)
    <3>1. IM!Return(q)
      BY <1>9, <2>1, ReturnRefines DEF CreateUser
    <3> QED BY <3>1 DEF IM!Next
  <2>2. ASSUME NEW u, req' = [req EXCEPT ![q].pc = "getCreated", ![q].user = u]
        PROVE  UNCHANGED IM!vars
    <3> DEFINE h == [req[q] EXCEPT !.pc = "getCreated", !.user = u]
    <3>1. AnswerOf(h) = Answer(q)
      BY <1>9, AtPlace DEF CreateUser, Answer, AnswerOf, Handler
    <3>2. req' = [req EXCEPT ![q] = h]
      BY <2>2, <1>9, AtPlace DEF CreateUser, Handler, Typed, TypeOK
    <3> QED BY <1>9, <3>1, <3>2, Stutter DEF CreateUser
  <2> QED BY <1>9, <2>1, <2>2 DEF CreateUser
<1> QED BY <1>1, <1>2, <1>3, <1>4, <1>5, <1>6, <1>7, <1>8, <1>9 DEF Step

\* Every step is a step of IdentityMap or a stutter.
LEMMA StepRefines == Typed /\ [Next]_vars => [IM!Next]_(IM!vars)
<1> SUFFICES ASSUME Typed, [Next]_vars PROVE [IM!Next]_(IM!vars)
  OBVIOUS
<1>1. CASE UNCHANGED <<req, binding>>
  BY <1>1 DEF IM!vars, Answer
<1>2. CASE \E q \in Request, pc \in {"pop", "checkEmail"} :
             \E task, i, u, e, t : Begin(q, pc, task, i, u, e, t) /\ UNCHANGED binding
  <2> PICK q \in Request, pc \in {"pop", "checkEmail"} :
             \E task, i, u, e, t : Begin(q, pc, task, i, u, e, t) /\ UNCHANGED binding
    BY <1>2
  <2> PICK task, i, u, e, t : Begin(q, pc, task, i, u, e, t) /\ UNCHANGED binding
    OBVIOUS
  <2> DEFINE h == [pc |-> pc, task |-> task, identity |-> i, user |-> u,
                   email |-> e, state |-> t]
  <2>1. req[q] = Idle /\ req' = [req EXCEPT ![q] = h]
    BY DEF Begin
  <2>2. Answer(q) = None
    BY <2>1 DEF Answer, Idle
  <2>3. AnswerOf(h) = None
    BY DEF AnswerOf
  <2> HIDE DEF h
  <2> QED BY <2>1, <2>2, <2>3, Stutter
<1>3. ASSUME NEW u \in User, Unbind(u) PROVE IM!Unbind(u)
  BY <1>3 DEF Unbind, IM!Unbind, Answer
<1>4. CASE \E q \in Request : Step(q)
  BY <1>4, HandlerRefines
<1> QED
  BY <1>1, <1>2, <1>3, <1>4
  DEF Next, vars, LoginAuthURL, BindingAuthURL, ExpireState, BeginCallback,
      DeleteUser, BeginCreate, BeginUpdateEmail, IM!Next

\* Identities and accounts are matched one to one and logins answered as if
\* each match and each lookup were one step.
THEOREM Implements == Spec => ImplementsIdentityMap
<1>1. Typed /\ [Next]_vars => [IM!Next]_(IM!vars)
  BY StepRefines
<1>2. Spec => []Typed
  BY TypedInit, TypedStep, PTL DEF Spec
<1> QED BY <1>1, <1>2, InitRefines, PTL DEF Spec, IM!Spec, ImplementsIdentityMap

\* No account has two identities and no identity two accounts, in every
\* reachable state (the checks before CreateBinding are not needed for it, the
\* unique indexes are).
THEOREM IdentitiesMatch == Spec => []IM!OneToOne
<1>1. Init => IM!OneToOne
  BY DEF Init, IM!OneToOne
<1>2. IM!OneToOne /\ [Next]_vars => IM!OneToOne'
  <2> SUFFICES ASSUME IM!OneToOne, [Next]_vars PROVE IM!OneToOne'
    OBVIOUS
  <2>1. CASE UNCHANGED binding
    BY <2>1 DEF IM!OneToOne
  <2>2. ASSUME NEW q \in Request, CreateBinding(q)
        PROVE  IM!OneToOne'
    <3> DEFINE new == <<req[q].identity, req[q].user>>
    <3>1. \A p \in binding : p[1] # new[1] /\ p[2] # new[2]
      BY <2>2 DEF CreateBinding, BoundSID, BoundUser
    <3>2. binding' = binding \cup {new}
      BY <2>2 DEF CreateBinding
    <3> QED BY <3>1, <3>2 DEF IM!OneToOne
  <2>3. ASSUME NEW u \in User, Unbind(u)
        PROVE  IM!OneToOne'
    BY <2>3 DEF Unbind, IM!OneToOne
  <2> QED
    BY <2>1, <2>2, <2>3
    DEF Next, Step, vars, LoginAuthURL, BindingAuthURL, ExpireState, BeginCallback,
        DelState, CheckBinding, GetBySID, FindByEmail, GetUser, OAuth2Login,
        BeginCreate, BeginUpdateEmail, CheckEmail, CreateUser, UpdateUserEmail,
        DeleteUser, Abort
<1> QED BY <1>1, <1>2, PTL DEF Spec

-----------------------------------------------------------------------------
(* Accounts with one address.                                              *)

\* Handlers that looked for the address and are about to write it.
Creating(e) == {q \in Request : req[q].pc = "createUser" /\ req[q].email = e}
Updating(e) == {q \in Request : req[q].pc = "updateEmail" /\ req[q].email = e}

\* Accounts that have the address or are about to.
Having(e) == Holders(e) \cup {req[q].user : q \in Updating(e)}

EmailClaims ==
  \A e \in Email :
    Cardinality(Having(e)) + Cardinality(Creating(e)) <= Cardinality(Request)

\* The sets of the claims are finite.
LEMMA ClaimsFinite ==
  ASSUME Typed, NEW e \in Email
  PROVE  /\ Having(e) \subseteq User /\ Creating(e) \subseteq Request
         /\ IsFiniteSet(Having(e)) /\ Cardinality(Having(e)) \in Nat
         /\ IsFiniteSet(Creating(e)) /\ Cardinality(Creating(e)) \in Nat
<1>1. \A q \in Updating(e) : req[q].user \in User
  BY AtPlace DEF Updating, Ready, PC
<1>2. Having(e) \subseteq User /\ Creating(e) \subseteq Request
  BY <1>1 DEF Having, Holders, Creating
<1> QED BY <1>2, FiniteAssumption, FS_Subset, FS_CardinalityType

\* Claims that only shrink keep the bound.
LEMMA ClaimsShrink ==
  ASSUME Typed, Typed', EmailClaims, NEW e \in Email,
         Having(e)' \subseteq Having(e), Creating(e)' \subseteq Creating(e)
  PROVE  Cardinality(Having(e)') + Cardinality(Creating(e)') <= Cardinality(Request)
<1>1. /\ IsFiniteSet(Having(e)) /\ Cardinality(Having(e)) \in Nat
      /\ IsFiniteSet(Creating(e)) /\ Cardinality(Creating(e)) \in Nat
  BY ClaimsFinite
<1>2. /\ Cardinality(Having(e)') <= Cardinality(Having(e))
      /\ Cardinality(Creating(e)') <= Cardinality(Creating(e))
      /\ Cardinality(Having(e)') \in Nat /\ Cardinality(Creating(e)') \in Nat
  BY <1>1, FS_Subset, FS_CardinalityType
<1>3. Cardinality(Request) \in Nat
  BY FiniteAssumption, FS_CardinalityType
<1>4. Cardinality(Having(e)) + Cardinality(Creating(e)) <= Cardinality(Request)
  BY DEF EmailClaims
<1> QED BY <1>1, <1>2, <1>3, <1>4

\* Accounts named by handlers, now or after a step, are at most as many as they.
LEMMA UsersOfHandlers ==
  ASSUME NEW r, NEW Q, Q \subseteq Request
  PROVE  LET U == {r[q].user : q \in Q}
         IN  IsFiniteSet(U) /\ Cardinality(U) <= Cardinality(Q)
<1> DEFINE U == {r[q].user : q \in Q}
           g == [q \in Q |-> r[q].user]
<1>1. IsFiniteSet(Q)
  BY FiniteAssumption, FS_Subset
<1>2. g \in Surjection(Q, U)
  BY DEF Surjection
<1> QED BY <1>1, <1>2, FS_Surjection

\* A handler that moves elsewhere than to a write adds no claim.
LEMMA MoveShrinks ==
  ASSUME Typed, NEW e \in Email, NEW q \in Request, NEW h,
         req' = [req EXCEPT ![q] = h], UNCHANGED user,
         h.pc \notin {"createUser", "updateEmail"}
  PROVE  Having(e)' \subseteq Having(e) /\ Creating(e)' \subseteq Creating(e)
<1>1. \A p \in Request : req'[p] = IF p = q THEN h ELSE req[p]
  BY DEF Typed, TypeOK
<1>2. Updating(e)' \subseteq Updating(e) \ {q} /\ Creating(e)' \subseteq Creating(e)
  BY <1>1 DEF Updating, Creating
<1>3. \A p \in Updating(e)' : req'[p].user = req[p].user
  BY <1>1, <1>2 DEF Updating
<1>4. Holders(e)' = Holders(e)
  BY DEF Holders, Live
<1> QED BY <1>2, <1>3, <1>4 DEF Having

\* An address nobody has: the claims are the handlers that write it.
LEMMA FreshClaims ==
  ASSUME Typed', NEW e \in Email, Holders(e)' = {}
  PROVE  Cardinality(Having(e)') + Cardinality(Creating(e)') <= Cardinality(Request)
<1> DEFINE U == Updating(e)'
           C == Creating(e)'
<1>1. U \subseteq Request /\ C \subseteq Request /\ U \cap C = {}
  BY DEF Updating, Creating
<1>2. Having(e)' = {req'[q].user : q \in U}
  BY DEF Having
<1> HIDE DEF U, C
<1>3. /\ IsFiniteSet(Having(e)') /\ Cardinality(Having(e)') <= Cardinality(U)
  BY <1>1, <1>2, UsersOfHandlers
<1>4. /\ IsFiniteSet(U) /\ IsFiniteSet(C) /\ IsFiniteSet(U \cup C)
      /\ Cardinality(U \cup C) <= Cardinality(Request)
  <2>1. U \cup C \subseteq Request
    BY <1>1
  <2> QED BY <1>1, <2>1, FiniteAssumption, FS_Subset
<1>5. Cardinality(U \cup C) = Cardinality(U) + Cardinality(C) - Cardinality(U \cap C)
  BY <1>4, FS_Union
<1>6. Cardinality(U \cap C) = 0
  BY <1>1, FS_EmptySet
<1>7. /\ Cardinality(U) \in Nat /\ Cardinality(C) \in Nat
      /\ Cardinality(Having(e)') \in Nat /\ Cardinality(Request) \in Nat
  BY <1>3, <1>4, FiniteAssumption, FS_CardinalityType
<1>8. Cardinality(Having(e)') + Cardinality(C) <= Cardinality(Request)
  BY <1>3, <1>4, <1>5, <1>6, <1>7
<1> QED BY <1>8 DEF C

\* A new account takes the claim of the handler that creates it.
LEMMA CreateUserClaims ==
  ASSUME Typed, Typed', EmailClaims, NEW e \in Email, NEW q \in Request, CreateUser(q)
  PROVE  Cardinality(Having(e)') + Cardinality(Creating(e)') <= Cardinality(Request)
<1> PICK u \in User :
      /\ user' = [user EXCEPT ![u] = [status |-> "live", email |-> req[q].email]]
      /\ \/ req' = [req EXCEPT ![q].pc = "getCreated", ![q].user = u]
         \/ Return(q)
  BY DEF CreateUser
<1>1. \A p \in Request \ {q} : req'[p] = req[p]
  BY DEF Typed, TypeOK, Return
<1>2. req'[q].pc \notin {"createUser", "updateEmail"}
  BY AtPlace DEF CreateUser, Typed, TypeOK, Return, Idle, Handler, PC
<1>3. Updating(e)' \subseteq Updating(e) /\ Creating(e)' \subseteq Creating(e) \ {q}
  BY <1>1, <1>2 DEF Updating, Creating
<1>4. \A p \in Updating(e)' : req'[p].user = req[p].user
  BY <1>1, <1>2 DEF Updating
<1>5. \A v \in User \ {u} : user'[v] = user[v]
  BY DEF Typed, TypeOK
<1>6. CASE req[q].email # e
  <2>1. user'[u].email # e
    BY <1>6 DEF Typed, TypeOK
  <2>2. Holders(e)' \subseteq Holders(e)
    BY <1>5, <2>1 DEF Holders, Live
  <2>3. Having(e)' \subseteq Having(e)
    BY <1>3, <1>4, <2>2 DEF Having
  <2> QED BY <1>3, <2>3, ClaimsShrink
<1>7. CASE req[q].email = e
  <2>1. Having(e)' \subseteq Having(e) \cup {u}
    BY <1>3, <1>4, <1>5 DEF Having, Holders, Live
  <2>2. q \in Creating(e)
    BY <1>7 DEF Creating, CreateUser
  <2>3. /\ IsFiniteSet(Having(e)) /\ Cardinality(Having(e)) \in Nat
        /\ IsFiniteSet(Creating(e)) /\ Cardinality(Creating(e)) \in Nat
    BY ClaimsFinite
  <2>4. /\ IsFiniteSet(Having(e) \cup {u})
        /\ Cardinality(Having(e) \cup {u}) <= Cardinality(Having(e)) + 1
    <3>1. /\ IsFiniteSet(Having(e) \cup {u})
          /\ Cardinality(Having(e) \cup {u}) =
               IF u \in Having(e) THEN Cardinality(Having(e)) ELSE Cardinality(Having(e)) + 1
      BY <2>3, FS_AddElement
    <3> QED BY <2>3, <3>1
  <2>5. /\ IsFiniteSet(Creating(e) \ {q})
        /\ Cardinality(Creating(e) \ {q}) = Cardinality(Creating(e)) - 1
        /\ Cardinality(Creating(e) \ {q}) \in Nat
    BY <2>2, <2>3, FS_RemoveElement, FS_CardinalityType
  <2>6. /\ Cardinality(Having(e)') <= Cardinality(Having(e) \cup {u})
        /\ Cardinality(Creating(e)') <= Cardinality(Creating(e) \ {q})
        /\ Cardinality(Having(e)') \in Nat /\ Cardinality(Creating(e)') \in Nat
        /\ Cardinality(Having(e) \cup {u}) \in Nat
    BY <1>3, <2>1, <2>4, <2>5, FS_Subset, FS_CardinalityType
  <2>7. Cardinality(Having(e)) + Cardinality(Creating(e)) <= Cardinality(Request)
    BY DEF EmailClaims
  <2>8. Cardinality(Request) \in Nat
    BY FiniteAssumption, FS_CardinalityType
  <2> QED BY <2>3, <2>4, <2>5, <2>6, <2>7, <2>8
<1> QED BY <1>6, <1>7

\* An address that is written goes to the account that had the claim.
LEMMA UpdateEmailShrinks ==
  ASSUME Typed, NEW e \in Email, NEW q \in Request, UpdateUserEmail(q)
  PROVE  Having(e)' \subseteq Having(e) /\ Creating(e)' \subseteq Creating(e)
<1> DEFINE u == req[q].user
<1>1. \A p \in Request : req'[p] = IF p = q THEN Idle ELSE req[p]
  BY DEF UpdateUserEmail, Return, Typed, TypeOK
<1>2. Updating(e)' \subseteq Updating(e) /\ Creating(e)' \subseteq Creating(e)
  BY <1>1 DEF Updating, Creating, Idle
<1>3. \A p \in Updating(e)' : req'[p].user = req[p].user
  BY <1>1 DEF Updating, Idle
<1>4. u \in User
  BY AtPlace DEF UpdateUserEmail, Ready, PC
<1>5. /\ \A v \in User \ {u} : user'[v] = user[v]
      /\ user'[u].email = req[q].email
  BY <1>4 DEF UpdateUserEmail, Typed, TypeOK, UserRow
<1>6. Holders(e)' \subseteq Having(e)
  <2>1. ASSUME NEW v \in Holders(e)', v # u
        PROVE  v \in Having(e)
    BY <1>5, <2>1 DEF Holders, Live, Having
  <2>2. ASSUME u \in Holders(e)'
        PROVE  u \in Having(e)
    <3>1. req[q].email = e
      BY <1>5, <2>2 DEF Holders
    <3>2. q \in Updating(e)
      BY <3>1 DEF Updating, UpdateUserEmail
    <3> QED BY <3>2 DEF Having
  <2> QED BY <2>1, <2>2
<1> QED BY <1>2, <1>3, <1>6 DEF Having

\* A check starts a claim on an address nobody has, or on one's own.
LEMMA CheckEmailClaims ==
  ASSUME Typed, Typed', EmailClaims, NEW e \in Email, NEW q \in Request, CheckEmail(q)
  PROVE  Cardinality(Having(e)') + Cardinality(Creating(e)') <= Cardinality(Request)
<1> DEFINE h == [req[q] EXCEPT !.pc = IF req[q].task = "email"
                                        THEN "updateEmail" ELSE "createUser"]
<1>1. /\ h.email = req[q].email /\ h.user = req[q].user
      /\ req[q].task = "email" => h.pc = "updateEmail"
  BY AtPlace DEF CheckEmail, Handler, PC
<1>2. req' = [req EXCEPT ![q] = h] /\ UNCHANGED user
  BY DEF CheckEmail, Goto
<1> HIDE DEF h
<1>3. \A p \in Request : req'[p] = IF p = q THEN h ELSE req[p]
  BY <1>2 DEF Typed, TypeOK
<1>4. Holders(e)' = Holders(e)
  BY <1>2 DEF Holders, Live
<1>5. CASE req[q].email # e
  <2>1. Updating(e)' \subseteq Updating(e) \ {q} /\ Creating(e)' \subseteq Creating(e)
    BY <1>1, <1>3, <1>5 DEF Updating, Creating
  <2>2. \A p \in Updating(e)' : p \in Updating(e) /\ req'[p].user = req[p].user
    BY <1>3, <2>1 DEF Updating
  <2>3. Having(e)' \subseteq Having(e)
    BY <1>4, <2>2 DEF Having
  <2> QED BY <2>1, <2>3, ClaimsShrink
<1>6. CASE req[q].email = e /\ Holders(e) = {}
  BY <1>4, <1>6, FreshClaims
<1>7. CASE req[q].task = "email" /\ req[q].user \in Holders(e)
  <2>1. Updating(e)' \subseteq Updating(e) \cup {q} /\ Creating(e)' \subseteq Creating(e)
    BY <1>1, <1>3, <1>7 DEF Updating, Creating
  <2>2. ASSUME NEW p \in Updating(e)' PROVE req'[p].user \in Having(e)
    <3>1. CASE p = q
      BY <1>1, <1>3, <1>7, <3>1 DEF Having
    <3>2. CASE p # q
      <4>1. p \in Updating(e) /\ req'[p].user = req[p].user
        BY <1>3, <2>1, <3>2 DEF Updating
      <4> QED BY <4>1 DEF Having
    <3> QED BY <3>1, <3>2
  <2>3. Having(e)' \subseteq Having(e)
    BY <1>4, <2>2 DEF Having
  <2> QED BY <2>1, <2>3, ClaimsShrink
<1> QED BY <1>5, <1>6, <1>7 DEF CheckEmail

\* The bound on claims is inductive.
LEMMA EmailClaimsStep ==
  ASSUME Typed, Typed', EmailClaims, [Next]_vars
  PROVE  EmailClaims'
<1> SUFFICES ASSUME NEW e \in Email
             PROVE  Cardinality(Having(e)') + Cardinality(Creating(e)')
                      <= Cardinality(Request)
  BY DEF EmailClaims
<1>1. CASE UNCHANGED <<user, req>>
  <2>1. Having(e)' = Having(e) /\ Creating(e)' = Creating(e)
    BY <1>1 DEF Having, Holders, Live, Updating, Creating
  <2> QED BY <2>1, ClaimsShrink
<1>2. ASSUME NEW u \in User, DeleteUser(u)
      PROVE  Cardinality(Having(e)') + Cardinality(Creating(e)') <= Cardinality(Request)
  <2>1. Holders(e)' \subseteq Holders(e)
    BY <1>2 DEF DeleteUser, Holders, Live, Typed, TypeOK, UserRow
  <2>2. Updating(e)' = Updating(e) /\ Creating(e)' = Creating(e) /\ UNCHANGED req
    BY <1>2 DEF DeleteUser, Updating, Creating
  <2>3. Having(e)' \subseteq Having(e)
    BY <2>1, <2>2 DEF Having
  <2> QED BY <2>2, <2>3, ClaimsShrink
<1>3. ASSUME NEW q \in Request, NEW h, req' = [req EXCEPT ![q] = h], UNCHANGED user,
             h.pc \notin {"createUser", "updateEmail"}
      PROVE  Cardinality(Having(e)') + Cardinality(Creating(e)') <= Cardinality(Request)
  BY <1>3, MoveShrinks, ClaimsShrink
<1>4. CASE \E q \in Request, pc \in {"pop", "checkEmail"} :
             \E task, i, u, x, t : Begin(q, pc, task, i, u, x, t) /\ UNCHANGED user
  <2> PICK q \in Request, pc \in {"pop", "checkEmail"} :
             \E task, i, u, x, t : Begin(q, pc, task, i, u, x, t) /\ UNCHANGED user
    BY <1>4
  <2> PICK task, i, u, x, t : Begin(q, pc, task, i, u, x, t) /\ UNCHANGED user
    OBVIOUS
  <2> DEFINE h == [pc |-> pc, task |-> task, identity |-> i, user |-> u,
                   email |-> x, state |-> t]
  <2>1. req' = [req EXCEPT ![q] = h] /\ h.pc \notin {"createUser", "updateEmail"}
    BY DEF Begin
  <2> QED BY <1>3, <2>1
<1>5. ASSUME NEW q \in Request, Step(q)
      PROVE  Cardinality(Having(e)') + Cardinality(Creating(e)') <= Cardinality(Request)
  <2>1. CASE CreateUser(q)
    BY <2>1, CreateUserClaims
  <2>2. CASE CheckEmail(q)
    BY <2>2, CheckEmailClaims
  <2>3. CASE UpdateUserEmail(q)
    BY <2>3, UpdateEmailShrinks, ClaimsShrink
  <2>4. CASE Return(q) /\ UNCHANGED user
    <3>1. Idle.pc \notin {"createUser", "updateEmail"}
      BY DEF Idle
    <3> QED BY <1>3, <2>4, <3>1 DEF Return
  <2>5. ASSUME NEW pc \in PC \ {"createUser", "updateEmail"}, Goto(q, pc), UNCHANGED user,
               req[q].pc \in PC
        PROVE  Cardinality(Having(e)') + Cardinality(Creating(e)') <= Cardinality(Request)
    <3> DEFINE h == [req[q] EXCEPT !.pc = pc]
    <3>1. req' = [req EXCEPT ![q] = h] /\ h.pc = pc
      BY <2>5, AtPlace DEF Goto, Handler
    <3> QED BY <1>3, <2>5, <3>1
  <2>6. ASSUME NEW pc \in PC \ {"createUser", "updateEmail"}, NEW u,
               req' = [req EXCEPT ![q].pc = pc, ![q].user = u], UNCHANGED user,
               req[q].pc \in PC
        PROVE  Cardinality(Having(e)') + Cardinality(Creating(e)') <= Cardinality(Request)
    <3> DEFINE h == [req[q] EXCEPT !.pc = pc, !.user = u]
    <3>1. req' = [req EXCEPT ![q] = h] /\ h.pc = pc
      BY <2>6, AtPlace DEF Handler, Typed, TypeOK
    <3> QED BY <1>3, <2>6, <3>1
  <2>7. CASE CheckBinding(q) \/ GetUser(q)
    BY <2>5, <2>7 DEF CheckBinding, GetUser, PC
  <2>8. CASE DelState(q)
    <3> DEFINE h == [req[q] EXCEPT !.pc = IF req[q].task = "binding"
                                            THEN "checkBinding" ELSE "getBySID",
                                   !.state = None]
    <3>1. req' = [req EXCEPT ![q] = h] /\ UNCHANGED user
      BY <2>8 DEF DelState
    <3>2. h.pc \notin {"createUser", "updateEmail"}
      BY <2>8, AtPlace DEF DelState, Handler, PC
    <3> QED BY <1>3, <3>1, <3>2
  <2>9. CASE GetBySID(q) \/ FindByEmail(q)
    BY <2>5, <2>6, <2>9 DEF GetBySID, FindByEmail, PC
  <2>10. CASE CreateBinding(q) \/ OAuth2Login(q) \/ Abort(q)
    BY <2>4, <2>5, <2>10 DEF CreateBinding, OAuth2Login, Abort, PC
  <2> QED BY <1>5, <2>1, <2>2, <2>3, <2>7, <2>8, <2>9, <2>10 DEF Step
<1> QED
  BY <1>1, <1>2, <1>4, <1>5
  DEF Next, vars, LoginAuthURL, BindingAuthURL, ExpireState, BeginCallback,
      Unbind, BeginCreate, BeginUpdateEmail

\* However many handlers create accounts and change addresses together, an
\* address goes to no more accounts than there are handlers.
THEOREM EmailsBounded == Spec => []AccountsPerEmailBounded
<1>0. Cardinality(Request) \in Nat
  BY FiniteAssumption, FS_CardinalityType
<1>1. Init => EmailClaims
  <2> SUFFICES ASSUME Init, NEW e \in Email
               PROVE  Cardinality(Having(e)) + Cardinality(Creating(e))
                        <= Cardinality(Request)
    BY DEF EmailClaims
  <2>1. Having(e) = {} /\ Creating(e) = {}
    BY DEF Init, Having, Holders, Live, Updating, Creating, NoUser, Idle
  <2> QED BY <1>0, <2>1, FS_EmptySet
<1>2. Typed /\ EmailClaims => AccountsPerEmailBounded
  <2> SUFFICES ASSUME Typed, EmailClaims, NEW e \in Email
               PROVE  Cardinality(Holders(e)) <= Cardinality(Request)
    BY DEF AccountsPerEmailBounded
  <2>1. /\ IsFiniteSet(Having(e)) /\ Cardinality(Having(e)) \in Nat
        /\ Cardinality(Creating(e)) \in Nat
    BY ClaimsFinite
  <2>2. /\ Cardinality(Holders(e)) <= Cardinality(Having(e))
        /\ Cardinality(Holders(e)) \in Nat
    BY <2>1, FS_Subset, FS_CardinalityType DEF Having
  <2> QED BY <1>0, <2>1, <2>2 DEF EmailClaims
<1>3. Typed /\ Typed' /\ EmailClaims /\ [Next]_vars => EmailClaims'
  BY EmailClaimsStep
<1> QED BY <1>1, <1>2, <1>3, TypedInit, TypedStep, PTL DEF Spec

-----------------------------------------------------------------------------
(* Uses of a state.                                                        *)

\* Callbacks that read the state and have not deleted it.
Popping(t) == {q \in Request : req[q].pc = "pop" /\ req[q].state = t}

PopsBounded ==
  \A t \in State :
    /\ state[t].type # "gone" => uses[t] = 0
    /\ uses[t] + Cardinality(Popping(t)) <= Cardinality(Request)

\* The callbacks that may use a state are finitely many.
LEMMA PoppingFinite ==
  ASSUME NEW t \in State
  PROVE  IsFiniteSet(Popping(t)) /\ Cardinality(Popping(t)) \in Nat
BY FiniteAssumption, FS_Subset, FS_CardinalityType DEF Popping

\* A step that only takes callbacks away from a state keeps its bound.
LEMMA PoppingShrinks ==
  ASSUME Typed, PopsBounded, NEW t \in State, Popping(t)' \subseteq Popping(t),
         uses'[t] = uses[t]
  PROVE  uses'[t] + Cardinality(Popping(t)') <= Cardinality(Request)
<1>1. /\ Cardinality(Popping(t)') <= Cardinality(Popping(t))
      /\ Cardinality(Popping(t)') \in Nat /\ Cardinality(Popping(t)) \in Nat
  BY PoppingFinite, FS_Subset, FS_CardinalityType
<1>2. uses[t] + Cardinality(Popping(t)) <= Cardinality(Request)
  BY DEF PopsBounded
<1>3. uses[t] \in Nat /\ Cardinality(Request) \in Nat
  BY FiniteAssumption, FS_CardinalityType DEF Typed, TypeOK
<1> QED BY <1>1, <1>2, <1>3

\* A handler that goes elsewhere than to the deletion of a state.
LEMMA MovePops ==
  ASSUME Typed, PopsBounded, NEW q \in Request, NEW h, req' = [req EXCEPT ![q] = h],
         h.pc # "pop", UNCHANGED <<state, uses>>
  PROVE  PopsBounded'
<1>1. \A p \in Request : req'[p] = IF p = q THEN h ELSE req[p]
  BY DEF Typed, TypeOK
<1>2. \A t \in State : Popping(t)' \subseteq Popping(t)
  BY <1>1 DEF Popping
<1> QED BY <1>2, PoppingShrinks DEF PopsBounded

\* A step of no handler that writes no payload that was used.
LEMMA StatePops ==
  ASSUME Typed, PopsBounded, UNCHANGED <<req, uses>>,
         \A t \in State : state[t].type = "gone" => state'[t].type = "gone"
  PROVE  PopsBounded'
<1>1. \A t \in State : Popping(t)' \subseteq Popping(t)
  BY DEF Popping
<1> QED BY <1>1, PoppingShrinks DEF PopsBounded

\* A callback that reads a payload: nobody has used it yet.
LEMMA BeginCallbackPops ==
  ASSUME Typed, PopsBounded, NEW t \in State, NEW q \in Request, NEW i, NEW e,
         BeginCallback(q, i, e, t)
  PROVE  PopsBounded'
<1> SUFFICES ASSUME NEW s \in State
             PROVE  uses'[s] + Cardinality(Popping(s)') <= Cardinality(Request)
  BY DEF PopsBounded, BeginCallback
<1>1. \A p \in Request \ {q} : req'[p] = req[p]
  BY DEF BeginCallback, Begin, Typed, TypeOK
<1>2. req'[q].state = t
  BY DEF BeginCallback, Begin, Typed, TypeOK
<1>3. CASE s # t
  <2>1. Popping(s)' \subseteq Popping(s)
    BY <1>1, <1>2, <1>3 DEF Popping
  <2> QED BY <2>1, PoppingShrinks DEF BeginCallback
<1>4. CASE s = t
  <2>1. uses'[s] = 0
    BY <1>4 DEF BeginCallback, PopsBounded, Payload
  <2>2. Popping(s)' \subseteq Request
    BY DEF Popping
  <2>3. /\ Cardinality(Popping(s)') <= Cardinality(Request)
        /\ Cardinality(Popping(s)') \in Nat
    BY <2>2, FiniteAssumption, FS_Subset, FS_CardinalityType
  <2> QED BY <2>1, <2>3
<1> QED BY <1>3, <1>4

\* A callback that deletes a state uses it, and is past it.
LEMMA DelStatePops ==
  ASSUME Typed, PopsBounded, NEW q \in Request, DelState(q)
  PROVE  PopsBounded'
<1>1. PICK t \in State : t = req[q].state
  BY AtPlace DEF DelState, Ready, PC
<1>2. /\ \A p \in Request \ {q} : req'[p] = req[p]
      /\ req'[q].pc # "pop"
  BY AtPlace DEF DelState, Typed, TypeOK, Handler, PC
<1>3. \A s \in State : Popping(s)' \subseteq Popping(s)
  BY <1>2 DEF Popping
<1>4. ASSUME NEW s \in State, s # t
      PROVE  /\ uses'[s] = uses[s] /\ state'[s] = state[s]
             /\ uses'[s] + Cardinality(Popping(s)') <= Cardinality(Request)
  <2>1. uses'[s] = uses[s] /\ state'[s] = state[s]
    BY <1>1, <1>4 DEF DelState, Typed, TypeOK
  <2> QED BY <1>3, <2>1, PoppingShrinks
<1>5. uses'[t] + Cardinality(Popping(t)') <= Cardinality(Request)
  <2>1. Popping(t)' \subseteq Popping(t) \ {q} /\ q \in Popping(t)
    BY <1>1, <1>2 DEF Popping, DelState
  <2>2. IsFiniteSet(Popping(t)) /\ Cardinality(Popping(t)) \in Nat
    BY <1>1, PoppingFinite
  <2>3. /\ IsFiniteSet(Popping(t) \ {q})
        /\ Cardinality(Popping(t) \ {q}) = Cardinality(Popping(t)) - 1
    BY <2>1, <2>2, FS_RemoveElement
  <2>4. /\ Cardinality(Popping(t)') <= Cardinality(Popping(t) \ {q})
        /\ Cardinality(Popping(t)') \in Nat
    BY <2>1, <2>3, FS_Subset, FS_CardinalityType
  <2>5. uses'[t] = uses[t] + 1 /\ uses[t] \in Nat
    BY <1>1 DEF DelState, Typed, TypeOK
  <2>6. uses[t] + Cardinality(Popping(t)) <= Cardinality(Request)
    BY <1>1 DEF PopsBounded
  <2>7. Cardinality(Request) \in Nat
    BY FiniteAssumption, FS_CardinalityType
  <2> QED BY <2>2, <2>3, <2>4, <2>5, <2>6, <2>7
<1>6. state'[t].type = "gone"
  BY <1>1 DEF DelState, Typed, TypeOK
<1> QED BY <1>4, <1>5, <1>6 DEF PopsBounded

\* The bound on uses is inductive.
LEMMA PopsStep ==
  ASSUME Typed, PopsBounded, [Next]_vars
  PROVE  PopsBounded'
<1>1. CASE \E t \in State :
             \/ LoginAuthURL(t)
             \/ \E u \in User : BindingAuthURL(t, u)
             \/ ExpireState(t)
  <2>1. \A t \in State : state[t].type = "gone" => state'[t].type = "gone"
    BY <1>1 DEF LoginAuthURL, BindingAuthURL, ExpireState, Typed, TypeOK
  <2> QED BY <1>1, <2>1, StatePops DEF LoginAuthURL, BindingAuthURL, ExpireState
<1>2. CASE UNCHANGED <<state, req, uses>>
  BY <1>2, StatePops
<1>3. CASE \E t \in State, q \in Request : \E i, e : BeginCallback(q, i, e, t)
  BY <1>3, BeginCallbackPops
<1>4. CASE \E q \in Request : \E task, i, u, x, t :
             Begin(q, "checkEmail", task, i, u, x, t) /\ UNCHANGED <<state, uses>>
  <2> PICK q \in Request : \E task, i, u, x, t :
             Begin(q, "checkEmail", task, i, u, x, t) /\ UNCHANGED <<state, uses>>
    BY <1>4
  <2> PICK task, i, u, x, t : Begin(q, "checkEmail", task, i, u, x, t) /\ UNCHANGED <<state, uses>>
    OBVIOUS
  <2> DEFINE h == [pc |-> "checkEmail", task |-> task, identity |-> i, user |-> u,
                   email |-> x, state |-> t]
  <2>1. req' = [req EXCEPT ![q] = h] /\ h.pc # "pop"
    BY DEF Begin
  <2> QED BY <2>1, MovePops
<1>5. ASSUME NEW q \in Request, Step(q)
      PROVE  PopsBounded'
  <2>1. CASE DelState(q)
    BY <2>1, DelStatePops
  <2>2. CASE ~DelState(q)
    <3>1. UNCHANGED <<state, uses>>
      BY <1>5, <2>2 DEF Step, CheckBinding, GetBySID, FindByEmail, GetUser,
         CreateBinding, OAuth2Login, CheckEmail, CreateUser, UpdateUserEmail, Abort
    <3>2. CASE Return(q)
      <4>1. Idle.pc # "pop"
        BY DEF Idle
      <4> QED BY <3>1, <3>2, <4>1, MovePops DEF Return
    <3>3. ASSUME NEW pc \in PC \ {"pop"}, Goto(q, pc), req[q].pc \in PC
          PROVE  PopsBounded'
      <4> DEFINE h == [req[q] EXCEPT !.pc = pc]
      <4>1. req' = [req EXCEPT ![q] = h] /\ h.pc = pc
        BY <3>3, AtPlace DEF Goto, Handler
      <4> QED BY <3>1, <3>3, <4>1, MovePops
    <3>4. ASSUME NEW pc \in PC \ {"pop"}, NEW u, req[q].pc \in PC,
                 req' = [req EXCEPT ![q].pc = pc, ![q].user = u]
          PROVE  PopsBounded'
      <4> DEFINE h == [req[q] EXCEPT !.pc = pc, !.user = u]
      <4>1. req' = [req EXCEPT ![q] = h] /\ h.pc = pc
        BY <3>4, AtPlace DEF Handler, Typed, TypeOK
      <4> QED BY <3>1, <3>4, <4>1, MovePops
    <3>5. CASE CheckBinding(q) \/ GetUser(q) \/ CheckEmail(q)
      BY <3>3, <3>5 DEF CheckBinding, GetUser, CheckEmail, PC
    <3>6. CASE GetBySID(q) \/ FindByEmail(q) \/ CreateUser(q)
      <4>1. CASE GetBySID(q)
        <5>1. ASSUME NEW u \in User,
                     req' = [req EXCEPT ![q].pc = "getUser", ![q].user = u]
              PROVE  PopsBounded'
          <6>1. "getUser" \in PC \ {"pop"} /\ req[q].pc \in PC
            BY <4>1 DEF GetBySID, PC
          <6> QED BY <3>4, <5>1, <6>1
        <5>2. CASE Goto(q, IF req[q].task = "binding" THEN "createBinding"
                                                       ELSE "findByEmail")
          BY <3>3, <4>1, <5>2 DEF GetBySID, PC
        <5> QED BY <4>1, <5>1, <5>2 DEF GetBySID
      <4>2. CASE FindByEmail(q)
        BY <3>3, <3>4, <4>2 DEF FindByEmail, PC
      <4>3. CASE CreateUser(q)
        BY <3>2, <3>4, <4>3 DEF CreateUser, PC
      <4> QED BY <3>6, <4>1, <4>2, <4>3
    <3>7. CASE CreateBinding(q) \/ OAuth2Login(q) \/ UpdateUserEmail(q) \/ Abort(q)
      BY <3>2, <3>3, <3>7 DEF CreateBinding, OAuth2Login, UpdateUserEmail, Abort, PC
    <3> QED BY <1>5, <2>2, <3>5, <3>6, <3>7 DEF Step
  <2> QED BY <2>1, <2>2
<1> QED
  BY <1>1, <1>2, <1>3, <1>4, <1>5
  DEF Next, vars, Unbind, DeleteUser, BeginCreate, BeginUpdateEmail

\* A state is used by no more callbacks than run together, however long the
\* system runs: once it is deleted nobody else reads it.
THEOREM StatesBounded == Spec => []StateUsesBounded
<1>0. Cardinality(Request) \in Nat
  BY FiniteAssumption, FS_CardinalityType
<1>1. Init => PopsBounded
  <2> SUFFICES ASSUME Init, NEW t \in State
               PROVE  uses[t] = 0 /\ uses[t] + Cardinality(Popping(t)) <= Cardinality(Request)
    BY DEF PopsBounded
  <2>1. uses[t] = 0 /\ Popping(t) = {}
    BY DEF Init, Popping, Idle
  <2> QED BY <1>0, <2>1, FS_EmptySet
<1>2. Typed /\ PopsBounded => StateUsesBounded
  <2> SUFFICES ASSUME Typed, PopsBounded, NEW t \in State
               PROVE  uses[t] <= Cardinality(Request)
    BY DEF StateUsesBounded
  <2>1. uses[t] \in Nat /\ uses[t] + Cardinality(Popping(t)) <= Cardinality(Request)
    BY DEF Typed, TypeOK, PopsBounded
  <2>2. Cardinality(Popping(t)) \in Nat
    BY PoppingFinite
  <2> QED BY <1>0, <2>1, <2>2
<1>3. Typed /\ PopsBounded /\ [Next]_vars => PopsBounded'
  BY PopsStep
<1> QED BY <1>1, <1>2, <1>3, TypedInit, TypedStep, PTL DEF Spec
=============================================================================
