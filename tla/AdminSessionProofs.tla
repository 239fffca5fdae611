-------------------------- MODULE AdminSessionProofs --------------------------
(***************************************************************************)
(* Proofs about AdminSession, for any number of users, names, passwords,   *)
(* sessions and handlers.                                                  *)
(*                                                                         *)
(* What a change of an account promises about the sessions stored before   *)
(* it, RevokedSessionsAreGone, is not inductive: while the handler deletes *)
(* what it listed, the sessions that are still there must be those it has  *)
(* left to delete (ClearsWhatItListed), which in turn needs that no later  *)
(* session is stored with an earlier era (ErasAgree).                      *)
(***************************************************************************)
EXTENDS AdminSession, FiniteSetTheorems, TLAPS

\* The eras of handlers and of finished changes are not ahead of their user's.
ErasAgree ==
  /\ \A u \in User, n \in Name : revoked[u][n] <= era[u]
  /\ \A q \in Request : req[q] # Idle /\ req[q].task \in ChangeTask =>
       req[q].era <= era[req[q].user]
  /\ \A q \in Request : req[q].pc \in {"ensure", "getSession"} =>
       req[q].task = "refresh"

\* A handler that ends sessions and has listed them has every older one that
\* is left still on its list.
ClearsWhatItListed ==
  \A q \in Request :
    req[q].pc = "clear" /\ req[q].task \in ChangeTask /\ req[q].sid = NoSid =>
      \A s \in SessionsOf(req[q].user, req[q].row.name) :
        session[s].stored < req[q].era => s \in req[q].victims

Revocation ==
  TypeOK /\ ErasAgree /\ ClearsWhatItListed /\ RevokedSessionsAreGone

-----------------------------------------------------------------------------
(* Types.                                                                  *)

\* A handler that is somewhere has its local variables.
LEMMA HandlerTyped ==
  ASSUME TypeOK, NEW q \in Request, req[q].pc \in PC
  PROVE  req[q] \in Handler /\ req[q] # Idle
BY DEF TypeOK, Idle, PC

\* Only what Begin, Goto and Return do to req is left to type.
LEMMA BeginTyped ==
  ASSUME TypeOK, NEW q \in Request, NEW t \in Task, NEW u \in User,
         NEW pc \in PC, NEW s \in Sid \cup {NoSid}, NEW new \in UserRow,
         Begin(q, t, u, pc, s, new), t \in SessionTask => s \in Sid
  PROVE  /\ req' \in [Request -> {Idle} \cup Handler]
         /\ req[q] = Idle
         /\ req'[q].pc = pc /\ req'[q].task = t /\ req'[q].user = u
         /\ req'[q].sid = s /\ req'[q].era = era[u] /\ req'[q] # Idle
         /\ req'[q].from = NoSid /\ req'[q].row = user[u]
         /\ \A p \in Request \ {q} : req'[p] = req[p]
<1>1. era[u] \in Nat /\ user[u] \in UserRow
  BY DEF TypeOK
<1> DEFINE h == [pc |-> pc, task |-> t, user |-> u, row |-> user[u], sid |-> s,
                 from |-> NoSid, era |-> era[u], new |-> new, victims |-> {}]
<1>2. h \in Handler
  BY <1>1 DEF Handler
<1>3. h # Idle
  BY DEF Idle, PC
<1>4. req \in [Request -> {Idle} \cup Handler] /\ req' = [req EXCEPT ![q] = h]
  BY DEF TypeOK, Begin
<1> QED
  BY <1>2, <1>3, <1>4 DEF Begin

\* Moving a handler on leaves every handler well-typed.
LEMMA GotoTyped ==
  ASSUME TypeOK, NEW q \in Request, NEW pc \in PC, req[q] \in Handler,
         Goto(q, pc)
  PROVE  /\ req' \in [Request -> {Idle} \cup Handler]
         /\ req'[q] = [req[q] EXCEPT !.pc = pc]
         /\ req'[q].pc = pc
         /\ req'[q].task = req[q].task /\ req'[q].user = req[q].user
         /\ req'[q].era = req[q].era /\ req'[q].sid = req[q].sid
         /\ req'[q].from = req[q].from /\ req'[q].row = req[q].row
         /\ \A p \in Request \ {q} : req'[p] = req[p]
<1>1. [req[q] EXCEPT !.pc = pc] \in Handler
  BY DEF Handler
<1>2. req' = [req EXCEPT ![q] = [req[q] EXCEPT !.pc = pc]]
  BY DEF Goto
<1> QED
  BY <1>1, <1>2 DEF TypeOK, Handler

\* A handler that is done is idle, and no other moved.
LEMMA ReturnTyped ==
  ASSUME TypeOK, NEW q \in Request, Return(q)
  PROVE  /\ req' \in [Request -> {Idle} \cup Handler]
         /\ req'[q] = Idle
         /\ \A p \in Request \ {q} : req'[p] = req[p]
BY DEF TypeOK, Return

-----------------------------------------------------------------------------
(* Revocation, by what a step does to the sessions.                        *)

\* A step that leaves the sessions and "revoked" alone, whose handler does not
\* get to delete sessions by it.
LEMMA QuietStep ==
  ASSUME Revocation, called' = called, NEW q \in Request,
         UNCHANGED <<session, revoked>>,
         era' \in [User -> Nat], \A u \in User : era[u] <= era'[u],
         req' \in [Request -> {Idle} \cup Handler],
         \A p \in Request \ {q} : req'[p] = req[p],
         \/ req'[q] = Idle
         \/ /\ req'[q].pc # "clear"
            /\ req'[q].task \in ChangeTask =>
                 req'[q].era <= era'[req'[q].user]
            /\ req'[q].pc \in {"ensure", "getSession"} =>
                 req'[q].task = "refresh"
  PROVE  ErasAgree' /\ ClearsWhatItListed' /\ RevokedSessionsAreGone'
<1>1. \A p \in Request : req'[p] # Idle => req'[p].user \in User
  BY DEF Handler
<1>2. ErasAgree'
  <2>1. \A u \in User, n \in Name : revoked'[u][n] <= era'[u]
    <3> SUFFICES ASSUME NEW u \in User, NEW n \in Name
                 PROVE  revoked'[u][n] <= era'[u]
      OBVIOUS
    <3>1. revoked[u][n] \in Nat /\ era[u] \in Nat /\ era'[u] \in Nat
      BY DEF Revocation, TypeOK
    <3> QED
      BY <3>1 DEF Revocation, ErasAgree
  <2>2. ASSUME NEW p \in Request, req'[p] # Idle, req'[p].task \in ChangeTask
        PROVE  req'[p].era <= era'[req'[p].user]
    <3>1. CASE p = q
      BY <2>2, <3>1
    <3>2. CASE p # q
      <4>1. req[p] \in Handler /\ req[p] # Idle /\ req'[p] = req[p]
        BY <2>2, <3>2 DEF Revocation, TypeOK
      <4>2. req[p].era \in Nat /\ req[p].user \in User
        BY <4>1 DEF Handler
      <4>3. era[req[p].user] \in Nat /\ era'[req[p].user] \in Nat
        BY <4>2 DEF Revocation, TypeOK
      <4>4. req[p].era <= era[req[p].user]
        BY <2>2, <4>1 DEF Revocation, ErasAgree
      <4> QED
        BY <4>1, <4>2, <4>3, <4>4
    <3> QED
      BY <3>1, <3>2
  <2>3. ASSUME NEW p \in Request, req'[p].pc \in {"ensure", "getSession"}
        PROVE  req'[p].task = "refresh"
    BY <2>3 DEF Revocation, ErasAgree, Idle
  <2> QED
    BY <2>1, <2>2, <2>3 DEF ErasAgree
<1>3. ClearsWhatItListed'
  <2>1. ASSUME NEW p \in Request, req'[p].pc = "clear"
        PROVE  p # q /\ req'[p] = req[p]
    BY <2>1 DEF Idle
  <2> QED
    BY <2>1 DEF Revocation, ClearsWhatItListed, SessionsOf, Live
<1>4. RevokedSessionsAreGone'
  BY DEF Revocation, RevokedSessionsAreGone, Live
<1> QED
  BY <1>2, <1>3, <1>4

\* A session is deleted, and taken off the list of the handler that did it.
LEMMA DeleteStep ==
  ASSUME Revocation, called' = called, NEW s \in Sid,
         session' = [session EXCEPT ![s] = NoSession],
         UNCHANGED <<era, revoked>>,
         req' \in [Request -> {Idle} \cup Handler],
         \A p \in Request :
           \/ req'[p] = req[p]
           \/ /\ req[p] # Idle /\ req'[p] # Idle
              /\ req'[p].pc = req[p].pc
              /\ req'[p].task = req[p].task /\ req'[p].user = req[p].user
              /\ req'[p].row = req[p].row /\ req'[p].sid = req[p].sid
              /\ req'[p].era = req[p].era
              /\ req[p].victims \ {s} \subseteq req'[p].victims
           \/ /\ req'[p].pc \notin {"clear", "ensure", "getSession"}
              /\ req[p] # Idle /\ req'[p].task = req[p].task
              /\ req'[p].user = req[p].user /\ req'[p].era = req[p].era
  PROVE  ErasAgree' /\ ClearsWhatItListed' /\ RevokedSessionsAreGone'
<1>1. \A t \in Sid : session'[t] = IF t = s THEN NoSession ELSE session[t]
  BY DEF Revocation, TypeOK
<1>2. ErasAgree'
  BY DEF Revocation, ErasAgree
<1>3. ClearsWhatItListed'
  <2>1. SUFFICES ASSUME NEW p \in Request, req'[p].pc = "clear",
                        req'[p].task \in ChangeTask, req'[p].sid = NoSid,
                        NEW t \in Sid, session'[t] # NoSession,
                        session'[t].user = req'[p].user,
                        session'[t].name = req'[p].row.name,
                        session'[t].stored < req'[p].era
                 PROVE  t \in req'[p].victims
    BY DEF ClearsWhatItListed, SessionsOf, Live
  <2>2. t # s /\ session'[t] = session[t]
    BY <1>1, <2>1
  <2>3. /\ req[p].pc = "clear" /\ req[p].task \in ChangeTask
        /\ req[p].sid = NoSid /\ session[t].user = req[p].user
        /\ session[t].name = req[p].row.name /\ session[t].stored < req[p].era
        /\ req[p].victims \ {s} \subseteq req'[p].victims
    BY <2>1, <2>2
  <2>4. t \in req[p].victims
    BY <2>1, <2>2, <2>3 DEF Revocation, ClearsWhatItListed, SessionsOf, Live
  <2> QED
    BY <2>2, <2>3, <2>4
<1>4. RevokedSessionsAreGone'
  BY <1>1 DEF Revocation, RevokedSessionsAreGone, Live
<1> QED
  BY <1>2, <1>3, <1>4

-----------------------------------------------------------------------------
(* The steps, one lemma for each kind.                                     *)

\* What follows a first read has no list yet and the era of its user.
LEMMA BeginStep ==
  ASSUME Revocation, called' = called,
         NEW q \in Request, NEW t \in Task, NEW u \in User,
         NEW pc \in PC \ {"clear"}, NEW s \in Sid \cup {NoSid},
         NEW new \in UserRow, Begin(q, t, u, pc, s, new),
         t \in SessionTask => s \in Sid,
         pc \in {"ensure", "getSession"} => t = "refresh",
         UNCHANGED <<user, session, history, era, revoked>>,
         drawn' \subseteq Sid, token' = token
  PROVE  Revocation'
<1>1. TypeOK
  BY DEF Revocation
<1>2. /\ req' \in [Request -> {Idle} \cup Handler]
      /\ req'[q].pc = pc /\ req'[q].task = t /\ req'[q].user = u
      /\ req'[q].era = era[u] /\ \A p \in Request \ {q} : req'[p] = req[p]
  BY <1>1, BeginTyped
<1>3. TypeOK'
  BY <1>1, <1>2 DEF TypeOK
<1>4. era' \in [User -> Nat] /\ \A v \in User : era[v] <= era'[v]
  BY <1>1 DEF TypeOK
<1>5. ErasAgree' /\ ClearsWhatItListed' /\ RevokedSessionsAreGone'
  BY <1>2, <1>4, QuietStep
<1> QED
  BY <1>3, <1>5 DEF Revocation

\* A handler goes on to a step that neither deletes sessions nor refreshes.
LEMMA GotoStep ==
  ASSUME Revocation, called' = called,
         NEW q \in Request, NEW pc \in PC, req[q].pc \in PC,
         Goto(q, pc), pc # "clear",
         pc \in {"ensure", "getSession"} => req[q].task = "refresh",
         UNCHANGED <<user, session, drawn, token, era, revoked>>,
         history' \in [User -> Seq(Password)]
  PROVE  Revocation'
<1>1. TypeOK
  BY DEF Revocation
<1>2. req[q] \in Handler /\ req[q] # Idle
  BY <1>1, HandlerTyped
<1>3. /\ req' \in [Request -> {Idle} \cup Handler]
      /\ req'[q].pc = pc /\ req'[q].task = req[q].task
      /\ req'[q].user = req[q].user /\ req'[q].era = req[q].era
      /\ \A p \in Request \ {q} : req'[p] = req[p]
  BY <1>1, <1>2, GotoTyped
<1>4. TypeOK'
  BY <1>1, <1>3 DEF TypeOK
<1>5. era' \in [User -> Nat] /\ \A v \in User : era[v] <= era'[v]
  BY <1>1 DEF TypeOK
<1>6. req'[q].task \in ChangeTask => req'[q].era <= era'[req'[q].user]
  BY <1>2, <1>3 DEF Revocation, ErasAgree
<1>7. ErasAgree' /\ ClearsWhatItListed' /\ RevokedSessionsAreGone'
  BY <1>3, <1>5, <1>6, QuietStep
<1> QED
  BY <1>4, <1>7 DEF Revocation

\* A handler returns, having written no session.
LEMMA ReturnStep ==
  ASSUME Revocation, called' = called, NEW q \in Request, Return(q),
         UNCHANGED <<session, history, drawn, token, era, revoked>>,
         user' \in [User -> UserRow]
  PROVE  Revocation'
<1>1. TypeOK
  BY DEF Revocation
<1>2. /\ req' \in [Request -> {Idle} \cup Handler] /\ req'[q] = Idle
      /\ \A p \in Request \ {q} : req'[p] = req[p]
  BY <1>1, ReturnTyped
<1>3. TypeOK'
  BY <1>1, <1>2 DEF TypeOK
<1>4. era' \in [User -> Nat] /\ \A v \in User : era[v] <= era'[v]
  BY <1>1 DEF TypeOK
<1>5. ErasAgree' /\ ClearsWhatItListed' /\ RevokedSessionsAreGone'
  BY <1>2, <1>4, QuietStep
<1> QED
  BY <1>3, <1>5 DEF Revocation

\* A change is made: its era begins, and its handler goes on to what follows.
LEMMA ChangeStep ==
  ASSUME Revocation, called' = called,
         NEW q \in Request, NEW pc \in PC \ {"clear"},
         pc \notin {"ensure", "getSession"}, req[q].pc \in PC, NextEra(q),
         req' = [req EXCEPT ![q].pc = pc, ![q].era = era[req[q].user] + 1],
         UNCHANGED <<session, history, drawn, token, revoked>>,
         user' \in [User -> UserRow]
  PROVE  Revocation'
<1>1. TypeOK
  BY DEF Revocation
<1>2. req[q] \in Handler /\ req[q] # Idle
  BY <1>1, HandlerTyped
<1>3. req[q].user \in User /\ era[req[q].user] \in Nat
  BY <1>1, <1>2 DEF Handler, TypeOK
<1>4. era' = [era EXCEPT ![req[q].user] = era[req[q].user] + 1]
  BY DEF NextEra
<1>5. era' \in [User -> Nat] /\ \A v \in User : era[v] <= era'[v]
  BY <1>1, <1>3, <1>4 DEF TypeOK
<1> DEFINE g == [req[q] EXCEPT !.pc = pc]
           h == [g EXCEPT !.era = era[req[q].user] + 1]
<1>6. /\ h \in Handler /\ h.pc = pc /\ h.user = req[q].user
      /\ h.era = era[req[q].user] + 1
  <2>1. g \in Handler /\ g.pc = pc /\ g.user = req[q].user
    BY <1>2 DEF Handler
  <2> HIDE DEF g
  <2> QED
    BY <1>3, <2>1 DEF Handler
<1>7. req' = [req EXCEPT ![q] = h]
  OBVIOUS
<1>8. /\ req' \in [Request -> {Idle} \cup Handler] /\ req'[q] = h
      /\ \A p \in Request \ {q} : req'[p] = req[p]
  BY <1>1, <1>6, <1>7 DEF TypeOK
<1>9. TypeOK'
  BY <1>1, <1>5, <1>8 DEF TypeOK
<1>10. req'[q].era <= era'[req'[q].user]
  BY <1>1, <1>3, <1>4, <1>6, <1>8 DEF TypeOK
<1>11. ErasAgree' /\ ClearsWhatItListed' /\ RevokedSessionsAreGone'
  BY <1>5, <1>6, <1>8, <1>10, QuietStep
<1> QED
  BY <1>9, <1>11 DEF Revocation

\* The list is made after the change: what it misses was stored later.
LEMMA ListStep ==
  ASSUME Revocation, called' = called, NEW q \in Request, ListSessions(q)
  PROVE  Revocation'
<1>1. TypeOK
  BY DEF Revocation
<1>2. req[q] \in Handler /\ req[q] # Idle
  BY <1>1, HandlerTyped DEF ListSessions, PC
<1> DEFINE listed == SessionsOf(req[q].user, req[q].row.name) \ {req[q].sid}
           g == [req[q] EXCEPT !.pc = "clear"]
           h == [g EXCEPT !.victims = listed]
<1>3. listed \subseteq Sid
  BY DEF SessionsOf
<1>4. /\ g \in Handler /\ g.task = req[q].task /\ g.user = req[q].user
      /\ g.row = req[q].row /\ g.sid = req[q].sid /\ g.era = req[q].era
      /\ g.pc = "clear"
  BY <1>2 DEF Handler, PC
<1>5. /\ h \in Handler /\ h.task = req[q].task /\ h.user = req[q].user
      /\ h.row = req[q].row /\ h.sid = req[q].sid /\ h.era = req[q].era
      /\ h.pc = "clear" /\ h.victims = listed
  <2> HIDE DEF g, listed
  <2> QED
    BY <1>3, <1>4 DEF Handler
<1>6. req' = [req EXCEPT ![q] = h]
  BY DEF ListSessions
<1>7. /\ req' \in [Request -> {Idle} \cup Handler] /\ req'[q] = h
      /\ \A p \in Request \ {q} : req'[p] = req[p]
  BY <1>1, <1>5, <1>6 DEF TypeOK
<1> HIDE DEF h
<1>8. UNCHANGED <<user, session, history, drawn, token, era, revoked>>
  BY DEF ListSessions
<1>9. TypeOK'
  BY <1>1, <1>7, <1>8 DEF TypeOK
<1>10. ErasAgree'
  BY <1>2, <1>5, <1>7, <1>8 DEF Revocation, ErasAgree
<1>11. ClearsWhatItListed'
  <2>1. SUFFICES ASSUME NEW p \in Request, req'[p].pc = "clear",
                        req'[p].task \in ChangeTask, req'[p].sid = NoSid,
                        NEW s \in Sid, session[s] # NoSession,
                        session[s].user = req'[p].user,
                        session[s].name = req'[p].row.name,
                        session[s].stored < req'[p].era
                 PROVE  s \in req'[p].victims
    BY <1>8 DEF ClearsWhatItListed, SessionsOf, Live
  <2>2. CASE p = q
    <3>1. s # req[q].sid
      BY <1>5, <1>7, <2>1, <2>2, SetAssumption
    <3>2. s \in SessionsOf(req[q].user, req[q].row.name)
      BY <1>5, <1>7, <2>1, <2>2 DEF SessionsOf, Live
    <3> QED
      BY <1>5, <1>7, <2>2, <3>1, <3>2
  <2>3. CASE p # q
    BY <1>7, <2>1, <2>3 DEF Revocation, ClearsWhatItListed, SessionsOf, Live
  <2> QED
    BY <2>2, <2>3
<1>12. RevokedSessionsAreGone'
  BY <1>8 DEF Revocation, RevokedSessionsAreGone, Live
<1> QED
  BY <1>9, <1>10, <1>11, <1>12 DEF Revocation

\* A session is stored in the era of its user, which no change is ahead of.
LEMMA StoreStep ==
  ASSUME Revocation, called' = called, NEW q \in Request, UpsertSession(q)
  PROVE  Revocation'
<1>1. TypeOK
  BY DEF Revocation
<1>2. req[q] \in Handler /\ req[q] # Idle
  BY <1>1, HandlerTyped DEF UpsertSession, PC
<1> DEFINE s == req[q].sid
           u == req[q].user
           new == [user |-> u, name |-> req[q].row.name, from |-> req[q].from,
                   stored |-> era[u]]
<1>3. u \in User /\ era[u] \in Nat /\ req[q].row.name \in Name
  BY <1>1, <1>2 DEF Handler, TypeOK, UserRow
<1>4. new \in SessionRow
  BY <1>2, <1>3 DEF Handler, SessionRow
<1>5. session' = [session EXCEPT ![s] = new] /\ UNCHANGED <<era, revoked>>
  BY DEF UpsertSession
<1>6. \A t \in Sid : session'[t] = IF t = s THEN new ELSE session[t]
  BY <1>1, <1>5 DEF TypeOK
<1>7. /\ req' \in [Request -> {Idle} \cup Handler] /\ req'[q] = Idle
      /\ \A p \in Request \ {q} : req'[p] = req[p]
  BY <1>1, ReturnTyped DEF UpsertSession
<1>8. TypeOK'
  <2>1. session' \in [Sid -> {NoSession} \cup SessionRow]
    BY <1>1, <1>4, <1>5 DEF TypeOK
  <2>2. token' \subseteq User \X Sid
    <3>1. token' = token \/ token' = token \cup {<<u, s>>}
      BY DEF UpsertSession
    <3>2. s \in Sid
      BY <1>2 DEF UpsertSession, Handler
    <3> QED
      BY <1>1, <1>3, <3>1, <3>2 DEF TypeOK
  <2> QED
    BY <1>1, <1>7, <2>1, <2>2 DEF UpsertSession, TypeOK
<1>9. ErasAgree'
  BY <1>5, <1>7 DEF Revocation, ErasAgree, Idle
<1>10. ClearsWhatItListed'
  <2>1. SUFFICES ASSUME NEW p \in Request, req'[p].pc = "clear",
                        req'[p].task \in ChangeTask, req'[p].sid = NoSid,
                        NEW t \in Sid, session'[t] # NoSession,
                        session'[t].user = req'[p].user,
                        session'[t].name = req'[p].row.name,
                        session'[t].stored < req'[p].era
                 PROVE  t \in req'[p].victims
    BY DEF ClearsWhatItListed, SessionsOf, Live
  <2>2. p # q /\ req'[p] = req[p] /\ req[p] # Idle
    BY <1>7, <2>1 DEF Idle
  <2>3. CASE t = s
    <3>1. session'[t] = new
      BY <1>6, <2>3
    <3>2. req[p].era <= era[req[p].user] /\ req[p] \in Handler
      BY <1>1, <2>1, <2>2 DEF Revocation, ErasAgree, TypeOK
    <3>3. req[p].era \in Nat /\ req[p].user = u
      BY <2>1, <2>2, <3>1, <3>2 DEF Handler
    <3> QED
      BY <1>3, <2>1, <2>2, <3>1, <3>2, <3>3
  <2>4. CASE t # s
    BY <1>6, <2>1, <2>2, <2>4
       DEF Revocation, ClearsWhatItListed, SessionsOf, Live
  <2> QED
    BY <2>3, <2>4
<1>11. RevokedSessionsAreGone'
  <2>1. ASSUME NEW t \in Sid, session'[t] # NoSession
        PROVE  session'[t].stored >= revoked[session'[t].user][session'[t].name]
    <3>1. CASE t = s
      BY <1>1, <1>3, <1>6, <3>1 DEF Revocation, ErasAgree, TypeOK
    <3>2. CASE t # s
      BY <1>6, <2>1, <3>2 DEF Revocation, RevokedSessionsAreGone, Live
    <3> QED
      BY <3>1, <3>2
  <2> QED
    BY <1>5, <2>1 DEF RevokedSessionsAreGone, Live
<1> QED
  BY <1>8, <1>9, <1>10, <1>11 DEF Revocation

\* With nothing left on the list, no session of that name is older.
LEMMA FinishStep ==
  ASSUME Revocation, called' = called, NEW q \in Request, Finish(q)
  PROVE  Revocation'
<1>1. TypeOK
  BY DEF Revocation
<1>2. req[q] \in Handler /\ req[q] # Idle
  BY <1>1, HandlerTyped DEF Finish, PC
<1> DEFINE u == req[q].user
           n == req[q].row.name
<1>3. u \in User /\ n \in Name /\ req[q].era \in Nat
  BY <1>2 DEF Handler, UserRow
<1>4. req[q].era <= era[u] /\ era[u] \in Nat /\ revoked[u][n] \in Nat
  BY <1>1, <1>2, <1>3 DEF Finish, Revocation, ErasAgree, TypeOK
<1>5. /\ req' \in [Request -> {Idle} \cup Handler] /\ req'[q] = Idle
      /\ \A p \in Request \ {q} : req'[p] = req[p]
  BY <1>1, ReturnTyped DEF Finish
<1>6. UNCHANGED <<user, session, history, drawn, token, era>>
  BY DEF Finish
<1>7. CASE req[q].sid # NoSid
  <2>1. revoked' = revoked
    BY <1>7 DEF Finish
  <2> QED
    BY <1>1, <1>5, <1>6, <1>7, <2>1, ReturnStep DEF Finish, TypeOK
<1>8. CASE req[q].sid = NoSid
  <2>1. revoked' = [revoked EXCEPT ![u][n] = Later(revoked[u][n], req[q].era)]
    BY <1>8 DEF Finish
  <2>2. Later(revoked[u][n], req[q].era) \in Nat
    BY <1>3, <1>4 DEF Later
  <2>3. revoked' \in [User -> [Name -> Nat]]
    BY <1>1, <1>3, <2>1, <2>2 DEF TypeOK
  <2>4. TypeOK'
    BY <1>1, <1>5, <1>6, <2>3 DEF TypeOK
  <2>5. \A v \in User, m \in Name :
          revoked'[v][m] = IF v = u /\ m = n
                           THEN Later(revoked[u][n], req[q].era)
                           ELSE revoked[v][m]
    BY <1>1, <1>3, <2>1 DEF TypeOK
  <2>6. ErasAgree'
    <3>1. \A v \in User, m \in Name : revoked'[v][m] <= era'[v]
      BY <1>3, <1>4, <1>6, <2>5 DEF Revocation, ErasAgree, Later
    <3> QED
      BY <1>5, <1>6, <3>1 DEF Revocation, ErasAgree, Idle
  <2>7. ClearsWhatItListed'
    BY <1>5, <1>6 DEF Revocation, ClearsWhatItListed, SessionsOf, Live, Idle
  <2>8. RevokedSessionsAreGone'
    <3>1. SUFFICES ASSUME NEW s \in Sid, session[s] # NoSession
                   PROVE  session[s].stored
                            >= revoked'[session[s].user][session[s].name]
      BY <1>6 DEF RevokedSessionsAreGone, Live
    <3>2. /\ session[s].user \in User /\ session[s].name \in Name
          /\ session[s].stored \in Nat
      BY <1>1, <3>1 DEF TypeOK, SessionRow
    <3>3. session[s].stored >= revoked[session[s].user][session[s].name]
      BY <3>1 DEF Revocation, RevokedSessionsAreGone, Live
    <3>4. CASE session[s].user = u /\ session[s].name = n
      <4>1. ~(session[s].stored < req[q].era)
        BY <1>8, <3>1, <3>4
           DEF Finish, Revocation, ClearsWhatItListed, SessionsOf, Live
      <4> QED
        BY <1>3, <1>4, <2>5, <3>2, <3>3, <3>4, <4>1 DEF Later
    <3>5. CASE ~(session[s].user = u /\ session[s].name = n)
      BY <2>5, <3>2, <3>3, <3>5
    <3> QED
      BY <3>4, <3>5
  <2> QED
    BY <2>4, <2>6, <2>7, <2>8 DEF Revocation
<1> QED
  BY <1>7, <1>8

\* Deleting one of the listed sessions keeps the invariant.
LEMMA DeleteListedStep ==
  ASSUME Revocation, called' = called,
         NEW q \in Request, NEW s \in Sid, DeleteListed(q, s)
  PROVE  Revocation'
<1>1. TypeOK
  BY DEF Revocation
<1>2. req[q] \in Handler /\ req[q] # Idle
  BY <1>1, HandlerTyped DEF DeleteListed, PC
<1> DEFINE h == [req[q] EXCEPT !.victims = req[q].victims \ {s}]
<1>3. /\ h \in Handler /\ h.pc = req[q].pc /\ h.task = req[q].task
      /\ h.user = req[q].user /\ h.row = req[q].row /\ h.sid = req[q].sid
      /\ h.era = req[q].era /\ h.victims = req[q].victims \ {s}
  BY <1>2 DEF Handler
<1>4. req' = [req EXCEPT ![q] = h]
  BY DEF DeleteListed
<1> HIDE DEF h
<1>5. /\ req' \in [Request -> {Idle} \cup Handler] /\ req'[q] = h /\ h # Idle
      /\ \A p \in Request \ {q} : req'[p] = req[p]
  BY <1>1, <1>3, <1>4 DEF TypeOK, Handler, Idle, PC
<1>6. /\ session' = [session EXCEPT ![s] = NoSession]
      /\ UNCHANGED <<user, history, drawn, token, era, revoked>>
  BY DEF DeleteListed
<1>7. TypeOK'
  BY <1>1, <1>5, <1>6 DEF TypeOK
<1>8. ErasAgree' /\ ClearsWhatItListed' /\ RevokedSessionsAreGone'
  BY <1>2, <1>3, <1>5, <1>6, DeleteStep
<1> QED
  BY <1>7, <1>8 DEF Revocation

\* So does a logout, which deletes one session.
LEMMA LogoutStep ==
  ASSUME Revocation, called' = called, NEW s \in Sid, Logout(s)
  PROVE  Revocation'
<1>1. TypeOK'
  BY DEF Revocation, TypeOK, Logout
<1>2. req' \in [Request -> {Idle} \cup Handler]
  BY <1>1 DEF TypeOK
<1>3. ErasAgree' /\ ClearsWhatItListed' /\ RevokedSessionsAreGone'
  BY <1>2, DeleteStep DEF Logout
<1> QED
  BY <1>1, <1>3 DEF Revocation

\* So does a refresh that looks its session up.
LEMMA GetSessionStep ==
  ASSUME Revocation, called' = called, NEW q \in Request, GetSession(q)
  PROVE  Revocation'
<1>1. TypeOK
  BY DEF Revocation
<1>2. req[q] \in Handler /\ req[q] # Idle
  BY <1>1, HandlerTyped DEF GetSession, PC
<1>3. req[q].task = "refresh"
  BY DEF GetSession, Revocation, ErasAgree
<1>4. req[q].sid \in Sid
  BY <1>2, <1>3 DEF Handler, SessionTask
<1> DEFINE f == [req[q] EXCEPT !.pc = "replace"]
           h == [f EXCEPT !.from = req[q].sid]
<1>5. f \in Handler /\ f.pc = "replace" /\ f.task = "refresh"
  BY <1>2, <1>3 DEF Handler, PC
<1>7. h \in Handler /\ h.pc = "replace" /\ h.task = "refresh"
  <2> HIDE DEF f
  <2> QED
    BY <1>4, <1>5 DEF Handler
<1>8. req' = [req EXCEPT ![q] = h]
  BY DEF GetSession
<1> HIDE DEF h
<1>9. /\ req' \in [Request -> {Idle} \cup Handler] /\ req'[q] = h
      /\ \A p \in Request \ {q} : req'[p] = req[p]
  BY <1>1, <1>7, <1>8 DEF TypeOK
<1>10. UNCHANGED <<user, session, history, drawn, token, era, revoked>>
  BY DEF GetSession
<1>11. TypeOK'
  BY <1>1, <1>9, <1>10 DEF TypeOK
<1>12. era' \in [User -> Nat] /\ \A v \in User : era[v] <= era'[v]
  BY <1>1, <1>10 DEF TypeOK
<1>13. h.pc # "clear" /\ h.task \notin ChangeTask
  BY <1>7 DEF ChangeTask
<1>14. ErasAgree' /\ ClearsWhatItListed' /\ RevokedSessionsAreGone'
  BY <1>7, <1>9, <1>10, <1>12, <1>13, QuietStep
<1> QED
  BY <1>11, <1>14 DEF Revocation

\* So does a refresh that has replaced its session.
LEMMA ReplaceStep ==
  ASSUME Revocation, called' = called,
         NEW q \in Request, NEW s \in Sid, ReplaceSession(q, s)
  PROVE  Revocation'
<1>1. TypeOK
  BY DEF Revocation
<1>2. req[q] \in Handler /\ req[q] # Idle
  BY <1>1, HandlerTyped DEF ReplaceSession, PC
<1> DEFINE pc == IF req[q].row.multi THEN "insert" ELSE "list"
           g == [req[q] EXCEPT !.pc = pc]
           h == [g EXCEPT !.sid = s]
<1>3. pc \in {"insert", "list"}
  OBVIOUS
<1>4. /\ g \in Handler /\ g.pc = pc /\ g.task = req[q].task
      /\ g.user = req[q].user /\ g.era = req[q].era
  <2> HIDE DEF pc
  <2> QED
    BY <1>2, <1>3 DEF Handler, PC
<1>5. /\ h \in Handler /\ h.pc = pc /\ h.task = req[q].task
      /\ h.user = req[q].user /\ h.era = req[q].era
  <2> HIDE DEF g, pc
  <2> QED
    BY <1>4 DEF Handler
<1>6. req' = [req EXCEPT ![q] = h]
  BY DEF ReplaceSession
<1> HIDE DEF h, pc
<1>7. /\ req' \in [Request -> {Idle} \cup Handler] /\ req'[q] = h
      /\ \A p \in Request \ {q} : req'[p] = req[p]
  BY <1>1, <1>5, <1>6 DEF TypeOK
<1>8. /\ session' = [session EXCEPT ![req[q].from] = NoSession]
      /\ drawn' = drawn \cup {s}
      /\ UNCHANGED <<user, history, token, era, revoked>>
  BY DEF ReplaceSession
<1>9. TypeOK'
  BY <1>1, <1>7, <1>8 DEF TypeOK
<1>10. CASE req[q].from \in Sid
  <2>1. ErasAgree' /\ ClearsWhatItListed' /\ RevokedSessionsAreGone'
    BY <1>2, <1>3, <1>5, <1>7, <1>8, <1>10, DeleteStep
  <2> QED
    BY <1>9, <2>1 DEF Revocation
<1>11. CASE req[q].from \notin Sid
  <2>1. session' = session
    BY <1>1, <1>8, <1>11 DEF TypeOK
  <2>2. era' \in [User -> Nat] /\ \A v \in User : era[v] <= era'[v]
    BY <1>1, <1>8 DEF TypeOK
  <2>3. req'[q].task \in ChangeTask => req'[q].era <= era'[req'[q].user]
    BY <1>2, <1>5, <1>7, <1>8 DEF Revocation, ErasAgree
  <2>4. ErasAgree' /\ ClearsWhatItListed' /\ RevokedSessionsAreGone'
    BY <1>3, <1>5, <1>7, <1>8, <2>1, <2>2, <2>3, QuietStep
  <2> QED
    BY <1>9, <2>4 DEF Revocation
<1> QED
  BY <1>10, <1>11

-----------------------------------------------------------------------------
(* The theorems.                                                           *)

\* At the start nothing is stored and nobody runs.
LEMMA RevocationInit == Init => Revocation
<1> SUFFICES ASSUME Init PROVE Revocation
  OBVIOUS
<1>1. TypeOK
  BY DEF Init, TypeOK, UserRow
<1>2. ErasAgree /\ ClearsWhatItListed /\ RevokedSessionsAreGone
  BY DEF Init, ErasAgree, ClearsWhatItListed, RevokedSessionsAreGone, Live, Idle
<1> QED
  BY <1>1, <1>2 DEF Revocation

\* What is called is chosen once.
LEMMA CalledStays == [Next]_vars => called' = called
<1> SUFFICES ASSUME [Next]_vars PROVE called' = called
  OBVIOUS
<1>1. ASSUME NEW s \in Sid, Logout(s) PROVE called' = called
  BY <1>1 DEF Logout
<1>2. ASSUME NEW q \in Request, NEW u \in User,
             \/ \E t \in Task, s \in Sid : BeginLogin(q, t, u, s)
             \/ \E s \in Sid : BeginRefresh(q, u, s)
             \/ \E p \in Password : BeginPassword(q, u, p)
             \/ \E t \in Task, s \in drawn \cup {NoSid} :
                  BeginToggle(q, t, u, s)
             \/ BeginDelete(q, u) \/ \E n \in Name : BeginRename(q, u, n)
      PROVE  called' = called
  BY <1>2 DEF BeginLogin, BeginRefresh, BeginPassword, BeginToggle,
              BeginDelete, BeginRename
<1>3. ASSUME NEW q \in Request, NEW s \in Sid,
             DeleteListed(q, s) \/ ReplaceSession(q, s)
      PROVE  called' = called
  BY <1>3 DEF DeleteListed, ReplaceSession
<1>4. ASSUME NEW q \in Request,
             \/ UpdateUserLoginTime(q) \/ ListSessions(q) \/ UpsertSession(q)
             \/ EnsureAllowed(q) \/ GetSession(q)
             \/ CheckHistory(q) \/ ResetUserPassword(q)
             \/ CreateUserPasswordHistory(q)
             \/ ReadFlag(q) \/ WriteFlag(q) \/ DeleteUser(q) \/ Finish(q)
             \/ UpdateUser(q) \/ Abort(q)
      PROVE  called' = called
  BY <1>4 DEF UpdateUserLoginTime, ListSessions, UpsertSession, EnsureAllowed,
              GetSession, CheckHistory, ResetUserPassword,
              CreateUserPasswordHistory, ReadFlag, WriteFlag, DeleteUser,
              Finish, UpdateUser, Abort
<1>5. CASE UNCHANGED vars
  BY <1>5 DEF vars
<1> QED
  BY <1>1, <1>2, <1>3, <1>4, <1>5 DEF Next

\* Every step keeps the invariant.
LEMMA RevocationStep == Revocation /\ [Next]_vars => Revocation'
<1> SUFFICES ASSUME Revocation, [Next]_vars, called' = called
             PROVE  Revocation'
  BY CalledStays
<1>t. TypeOK
  BY DEF Revocation
<1>1. ASSUME NEW s \in Sid, Logout(s) PROVE Revocation'
  BY <1>1, LogoutStep
<1>2. ASSUME NEW q \in Request, NEW u \in User, NEW t \in Task, NEW s \in Sid,
             BeginLogin(q, t, u, s)
      PROVE  Revocation'
  <2>1. user[u] \in UserRow /\ drawn' \subseteq Sid
    BY <1>t, <1>2 DEF TypeOK, BeginLogin
  <2> QED
    BY <1>2, <2>1, BeginStep DEF BeginLogin, PC
<1>3. ASSUME NEW q \in Request, NEW u \in User, NEW s \in Sid,
             BeginRefresh(q, u, s)
      PROVE  Revocation'
  <2> DEFINE pc == IF user[u].multi THEN "getSession" ELSE "ensure"
  <2>1. user[u] \in UserRow /\ drawn' \subseteq Sid
    BY <1>t, <1>3 DEF TypeOK, BeginRefresh
  <2>2. pc \in PC \ {"clear"} /\ "refresh" \in Task
    BY DEF PC, Task, SessionTask
  <2>3. Begin(q, "refresh", u, pc, s, user[u])
    BY <1>3 DEF BeginRefresh
  <2> HIDE DEF pc
  <2> QED
    BY <1>3, <2>1, <2>2, <2>3, BeginStep DEF BeginRefresh
<1>4. ASSUME NEW q \in Request, NEW u \in User, NEW p \in Password,
             BeginPassword(q, u, p)
      PROVE  Revocation'
  <2>1. /\ [user[u] EXCEPT !.password = p] \in UserRow
        /\ drawn' \subseteq Sid
    BY <1>t, <1>4 DEF TypeOK, BeginPassword, UserRow
  <2> QED
    BY <1>4, <2>1, BeginStep
       DEF BeginPassword, PC, Task, ChangeTask, SessionTask
<1>5. ASSUME NEW q \in Request, NEW u \in User, NEW t \in Task,
             NEW s \in drawn \cup {NoSid}, BeginToggle(q, t, u, s)
      PROVE  Revocation'
  <2>1. user[u] \in UserRow /\ drawn' \subseteq Sid /\ s \in Sid \cup {NoSid}
    BY <1>t, <1>5 DEF TypeOK, BeginToggle
  <2> QED
    BY <1>5, <2>1, BeginStep DEF BeginToggle, PC, SessionTask
<1>6. ASSUME NEW q \in Request, NEW u \in User, BeginDelete(q, u)
      PROVE  Revocation'
  <2>1. user[u] \in UserRow /\ drawn' \subseteq Sid
    BY <1>t, <1>6 DEF TypeOK, BeginDelete
  <2> QED
    BY <1>6, <2>1, BeginStep DEF BeginDelete, PC, Task, ChangeTask, SessionTask
<1>7. ASSUME NEW q \in Request, NEW u \in User, NEW n \in Name,
             BeginRename(q, u, n)
      PROVE  Revocation'
  <2>1. /\ [user[u] EXCEPT !.name = n] \in UserRow
        /\ drawn' \subseteq Sid
    BY <1>t, <1>7 DEF TypeOK, BeginRename, UserRow
  <2>2. /\ Begin(q, "rename", u, "rename", NoSid, [user[u] EXCEPT !.name = n])
        /\ UNCHANGED <<user, session, history, drawn, token, era, revoked>>
    BY <1>7 DEF BeginRename
  <2>3. /\ "rename" \in PC \ {"clear"} /\ "rename" \in Task
        /\ "rename" \notin SessionTask
    BY DEF PC, Task, SessionTask
  <2> QED
    BY <2>1, <2>2, <2>3, BeginStep
<1>8. ASSUME NEW q \in Request, UpdateUserLoginTime(q) PROVE Revocation'
  <2> DEFINE pc == IF req[q].task = "swagger" \/ req[q].row.multi
                   THEN "insert" ELSE "list"
  <2>1. pc \in {"insert", "list"} /\ Goto(q, pc)
    BY <1>8 DEF UpdateUserLoginTime
  <2> HIDE DEF pc
  <2>2. history' \in [User -> Seq(Password)]
    BY <1>t, <1>8 DEF TypeOK, UpdateUserLoginTime
  <2> QED
    BY <1>8, <2>1, <2>2, GotoStep DEF UpdateUserLoginTime, PC
<1>9. ASSUME NEW q \in Request, EnsureAllowed(q) PROVE Revocation'
  <2>1. req[q].task = "refresh" /\ history' \in [User -> Seq(Password)]
    BY <1>9 DEF EnsureAllowed, Revocation, ErasAgree, TypeOK
  <2> QED
    BY <1>9, <2>1, GotoStep DEF EnsureAllowed, PC
<1>10. ASSUME NEW q \in Request, CheckHistory(q) PROVE Revocation'
  <2>1. history' \in [User -> Seq(Password)]
    BY <1>t, <1>10 DEF TypeOK, CheckHistory
  <2> QED
    BY <1>10, <2>1, GotoStep DEF CheckHistory, PC
<1>11. ASSUME NEW q \in Request, CreateUserPasswordHistory(q) PROVE Revocation'
  <2>1. req[q] \in Handler
    BY <1>t, <1>11, HandlerTyped DEF CreateUserPasswordHistory, PC
  <2>2. req[q].user \in User /\ req[q].row.password \in Password
    BY <2>1 DEF Handler, UserRow
  <2>3. history[req[q].user] \in Seq(Password)
    BY <1>t, <2>2 DEF TypeOK
  <2>4. Append(history[req[q].user], req[q].row.password) \in Seq(Password)
    BY <2>2, <2>3
  <2>5. history' \in [User -> Seq(Password)]
    BY <1>t, <1>11, <2>4 DEF TypeOK, CreateUserPasswordHistory
  <2> QED
    BY <1>11, <2>5, GotoStep DEF CreateUserPasswordHistory, PC
<1>12. ASSUME NEW q \in Request, ReadFlag(q) PROVE Revocation'
  <2>1. req[q] \in Handler /\ req[q] # Idle
    BY <1>t, <1>12, HandlerTyped DEF ReadFlag, PC
  <2> DEFINE v == user[req[q].user]
             new == IF req[q].task = "status"
                    THEN [v EXCEPT !.enabled = ~v.enabled]
                    ELSE [v EXCEPT !.multi = ~v.multi]
             g == [req[q] EXCEPT !.pc = "writeFlag"]
             h == [g EXCEPT !.new = new]
  <2>2. v \in UserRow
    BY <1>t, <2>1 DEF TypeOK, Handler
  <2>3. new \in UserRow
    <3> HIDE DEF v
    <3> QED
      BY <2>2 DEF UserRow
  <2>4. /\ g \in Handler /\ g.pc = "writeFlag" /\ g.task = req[q].task
        /\ g.user = req[q].user /\ g.era = req[q].era
    BY <2>1 DEF Handler, PC
  <2>5. /\ h \in Handler /\ h.pc = "writeFlag" /\ h.task = req[q].task
        /\ h.user = req[q].user /\ h.era = req[q].era
    <3> HIDE DEF g, new
    <3> QED
      BY <2>3, <2>4 DEF Handler
  <2>6. req' = [req EXCEPT ![q] = h]
    BY <1>12 DEF ReadFlag
  <2> HIDE DEF h
  <2>7. /\ req' \in [Request -> {Idle} \cup Handler] /\ req'[q] = h
        /\ \A p \in Request \ {q} : req'[p] = req[p]
    BY <1>t, <2>5, <2>6 DEF TypeOK
  <2>8. UNCHANGED <<user, session, history, drawn, token, era, revoked>>
    BY <1>12 DEF ReadFlag
  <2>9. TypeOK'
    BY <1>t, <2>7, <2>8 DEF TypeOK
  <2>10. era' \in [User -> Nat] /\ \A w \in User : era[w] <= era'[w]
    BY <1>t, <2>8 DEF TypeOK
  <2>11. h.task \in ChangeTask => h.era <= era'[h.user]
    BY <2>1, <2>5, <2>8 DEF Revocation, ErasAgree
  <2>12. ErasAgree' /\ ClearsWhatItListed' /\ RevokedSessionsAreGone'
    BY <2>5, <2>7, <2>8, <2>10, <2>11, QuietStep
  <2> QED
    BY <2>9, <2>12 DEF Revocation
<1>13. ASSUME NEW q \in Request, ResetUserPassword(q) PROVE Revocation'
  <2>1. req[q] \in Handler
    BY <1>t, <1>13, HandlerTyped DEF ResetUserPassword, PC
  <2>2. req[q].new.password \in Password /\ req[q].user \in User
    BY <2>1 DEF Handler, UserRow
  <2>3. user' \in [User -> UserRow]
    BY <1>t, <1>13, <2>2 DEF TypeOK, ResetUserPassword, UserRow
  <2>4. /\ "addHistory" \in PC \ {"clear"} /\ req[q].pc \in PC /\ NextEra(q)
        /\ req' = [req EXCEPT ![q].pc = "addHistory",
                              ![q].era = era[req[q].user] + 1]
        /\ UNCHANGED <<session, history, drawn, token, revoked>>
    BY <1>13 DEF ResetUserPassword, PC
  <2> QED
    BY <2>3, <2>4, ChangeStep
<1>14. ASSUME NEW q \in Request, DeleteUser(q) PROVE Revocation'
  <2>1. user' \in [User -> UserRow]
    BY <1>t, <1>14 DEF TypeOK, DeleteUser, UserRow
  <2>2. /\ "list" \in PC \ {"clear"} /\ req[q].pc \in PC /\ NextEra(q)
        /\ req' = [req EXCEPT ![q].pc = "list",
                              ![q].era = era[req[q].user] + 1]
        /\ UNCHANGED <<session, history, drawn, token, revoked>>
    BY <1>14 DEF DeleteUser, PC
  <2> QED
    BY <2>1, <2>2, ChangeStep
<1>15. ASSUME NEW q \in Request, WriteFlag(q) PROVE Revocation'
  <2>1. req[q] \in Handler
    BY <1>t, <1>15, HandlerTyped DEF WriteFlag, PC
  <2>2. /\ req[q].new.enabled \in BOOLEAN /\ req[q].new.multi \in BOOLEAN
        /\ req[q].user \in User
    BY <2>1 DEF Handler, UserRow
  <2>3. user' \in [User -> UserRow]
    <3>1. CASE req[q].task = "status"
      BY <1>t, <1>15, <2>2, <3>1 DEF TypeOK, WriteFlag, UserRow
    <3>2. CASE req[q].task # "status"
      BY <1>t, <1>15, <2>2, <3>2 DEF TypeOK, WriteFlag, UserRow
    <3> QED
      BY <3>1, <3>2
  <2>4. CASE req[q].task = "multi_login" /\ req[q].row.multi
    BY <1>15, <2>3, <2>4, ChangeStep DEF WriteFlag, PC
  <2>5. CASE ~(req[q].task = "multi_login" /\ req[q].row.multi)
    BY <1>15, <2>3, <2>5, ReturnStep DEF WriteFlag
  <2> QED
    BY <2>4, <2>5
<1>16. ASSUME NEW q \in Request, UpdateUser(q) PROVE Revocation'
  <2>1. req[q] \in Handler
    BY <1>t, <1>16, HandlerTyped DEF UpdateUser, PC
  <2>2. req[q].new.name \in Name
    BY <2>1 DEF Handler, UserRow
  <2>3. user' \in [User -> UserRow]
    BY <1>t, <1>16, <2>2 DEF TypeOK, UpdateUser, UserRow
  <2> QED
    BY <1>16, <2>3, ReturnStep DEF UpdateUser
<1>17. ASSUME NEW q \in Request, Abort(q) PROVE Revocation'
  <2>1. user' \in [User -> UserRow]
    BY <1>t, <1>17 DEF TypeOK, Abort
  <2> QED
    BY <1>17, <2>1, ReturnStep DEF Abort
<1>18. CASE UNCHANGED vars
  BY <1>18 DEF vars, Revocation, TypeOK, ErasAgree, ClearsWhatItListed,
               RevokedSessionsAreGone, SessionsOf, Live
<1> QED
  BY <1>1, <1>2, <1>3, <1>4, <1>5, <1>6, <1>7, <1>8, <1>9, <1>10, <1>11,
     <1>12, <1>13, <1>14, <1>15, <1>16, <1>17, <1>18, ListStep, StoreStep,
     FinishStep, DeleteListedStep, GetSessionStep, ReplaceStep DEF Next

\* Every reachable state of the sessions, accounts and handlers is well-typed.
THEOREM SessionTypes == Spec => []TypeOK
<1>1. Spec => []Revocation
  BY RevocationInit, RevocationStep, PTL DEF Spec
<1>2. Revocation => TypeOK
  BY DEF Revocation
<1> QED
  BY <1>1, <1>2, PTL

\* However many handlers run together, a finished password change, deletion
\* or end of multi-login leaves no session that was stored before it.
THEOREM ChangesEndSessions == Spec => []RevokedSessionsAreGone
<1>1. Spec => []Revocation
  BY RevocationInit, RevocationStep, PTL DEF Spec
<1>2. Revocation => RevokedSessionsAreGone
  BY DEF Revocation
<1> QED
  BY <1>1, <1>2, PTL
-----------------------------------------------------------------------------
(* What is stored: a uuid is drawn by one handler, which stores it once, so *)
(* a session that was replaced never comes back; and of one username a      *)
(* single-login user has at most one session of each handler.               *)

\* A login or refresh that has drawn the uuid of the session it will store.
Storing(q) ==
  /\ req[q].pc \in {"loginTime", "list", "clear", "insert"}
  /\ req[q].task \in SessionTask

\* A client has the refresh token of session s.
Handed(s) == \E u \in User : <<u, s>> \in token

\* A uuid that is to be stored is drawn, by one handler, and not yet known.
FreshSids ==
  /\ \A s \in Sid : Live(s) \/ Handed(s) => s \in drawn
  /\ \A q \in Request : Storing(q) =>
       /\ req[q].sid \in drawn
       /\ ~Live(req[q].sid) /\ ~Handed(req[q].sid)
  /\ \A p, q \in Request :
       Storing(p) /\ Storing(q) /\ req[p].sid = req[q].sid => p = q

\* What a refresh replaces is a session of which a client has the token.
FromIsHanded ==
  /\ \A q \in Request :
       req[q].pc \in {"ensure", "getSession"} => Handed(req[q].sid)
  /\ \A q \in Request : req[q].pc \in PC =>
       req[q].from = NoSid \/ Handed(req[q].from)
  /\ \A s \in Sid : Live(s) =>
       session[s].from = NoSid \/ Handed(session[s].from)

\* Where only a change of an account gets to.
TasksFit ==
  \A q \in Request :
    req[q].pc \in {"checkHistory", "reset", "addHistory", "delete"} =>
      req[q].task \notin SessionTask

\* From its replacement on, a session is gone.
ReplacedAreGone ==
  \A q \in Request : Storing(q) => req[q].from = NoSid \/ ~Live(req[q].from)

\* The case SingleLoginOvershootBounded speaks of.
FlagStays == called \cap {"swagger", "multi_login"} = {}

\* Then a handler has the flag of its user right, and stores without a look
\* at the other sessions only with the flag set.
FlagsAgree ==
  FlagStays => \A q \in Request : req[q].pc \in PC =>
    /\ req[q].task \in called
    /\ req[q].row.multi = user[req[q].user].multi
    /\ req[q].pc \in {"readFlag", "writeFlag"} =>
         req[q].task \in {"status", "multi_login"}
    /\ req[q].pc = "insert" => req[q].row.multi

\* A handler that has listed the sessions of u under n, to store one.
Listed(q, u, n) ==
  /\ req[q].pc = "clear" /\ req[q].task \in SessionTask
  /\ req[q].user = u /\ req[q].row.name = n

\* The sessions of a name can be told apart by the handlers that stored them,
\* and a handler that is to store another one has its former on its list.
OnePerHandler ==
  FlagStays => \A u \in User, n \in Name : ~user[u].multi =>
    \E f \in [SessionsOf(u, n) -> Request] :
      /\ \A s, t \in SessionsOf(u, n) : f[s] = f[t] => s = t
      /\ \A q \in Request : Listed(q, u, n) =>
           \A s \in SessionsOf(u, n) : f[s] = q => s \in req[q].victims

Storage ==
  /\ FreshSids /\ FromIsHanded /\ ReplacedAreGone /\ RefreshedIsGone
  /\ TasksFit /\ FlagsAgree /\ OnePerHandler

\* What a step of handler q that stores no session may do to it.
Moved(q) ==
  /\ req'[q].pc \in {"ensure", "getSession"} => Handed(req'[q].sid)
  /\ req'[q].from = NoSid \/ Handed(req'[q].from)
  /\ req'[q].pc \in {"checkHistory", "reset", "addHistory", "delete"} =>
       req'[q].task \notin SessionTask
  /\ Storing(q)' =>
       \/ /\ Storing(q)
          /\ req'[q].sid = req[q].sid /\ req'[q].from = req[q].from
       \/ /\ req'[q].sid \in drawn' \ drawn
          /\ req'[q].from = NoSid \/ session'[req'[q].from] = NoSession
  /\ FlagStays =>
       /\ req'[q].task \in called
       /\ req'[q].row.multi = user[req'[q].user].multi
       /\ req'[q].pc \in {"readFlag", "writeFlag"} =>
            req'[q].task \in {"status", "multi_login"}
       /\ req'[q].pc = "insert" => req'[q].row.multi
  /\ req'[q].pc = "clear" /\ req'[q].task \in SessionTask =>
       \A s \in Sid : /\ session'[s] # NoSession
                      /\ session'[s].user = req'[q].user
                      /\ session'[s].name = req'[q].row.name
                      /\ s \notin req'[q].victims
                      => /\ Listed(q, req'[q].user, req'[q].row.name)
                         /\ s \notin req[q].victims

\* A step that stores no session, whatever it deletes.
LEMMA MoveStep ==
  ASSUME TypeOK, TypeOK', Storage, called' = called, NEW q,
         token' = token, drawn \subseteq drawn',
         \A t \in Sid : session'[t] = session[t] \/ session'[t] = NoSession,
         FlagStays => \A u \in User : user'[u].multi = user[u].multi,
         \A p \in Request \ {q} : req'[p] = req[p],
         q \in Request => req'[q] = req[q] \/ req'[q] = Idle \/ Moved(q)
  PROVE  Storage'
<1>1. \A s \in Sid : (Live(s))' => Live(s) /\ session'[s] = session[s]
  BY DEF Live
<1>2. \A s \in Sid \cup {NoSid} : Handed(s)' = Handed(s)
  BY DEF Handed
<1>3. \A p \in Request : \/ req'[p] = req[p]
                         \/ req'[p] = Idle
                         \/ p = q /\ Moved(q)
  OBVIOUS
<1>4. Idle.pc = "idle"
  BY DEF Idle
<1>5. \A p \in Request : Storing(p)' =>
        /\ req'[p].sid \in Sid
        /\ req'[p].from \in Sid \cup {NoSid}
  <2> SUFFICES ASSUME NEW p \in Request, Storing(p)'
               PROVE  req'[p].sid \in Sid /\ req'[p].from \in Sid \cup {NoSid}
    OBVIOUS
  <2>1. req'[p] \in Handler
    BY <1>4 DEF TypeOK, Storing
  <2> QED
    BY <2>1 DEF Handler, Storing
<1>6. \A p \in Request : Storing(p)' =>
        \/ /\ Storing(p)
           /\ req'[p].sid = req[p].sid /\ req'[p].from = req[p].from
        \/ /\ p = q /\ req'[p].sid \in drawn' \ drawn
           /\ req'[p].from = NoSid \/ session'[req'[p].from] = NoSession
  BY <1>3, <1>4 DEF Storing, Moved
<1>7. FreshSids'
  <2>1. ASSUME NEW s \in Sid, (Live(s) \/ Handed(s))' PROVE s \in drawn'
    BY <1>1, <1>2, <2>1 DEF Storage, FreshSids
  <2>2. ASSUME NEW p \in Request, Storing(p)'
        PROVE  /\ req'[p].sid \in drawn'
               /\ session'[req'[p].sid] = NoSession /\ ~Handed(req'[p].sid)
    <3>1. CASE Storing(p) /\ req'[p].sid = req[p].sid
      BY <1>1, <1>5, <2>2, <3>1 DEF Storage, FreshSids, Live
    <3>2. CASE req'[p].sid \in drawn' \ drawn
      BY <1>1, <1>5, <2>2, <3>2 DEF Storage, FreshSids, Live
    <3> QED
      BY <1>6, <2>2, <3>1, <3>2
  <2>3. ASSUME NEW p \in Request, NEW r \in Request, Storing(p)', Storing(r)',
               req'[p].sid = req'[r].sid
        PROVE  p = r
    <3>1. CASE p = q /\ req'[p].sid \notin drawn
      BY <1>6, <2>3, <3>1 DEF Storage, FreshSids
    <3>2. CASE Storing(p) /\ req'[p].sid = req[p].sid
      BY <1>6, <2>3, <3>2 DEF Storage, FreshSids
    <3> QED
      BY <1>6, <2>3, <3>1, <3>2
  <2>4. \A p \in Request : Storing(p)' => ~(Handed(req[p].sid))'
    BY <1>2, <1>5, <2>2
  <2> QED
    BY <2>1, <2>2, <2>3, <2>4 DEF FreshSids, Live
<1>8. FromIsHanded'
  <2>1. ASSUME NEW p \in Request, req'[p].pc \in {"ensure", "getSession"}
        PROVE  Handed(req'[p].sid)
    BY <1>3, <1>4, <2>1 DEF Storage, FromIsHanded, Moved
  <2>2. ASSUME NEW p \in Request, req'[p].pc \in PC
        PROVE  req'[p].from = NoSid \/ Handed(req'[p].from)
    BY <1>3, <1>4, <2>2 DEF Storage, FromIsHanded, Moved, PC
  <2>3. ASSUME NEW s \in Sid, Live(s)'
        PROVE  session'[s].from = NoSid \/ Handed(session'[s].from)
    BY <1>1, <2>3 DEF Storage, FromIsHanded
  <2> QED
    BY <2>1, <2>2, <2>3 DEF FromIsHanded, Handed
<1>9. ReplacedAreGone'
  <2> SUFFICES ASSUME NEW p \in Request, Storing(p)', req'[p].from # NoSid
               PROVE  session'[req'[p].from] = NoSession
    BY DEF ReplacedAreGone, Live
  <2> QED
    BY <1>1, <1>5, <1>6 DEF Storage, ReplacedAreGone, Live
<1>10. RefreshedIsGone'
  <2> SUFFICES ASSUME NEW s \in Sid, session'[s] # NoSession,
                      session'[s].from # NoSid
               PROVE  session'[session'[s].from] = NoSession
    BY DEF RefreshedIsGone, Live
  <2>1. session'[s] = session[s] /\ session[s].from \in Sid
    BY DEF TypeOK, SessionRow
  <2> QED
    BY <2>1 DEF Storage, RefreshedIsGone, Live
<1>11. FlagsAgree'
  <2> SUFFICES ASSUME FlagStays, NEW p \in Request, req'[p].pc \in PC
               PROVE  /\ req'[p].task \in called
                      /\ req'[p].row.multi = user'[req'[p].user].multi
                      /\ req'[p].pc \in {"readFlag", "writeFlag"} =>
                           req'[p].task \in {"status", "multi_login"}
                      /\ req'[p].pc = "insert" => req'[p].row.multi
    BY DEF FlagsAgree, FlagStays
  <2>1. req'[p].user \in User
    BY <1>4 DEF TypeOK, Handler, PC
  <2>2. user'[req'[p].user].multi = user[req'[p].user].multi
    BY <2>1
  <2>3. CASE req'[p] = req[p]
    BY <2>2, <2>3 DEF Storage, FlagsAgree
  <2>4. CASE p = q /\ Moved(q)
    BY <2>2, <2>4 DEF Moved
  <2> QED
    BY <1>3, <1>4, <2>3, <2>4 DEF PC
<1>12. OnePerHandler'
  <2> SUFFICES ASSUME FlagStays, NEW u \in User, NEW n \in Name,
                      ~user[u].multi
               PROVE  (\E f \in [SessionsOf(u, n) -> Request] :
                         /\ \A s, t \in SessionsOf(u, n) : f[s] = f[t] => s = t
                         /\ \A p \in Request : Listed(p, u, n) =>
                              \A s \in SessionsOf(u, n) :
                                f[s] = p => s \in req[p].victims)'
    BY DEF OnePerHandler, FlagStays
  <2>1. PICK f \in [SessionsOf(u, n) -> Request] :
          /\ \A s, t \in SessionsOf(u, n) : f[s] = f[t] => s = t
          /\ \A p \in Request : Listed(p, u, n) =>
               \A s \in SessionsOf(u, n) : f[s] = p => s \in req[p].victims
    BY DEF Storage, OnePerHandler
  <2>2. \A s \in SessionsOf(u, n)' : s \in SessionsOf(u, n)
    BY <1>1 DEF SessionsOf, Live
  <2> DEFINE g == [s \in SessionsOf(u, n)' |-> f[s]]
  <2>3. g \in [SessionsOf(u, n)' -> Request]
    BY <2>1, <2>2
  <2>4. \A s, t \in SessionsOf(u, n)' : g[s] = g[t] => s = t
    BY <2>1, <2>2
  <2>5. ASSUME NEW p \in Request, Listed(p, u, n)',
               NEW s \in SessionsOf(u, n)', g[s] = p
        PROVE  s \in req'[p].victims
    <3>1. f[s] = p /\ s \in SessionsOf(u, n)
      BY <2>2, <2>5
    <3>2. CASE req'[p] = req[p]
      BY <2>1, <2>5, <3>1, <3>2 DEF Listed
    <3>3. CASE p = q /\ Moved(q)
      <4>1. s \notin req'[q].victims =>
              Listed(q, u, n) /\ s \notin req[q].victims
        BY <2>5, <3>3 DEF Moved, Listed, SessionsOf, Live
      <4> QED
        BY <2>1, <3>1, <3>3, <4>1
    <3> QED
      BY <1>3, <1>4, <2>5, <3>2, <3>3 DEF Listed
  <2> HIDE DEF g
  <2> QED
    BY <2>3, <2>4, <2>5
<1>13. TasksFit'
  BY <1>3, <1>4 DEF Storage, TasksFit, Moved
<1> QED
  BY <1>7, <1>8, <1>9, <1>10, <1>11, <1>12, <1>13 DEF Storage

\* A session is stored: its uuid was unknown, and what the handler stored
\* before under that name is deleted.
LEMMA StoreKeeps ==
  ASSUME TypeOK, TypeOK', Storage, called' = called,
         NEW q \in Request, UpsertSession(q)
  PROVE  Storage'
<1>1. req[q] \in Handler /\ req[q] # Idle
  BY HandlerTyped DEF UpsertSession, PC
<1> DEFINE s == req[q].sid
           u == req[q].user
           new == [user |-> u, name |-> req[q].row.name, from |-> req[q].from,
                   stored |-> era[u]]
<1>2. /\ s \in Sid /\ u \in User /\ req[q].from \in Sid \cup {NoSid}
      /\ req[q].row.name \in Name /\ req[q].task \in SessionTask
      /\ req[q].victims = {} /\ req[q].pc \in {"insert", "clear"}
  BY <1>1 DEF UpsertSession, Handler, UserRow
<1>3. /\ Storing(q) /\ s \in drawn /\ ~Live(s) /\ ~Handed(s)
      /\ req[q].from = NoSid \/ ~Live(req[q].from)
      /\ req[q].from = NoSid \/ Handed(req[q].from)
  <2>1. Storing(q)
    BY <1>2 DEF Storing
  <2> QED
    BY <1>2, <2>1
       DEF Storage, FreshSids, ReplacedAreGone, FromIsHanded, PC
<1>4. \A t \in Sid : session'[t] = IF t = s THEN new ELSE session[t]
  BY DEF UpsertSession, TypeOK
<1>5. new # NoSession /\ new.from = req[q].from /\ new.user = u
      /\ new.name = req[q].row.name
  BY <1>4, <1>2 DEF TypeOK, NoSession, SessionRow
<1> HIDE DEF new
<1>6. \A t \in Sid : Live(t)' <=> t = s \/ Live(t)
  BY <1>4, <1>5 DEF Live
<1>7. /\ req'[q] = Idle /\ \A p \in Request \ {q} : req'[p] = req[p]
      /\ Idle.pc = "idle"
  BY ReturnTyped DEF UpsertSession, Idle
<1>8. \A t : Handed(t)' => t = s \/ Handed(t)
  BY DEF UpsertSession, Handed
<1>9. \A t : Handed(t) => Handed(t)' /\ t # s
  BY <1>3 DEF UpsertSession, Handed
<1>10. drawn' = drawn /\ user' = user
  BY DEF UpsertSession
<1>11. \A p \in Request : Storing(p)' =>
         /\ p # q /\ Storing(p) /\ req'[p] = req[p]
         /\ req[p].sid \in Sid /\ req[p].from \in Sid \cup {NoSid}
         /\ req[p].sid # s
  <2> SUFFICES ASSUME NEW p \in Request, Storing(p)'
               PROVE  /\ p # q /\ Storing(p) /\ req'[p] = req[p]
                      /\ req[p].sid \in Sid /\ req[p].from \in Sid \cup {NoSid}
                      /\ req[p].sid # s
    OBVIOUS
  <2>1. p # q /\ req'[p] = req[p] /\ Storing(p)
    BY <1>7 DEF Storing
  <2>2. req[p] \in Handler
    BY <2>1, HandlerTyped DEF Storing, PC
  <2> QED
    BY <1>3, <2>1, <2>2 DEF Storing, Handler, Storage, FreshSids
<1>12. FreshSids'
  <2>1. ASSUME NEW t \in Sid, (Live(t) \/ Handed(t))' PROVE t \in drawn
    BY <1>3, <1>6, <1>8, <2>1 DEF Storage, FreshSids
  <2>2. ASSUME NEW p \in Request, Storing(p)'
        PROVE  /\ req'[p].sid \in drawn
               /\ session'[req'[p].sid] = NoSession
               /\ ~Handed(req[p].sid)'
    <3>1. ~Live(req[p].sid) /\ ~Handed(req[p].sid) /\ req[p].sid \in drawn
      BY <1>11, <2>2 DEF Storage, FreshSids
    <3>2. ~(\E v \in User : <<v, req'[p].sid>> \in token')
      BY <1>11, <2>2, <3>1 DEF Handed, UpsertSession
    <3> QED
      BY <1>4, <1>11, <2>2, <3>1, <3>2 DEF Handed, Live
  <2>3. ASSUME NEW p \in Request, NEW r \in Request, Storing(p)', Storing(r)',
               req'[p].sid = req'[r].sid
        PROVE  p = r
    BY <1>11, <2>3 DEF Storage, FreshSids
  <2> QED
    BY <1>10, <2>1, <2>2, <2>3 DEF FreshSids, Live
<1>13. FromIsHanded'
  <2>1. ASSUME NEW p \in Request, req'[p].pc \in {"ensure", "getSession"}
        PROVE  \E v \in User : <<v, req'[p].sid>> \in token'
    <3>1. Handed(req[p].sid) /\ req'[p] = req[p]
      BY <1>7, <2>1 DEF Storage, FromIsHanded
    <3> QED
      BY <3>1 DEF Handed, UpsertSession
  <2>2. ASSUME NEW p \in Request, req'[p].pc \in PC, req'[p].from # NoSid
        PROVE  \E v \in User : <<v, req'[p].from>> \in token'
    <3>1. Handed(req[p].from) /\ req'[p] = req[p]
      BY <1>7, <2>2 DEF Storage, FromIsHanded, PC
    <3> QED
      BY <3>1 DEF Handed, UpsertSession
  <2>3. ASSUME NEW t \in Sid, session'[t] # NoSession,
               session'[t].from # NoSid
        PROVE  \E v \in User : <<v, session'[t].from>> \in token'
    <3>1. Handed(session'[t].from)
      BY <1>3, <1>4, <1>5, <2>3 DEF Storage, FromIsHanded, Live
    <3> QED
      BY <3>1 DEF Handed, UpsertSession
  <2> QED
    BY <2>1, <2>2, <2>3 DEF FromIsHanded, Handed, Live
<1>14. ReplacedAreGone'
  <2> SUFFICES ASSUME NEW p \in Request, Storing(p)', req'[p].from # NoSid
               PROVE  session'[req'[p].from] = NoSession
    BY DEF ReplacedAreGone, Live
  <2>1. req[p].from \in Sid /\ ~Live(req[p].from) /\ req[p].pc \in PC
    BY <1>11 DEF Storage, ReplacedAreGone, Storing, PC
  <2>2. req[p].from # s
    BY <1>9, <1>11, <2>1 DEF Storage, FromIsHanded
  <2> QED
    BY <1>4, <1>11, <2>1, <2>2 DEF Live
<1>15. RefreshedIsGone'
  <2> SUFFICES ASSUME NEW t \in Sid, session'[t] # NoSession,
                      session'[t].from # NoSid
               PROVE  session'[session'[t].from] = NoSession
    BY DEF RefreshedIsGone, Live
  <2>1. CASE t = s
    <3>1. session'[t].from = req[q].from
      BY <1>4, <1>5, <2>1
    <3>2. req[q].from # s /\ req[q].from \in Sid /\ ~Live(req[q].from)
      BY <1>2, <1>3, <3>1
    <3> QED
      BY <1>4, <3>1, <3>2 DEF Live
  <2>2. CASE t # s
    <3>1. session'[t] = session[t] /\ Live(t)
      BY <1>4, <2>2 DEF Live
    <3>2. /\ session[t].from \in Sid /\ Handed(session[t].from)
          /\ ~Live(session[t].from)
      BY <3>1 DEF TypeOK, SessionRow, Storage, FromIsHanded, RefreshedIsGone,
                  Live
    <3> QED
      BY <1>4, <1>9, <3>1, <3>2 DEF Live
  <2> QED
    BY <2>1, <2>2
<1>16. FlagsAgree'
  BY <1>7, <1>10 DEF Storage, FlagsAgree, FlagStays, PC
<1>17. OnePerHandler'
  <2> SUFFICES ASSUME FlagStays, NEW v \in User, NEW n \in Name,
                      ~user[v].multi
               PROVE  (\E f \in [SessionsOf(v, n) -> Request] :
                         /\ \A a, b \in SessionsOf(v, n) : f[a] = f[b] => a = b
                         /\ \A p \in Request : Listed(p, v, n) =>
                              \A t \in SessionsOf(v, n) :
                                f[t] = p => t \in req[p].victims)'
    BY <1>10 DEF OnePerHandler, FlagStays
  <2>1. PICK f \in [SessionsOf(v, n) -> Request] :
          /\ \A a, b \in SessionsOf(v, n) : f[a] = f[b] => a = b
          /\ \A p \in Request : Listed(p, v, n) =>
               \A t \in SessionsOf(v, n) : f[t] = p => t \in req[p].victims
    BY DEF Storage, OnePerHandler
  <2>2. \A t \in SessionsOf(v, n)' :
          \/ t = s /\ u = v /\ req[q].row.name = n
          \/ t # s /\ t \in SessionsOf(v, n)
    BY <1>4, <1>5 DEF SessionsOf, Live
  <2>3. u = v /\ req[q].row.name = n =>
          \A t \in SessionsOf(v, n) : f[t] # q
    <3> SUFFICES ASSUME u = v, req[q].row.name = n
                 PROVE  \A t \in SessionsOf(v, n) : f[t] # q
      OBVIOUS
    <3>1. req[q].pc = "clear"
      <4>1. req[q].pc \in PC
        BY <1>2 DEF PC
      <4>2. req[q].row.multi = user[v].multi
        BY <4>1 DEF Storage, FlagsAgree
      <4> QED
        BY <1>2, <4>1, <4>2 DEF Storage, FlagsAgree
    <3>2. Listed(q, v, n)
      BY <1>2, <3>1 DEF Listed
    <3> QED
      BY <1>2, <2>1, <3>2
  <2> DEFINE g == [t \in SessionsOf(v, n)' |-> IF t = s THEN q ELSE f[t]]
  <2>4. g \in [SessionsOf(v, n)' -> Request]
    BY <2>1, <2>2
  <2>5. \A a, b \in SessionsOf(v, n)' : g[a] = g[b] => a = b
    BY <2>1, <2>2, <2>3
  <2>6. ASSUME NEW p \in Request, Listed(p, v, n)',
               NEW t \in SessionsOf(v, n)', g[t] = p
        PROVE  t \in req'[p].victims
    <3>1. p # q /\ req'[p] = req[p] /\ Listed(p, v, n)
      BY <1>7, <2>6 DEF Listed
    <3>2. t # s
      BY <2>6, <3>1
    <3> QED
      BY <2>1, <2>2, <2>6, <3>1, <3>2
  <2> HIDE DEF g
  <2> QED
    BY <2>4, <2>5, <2>6
<1>18. TasksFit'
  BY <1>7 DEF Storage, TasksFit
<1> QED
  BY <1>12, <1>13, <1>14, <1>15, <1>16, <1>17, <1>18 DEF Storage

\* A handler that has read its user; a login has drawn a uuid, a refresh has
\* a session that a client holds the token of.
LEMMA BeginKeeps ==
  ASSUME TypeOK, TypeOK', Storage, called' = called,
         NEW q \in Request, NEW t \in Task,
         NEW u \in User, NEW pc \in PC \ {"clear", "insert"},
         NEW s \in Sid \cup {NoSid}, NEW new \in UserRow,
         Begin(q, t, u, pc, s, new), t \in SessionTask => s \in Sid,
         pc \in {"ensure", "getSession"} => Handed(s),
         pc \in {"loginTime", "list"} /\ t \in SessionTask =>
           s \in drawn' \ drawn,
         pc \in {"readFlag", "writeFlag"} => t \in {"status", "multi_login"},
         pc \in {"checkHistory", "reset", "addHistory", "delete"} =>
           t \notin SessionTask,
         UNCHANGED <<user, session, token>>, drawn \subseteq drawn'
  PROVE  Storage'
<1>1. /\ req'[q].pc = pc /\ req'[q].task = t /\ req'[q].user = u
      /\ req'[q].sid = s /\ req'[q].from = NoSid /\ req'[q].row = user[u]
      /\ \A p \in Request \ {q} : req'[p] = req[p]
  BY BeginTyped
<1>2. t \in called
  BY DEF Begin
<1>3. Moved(q)
  BY <1>1, <1>2 DEF Moved, Storing
<1> QED
  BY <1>1, <1>3, MoveStep

\* A handler that goes on with what it has; one that has yet to draw is not
\* about to store.
LEMMA GotoKeeps ==
  ASSUME TypeOK, TypeOK', Storage, called' = called, NEW q \in Request,
         NEW pc \in PC \ {"clear", "checkHistory"},
         req[q].pc \in PC, Goto(q, pc),
         pc \in {"ensure", "getSession"} =>
           req[q].pc \in {"ensure", "getSession"},
         pc \in {"loginTime", "list", "insert"} =>
           Storing(q) \/ req[q].task \notin SessionTask,
         pc \notin {"readFlag", "writeFlag", "delete"},
         pc \in {"reset", "addHistory"} => req[q].task \notin SessionTask,
         pc = "insert" /\ FlagStays => req[q].row.multi,
         UNCHANGED <<user, session, token, drawn>>
  PROVE  Storage'
<1>1. req[q] \in Handler
  BY HandlerTyped
<1>2. /\ req'[q].pc = pc /\ req'[q].task = req[q].task
      /\ req'[q].user = req[q].user /\ req'[q].sid = req[q].sid
      /\ req'[q].from = req[q].from /\ req'[q].row = req[q].row
      /\ \A p \in Request \ {q} : req'[p] = req[p]
  BY <1>1, GotoTyped
<1>3. Moved(q)
  <2>1. /\ req'[q].pc \in {"ensure", "getSession"} => Handed(req'[q].sid)
        /\ req'[q].from = NoSid \/ Handed(req'[q].from)
    BY <1>2 DEF Storage, FromIsHanded
  <2>2. Storing(q)' => Storing(q)
    BY <1>2 DEF Storing
  <2>3. FlagStays =>
          /\ req'[q].task \in called
          /\ req'[q].row.multi = user[req'[q].user].multi
    BY <1>2 DEF Storage, FlagsAgree
  <2> QED
    BY <1>2, <2>1, <2>2, <2>3 DEF Moved
<1> QED
  BY <1>2, <1>3, MoveStep

\* The list has what the handler stored before: a session that lives is not
\* the one it is about to store.
LEMMA ListKeeps ==
  ASSUME TypeOK, TypeOK', Storage, called' = called,
         NEW q \in Request, ListSessions(q)
  PROVE  Storage'
<1>1. req[q] \in Handler
  BY HandlerTyped DEF ListSessions, PC
<1> DEFINE listed == SessionsOf(req[q].user, req[q].row.name) \ {req[q].sid}
           g == [req[q] EXCEPT !.pc = "clear"]
           h == [g EXCEPT !.victims = listed]
<1>2. /\ g.task = req[q].task /\ g.user = req[q].user /\ g.row = req[q].row
      /\ g.sid = req[q].sid /\ g.from = req[q].from /\ g.pc = "clear"
      /\ g \in Handler
  BY <1>1 DEF Handler, PC
<1>3. /\ h.task = req[q].task /\ h.user = req[q].user /\ h.row = req[q].row
      /\ h.sid = req[q].sid /\ h.from = req[q].from /\ h.pc = "clear"
      /\ h.victims = listed
  <2> HIDE DEF g, listed
  <2> QED
    BY <1>2 DEF Handler
<1>4. req' = [req EXCEPT ![q] = h]
  BY DEF ListSessions
<1> HIDE DEF h
<1>5. req'[q] = h /\ \A p \in Request \ {q} : req'[p] = req[p]
  BY <1>4 DEF TypeOK
<1>6. UNCHANGED <<user, session, drawn, token>> /\ req[q].pc = "list"
  BY DEF ListSessions
<1>7. Moved(q)
  <2>1. req'[q].from = NoSid \/ Handed(req'[q].from)
    BY <1>3, <1>5, <1>6 DEF Storage, FromIsHanded, PC
  <2>2. Storing(q)' => Storing(q)
    BY <1>3, <1>5, <1>6 DEF Storing
  <2>3. FlagStays => /\ req'[q].task \in called
                     /\ req'[q].row.multi = user[req'[q].user].multi
    BY <1>3, <1>5, <1>6 DEF Storage, FlagsAgree, PC
  <2>4. ASSUME req'[q].task \in SessionTask, NEW s \in Sid,
               session'[s] # NoSession, session'[s].user = req'[q].user,
               session'[s].name = req'[q].row.name
        PROVE  s \in req'[q].victims
    <3>1. Storing(q) /\ Live(s)
      BY <1>3, <1>5, <1>6, <2>4 DEF Storing, Live
    <3>2. s # req[q].sid
      BY <3>1 DEF Storage, FreshSids
    <3> QED
      BY <1>3, <1>5, <1>6, <2>4, <3>1, <3>2 DEF SessionsOf
  <2> QED
    BY <1>3, <1>5, <2>1, <2>2, <2>3, <2>4 DEF Moved
<1> QED
  BY <1>5, <1>6, <1>7, MoveStep

\* Deleting one of the listed sessions stores nothing.
LEMMA DeleteListedKeeps ==
  ASSUME TypeOK, TypeOK', Storage, called' = called,
         NEW q \in Request, NEW s \in Sid,
         DeleteListed(q, s)
  PROVE  Storage'
<1>1. req[q] \in Handler
  BY HandlerTyped DEF DeleteListed, PC
<1> DEFINE h == [req[q] EXCEPT !.victims = req[q].victims \ {s}]
<1>2. /\ h.pc = "clear" /\ h.task = req[q].task /\ h.user = req[q].user
      /\ h.row = req[q].row /\ h.sid = req[q].sid /\ h.from = req[q].from
      /\ h.victims = req[q].victims \ {s}
  BY <1>1 DEF Handler, DeleteListed
<1>3. req' = [req EXCEPT ![q] = h]
  BY DEF DeleteListed
<1> HIDE DEF h
<1>4. req'[q] = h /\ \A p \in Request \ {q} : req'[p] = req[p]
  BY <1>3 DEF TypeOK
<1>5. /\ \A t \in Sid : session'[t] = IF t = s THEN NoSession ELSE session[t]
      /\ UNCHANGED <<user, drawn, token>> /\ req[q].pc = "clear"
  BY DEF DeleteListed, TypeOK
<1>6. Moved(q)
  <2>1. req'[q].from = NoSid \/ Handed(req'[q].from)
    BY <1>2, <1>4, <1>5 DEF Storage, FromIsHanded, PC
  <2>2. Storing(q)' => Storing(q)
    BY <1>2, <1>4, <1>5 DEF Storing
  <2>3. FlagStays => /\ req'[q].task \in called
                     /\ req'[q].row.multi = user[req'[q].user].multi
    BY <1>2, <1>4, <1>5 DEF Storage, FlagsAgree, PC
  <2> QED
    BY <1>2, <1>4, <1>5, <2>1, <2>2, <2>3 DEF Moved, Listed
<1> QED
  BY <1>4, <1>5, <1>6, MoveStep

\* The session a refresh is about to replace is the one it holds a token of.
LEMMA GetSessionKeeps ==
  ASSUME TypeOK, TypeOK', Storage, called' = called,
         NEW q \in Request, GetSession(q)
  PROVE  Storage'
<1>1. req[q] \in Handler
  BY HandlerTyped DEF GetSession, PC
<1> DEFINE f == [req[q] EXCEPT !.pc = "replace"]
           h == [f EXCEPT !.from = req[q].sid]
<1>2. /\ f.pc = "replace" /\ f.task = req[q].task /\ f.user = req[q].user
      /\ f.row = req[q].row /\ f \in Handler
  BY <1>1 DEF Handler, PC
<1>3. /\ h.pc = "replace" /\ h.task = req[q].task /\ h.user = req[q].user
      /\ h.row = req[q].row /\ h.from = req[q].sid
  <2> HIDE DEF f
  <2> QED
    BY <1>2 DEF Handler
<1>4. req' = [req EXCEPT ![q] = h]
  BY DEF GetSession
<1> HIDE DEF h
<1>5. req'[q] = h /\ \A p \in Request \ {q} : req'[p] = req[p]
  BY <1>4 DEF TypeOK
<1>6. /\ UNCHANGED <<user, session, drawn, token>>
      /\ req[q].pc = "getSession" /\ req[q].pc \in PC
  BY DEF GetSession, PC
<1>7. Handed(req[q].sid)
  BY <1>6 DEF Storage, FromIsHanded
<1>8. Moved(q)
  BY <1>3, <1>5, <1>6, <1>7 DEF Moved, Storing, Storage, FlagsAgree
<1> QED
  BY <1>5, <1>6, <1>8, MoveStep

\* A refresh that replaces its session draws the next one.
LEMMA ReplaceKeeps ==
  ASSUME TypeOK, TypeOK', Storage, called' = called,
         NEW q \in Request, NEW s \in Sid,
         ReplaceSession(q, s)
  PROVE  Storage'
<1>1. req[q] \in Handler
  BY HandlerTyped DEF ReplaceSession, PC
<1> DEFINE pc == IF req[q].row.multi THEN "insert" ELSE "list"
           g == [req[q] EXCEPT !.pc = pc]
           h == [g EXCEPT !.sid = s]
<1>2. pc \in {"insert", "list"} /\ (pc = "insert" => req[q].row.multi)
  OBVIOUS
<1>3. /\ g.pc = pc /\ g.task = req[q].task /\ g.user = req[q].user
      /\ g.row = req[q].row /\ g.from = req[q].from /\ g \in Handler
  <2> HIDE DEF pc
  <2> QED
    BY <1>1, <1>2 DEF Handler, PC
<1>4. /\ h.pc = pc /\ h.task = req[q].task /\ h.user = req[q].user
      /\ h.row = req[q].row /\ h.from = req[q].from /\ h.sid = s
  <2> HIDE DEF g, pc
  <2> QED
    BY <1>3 DEF Handler
<1>5. req' = [req EXCEPT ![q] = h]
  BY DEF ReplaceSession
<1> HIDE DEF h, pc
<1>6. req'[q] = h /\ \A p \in Request \ {q} : req'[p] = req[p]
  BY <1>5 DEF TypeOK
<1>7. /\ \A t \in Sid :
           session'[t] = IF t = req[q].from THEN NoSession ELSE session[t]
      /\ s \in drawn' \ drawn /\ drawn \subseteq drawn'
      /\ UNCHANGED <<user, token>> /\ req[q].pc \in PC
      /\ req[q].from \in Sid \cup {NoSid}
  BY <1>1 DEF ReplaceSession, TypeOK, PC, Handler
<1>8. Moved(q)
  BY <1>2, <1>4, <1>6, <1>7
     DEF Moved, Storing, Storage, FlagsAgree, FromIsHanded
<1> QED
  BY <1>6, <1>7, <1>8, MoveStep

\* The sessions are deleted or stored as above, whatever happens to the rest:
\* a change of an account goes on to list the sessions, or returns.
LEMMA ChangeKeeps ==
  ASSUME TypeOK, TypeOK', Storage, called' = called, NEW q \in Request,
         NEW pc \in {"addHistory", "list"}, req[q].pc \in PC, NextEra(q),
         req' = [req EXCEPT ![q].pc = pc, ![q].era = era[req[q].user] + 1],
         req[q].task \notin SessionTask,
         UNCHANGED <<session, drawn, token>>,
         FlagStays => \A u \in User : user'[u].multi = user[u].multi
  PROVE  Storage'
<1>1. req[q] \in Handler
  BY HandlerTyped
<1> DEFINE g == [req[q] EXCEPT !.pc = pc]
           h == [g EXCEPT !.era = era[req[q].user] + 1]
<1>2. /\ g.pc = pc /\ g.task = req[q].task /\ g.user = req[q].user
      /\ g.row = req[q].row /\ g.from = req[q].from /\ g \in Handler
  BY <1>1 DEF Handler, PC
<1>3. /\ h.pc = pc /\ h.task = req[q].task /\ h.user = req[q].user
      /\ h.row = req[q].row /\ h.from = req[q].from
  <2> HIDE DEF g
  <2> QED
    BY <1>2 DEF Handler
<1>4. req' = [req EXCEPT ![q] = h]
  OBVIOUS
<1> HIDE DEF h
<1>5. req'[q] = h /\ \A p \in Request \ {q} : req'[p] = req[p]
  BY <1>4 DEF TypeOK
<1>6. Moved(q)
  BY <1>3, <1>5 DEF Moved, Storing, Storage, FlagsAgree, FromIsHanded
<1> QED
  BY <1>5, <1>6, MoveStep

\* A handler that is done stores nothing more.
LEMMA ReturnKeeps ==
  ASSUME TypeOK, TypeOK', Storage, called' = called,
         NEW q \in Request, Return(q),
         UNCHANGED <<session, drawn, token>>,
         FlagStays => \A u \in User : user'[u].multi = user[u].multi
  PROVE  Storage'
<1>1. req'[q] = Idle /\ \A p \in Request \ {q} : req'[p] = req[p]
  BY ReturnTyped
<1> QED
  BY <1>1, MoveStep

\* At the start nothing was drawn.
LEMMA StorageInit == Init => Storage
<1> SUFFICES ASSUME Init PROVE Storage
  OBVIOUS
<1>1. \A s \in Sid : ~Live(s) /\ ~Handed(s)
  BY DEF Init, Live, Handed
<1>2. Idle.pc = "idle" /\ \A q \in Request : req[q] = Idle
  BY DEF Init, Idle
<1>3. FreshSids /\ FromIsHanded /\ ReplacedAreGone /\ RefreshedIsGone
  BY <1>1, <1>2 DEF FreshSids, FromIsHanded, ReplacedAreGone,
                    RefreshedIsGone, Storing, PC
<1>4. TasksFit /\ FlagsAgree
  BY <1>2 DEF TasksFit, FlagsAgree, PC
<1>5. OnePerHandler
  <2> SUFFICES ASSUME NEW u \in User, NEW n \in Name
               PROVE  \E f \in [SessionsOf(u, n) -> Request] :
                        /\ \A s, t \in SessionsOf(u, n) : f[s] = f[t] => s = t
                        /\ \A q \in Request : Listed(q, u, n) =>
                             \A s \in SessionsOf(u, n) :
                               f[s] = q => s \in req[q].victims
    BY DEF OnePerHandler
  <2>1. \A s \in SessionsOf(u, n) : FALSE
    BY <1>1 DEF SessionsOf
  <2> DEFINE f == [s \in SessionsOf(u, n) |-> s]
  <2>2. f \in [SessionsOf(u, n) -> Request]
    BY <2>1
  <2> QED
    BY <2>1, <2>2
<1> QED
  BY <1>3, <1>4, <1>5 DEF Storage

\* Every step keeps what is known of stored sessions.
LEMMA StorageStep ==
  TypeOK /\ TypeOK' /\ Storage /\ [Next]_vars => Storage'
<1> SUFFICES ASSUME TypeOK, TypeOK', Storage, [Next]_vars, called' = called
             PROVE  Storage'
  BY CalledStays
<1>1. ASSUME NEW s \in Sid, Logout(s) PROVE Storage'
  BY <1>1, MoveStep DEF Logout, TypeOK
<1>2. ASSUME NEW q \in Request, NEW u \in User, NEW t \in Task, NEW s \in Sid,
             BeginLogin(q, t, u, s)
      PROVE  Storage'
  <2>1. user[u] \in UserRow /\ s \in drawn' \ drawn /\ drawn \subseteq drawn'
    BY <1>2 DEF TypeOK, BeginLogin
  <2> QED
    BY <1>2, <2>1, BeginKeeps DEF BeginLogin, PC
<1>3. ASSUME NEW q \in Request, NEW u \in User, NEW s \in Sid,
             BeginRefresh(q, u, s)
      PROVE  Storage'
  <2> DEFINE pc == IF user[u].multi THEN "getSession" ELSE "ensure"
  <2>1. user[u] \in UserRow /\ Handed(s)
    BY <1>3 DEF TypeOK, BeginRefresh, Handed
  <2>2. pc \in {"getSession", "ensure"}
    OBVIOUS
  <2>3. /\ Begin(q, "refresh", u, pc, s, user[u]) /\ drawn' = drawn
        /\ UNCHANGED <<user, session, token>>
    BY <1>3 DEF BeginRefresh
  <2>4. pc \in PC \ {"clear", "insert"} /\ "refresh" \in Task
    BY <2>2 DEF PC, Task, SessionTask
  <2> HIDE DEF pc
  <2> QED
    BY <2>1, <2>2, <2>3, <2>4, BeginKeeps
<1>4. ASSUME NEW q \in Request, NEW u \in User, NEW p \in Password,
             BeginPassword(q, u, p)
      PROVE  Storage'
  <2>1. [user[u] EXCEPT !.password = p] \in UserRow
    <3>1. user[u] \in UserRow
      BY DEF TypeOK
    <3> QED
      BY <1>4, <3>1 DEF UserRow
  <2> QED
    BY <1>4, <2>1, BeginKeeps
       DEF BeginPassword, PC, Task, ChangeTask, SessionTask
<1>5. ASSUME NEW q \in Request, NEW u \in User, NEW t \in Task,
             NEW s \in drawn \cup {NoSid}, BeginToggle(q, t, u, s)
      PROVE  Storage'
  <2>1. user[u] \in UserRow /\ s \in Sid \cup {NoSid}
    BY <1>5 DEF TypeOK, BeginToggle
  <2> QED
    BY <1>5, <2>1, BeginKeeps DEF BeginToggle, PC, SessionTask
<1>6. ASSUME NEW q \in Request, NEW u \in User, BeginDelete(q, u)
      PROVE  Storage'
  <2>1. user[u] \in UserRow
    BY <1>6 DEF TypeOK
  <2> QED
    BY <1>6, <2>1, BeginKeeps DEF BeginDelete, PC, Task, ChangeTask, SessionTask
<1>7. ASSUME NEW q \in Request, NEW u \in User, NEW n \in Name,
             BeginRename(q, u, n)
      PROVE  Storage'
  <2>1. [user[u] EXCEPT !.name = n] \in UserRow
    <3>1. user[u] \in UserRow
      BY DEF TypeOK
    <3> QED
      BY <1>7, <3>1 DEF UserRow
  <2>2. /\ Begin(q, "rename", u, "rename", NoSid, [user[u] EXCEPT !.name = n])
        /\ UNCHANGED <<user, session, drawn, token>>
    BY <1>7 DEF BeginRename
  <2>3. /\ "rename" \in PC \ {"clear", "insert"} /\ "rename" \in Task
        /\ "rename" \notin SessionTask
    BY DEF PC, Task, SessionTask
  <2> QED
    BY <2>1, <2>2, <2>3, BeginKeeps
<1>8. ASSUME NEW q \in Request, UpdateUserLoginTime(q) PROVE Storage'
  <2> DEFINE pc == IF req[q].task = "swagger" \/ req[q].row.multi
                   THEN "insert" ELSE "list"
  <2>1. pc \in {"insert", "list"} /\ Goto(q, pc)
    BY <1>8 DEF UpdateUserLoginTime
  <2>2. pc = "insert" /\ FlagStays => req[q].row.multi
    BY <1>8 DEF Storage, FlagsAgree, FlagStays, UpdateUserLoginTime, PC
  <2>3. Storing(q) \/ req[q].task \notin SessionTask
    BY <1>8 DEF Storing, UpdateUserLoginTime
  <2> HIDE DEF pc
  <2> QED
    BY <1>8, <2>1, <2>2, <2>3, GotoKeeps DEF UpdateUserLoginTime, PC
<1>9. ASSUME NEW q \in Request, EnsureAllowed(q) PROVE Storage'
  BY <1>9, GotoKeeps DEF EnsureAllowed, PC
<1>10. ASSUME NEW q \in Request, CheckHistory(q) PROVE Storage'
  BY <1>10, GotoKeeps DEF CheckHistory, PC, Storage, TasksFit
<1>11. ASSUME NEW q \in Request, CreateUserPasswordHistory(q) PROVE Storage'
  BY <1>11, GotoKeeps DEF CreateUserPasswordHistory, PC, Storage, TasksFit
<1>12. ASSUME NEW q \in Request, ReadFlag(q) PROVE Storage'
  <2>1. req[q] \in Handler /\ req[q].pc = "readFlag"
    BY <1>12, HandlerTyped DEF ReadFlag, PC
  <2> DEFINE v == user[req[q].user]
             new == IF req[q].task = "status"
                    THEN [v EXCEPT !.enabled = ~v.enabled]
                    ELSE [v EXCEPT !.multi = ~v.multi]
             g == [req[q] EXCEPT !.pc = "writeFlag"]
             h == [g EXCEPT !.new = new]
  <2>2. /\ g.pc = "writeFlag" /\ g.task = req[q].task /\ g.row = req[q].row
        /\ g.user = req[q].user /\ g.from = req[q].from /\ g \in Handler
    BY <2>1 DEF Handler, PC
  <2>3. /\ h.pc = "writeFlag" /\ h.task = req[q].task /\ h.row = req[q].row
        /\ h.user = req[q].user /\ h.from = req[q].from
    <3> HIDE DEF g, new
    <3> QED
      BY <2>2 DEF Handler
  <2>4. req' = [req EXCEPT ![q] = h]
    BY <1>12 DEF ReadFlag
  <2> HIDE DEF h
  <2>5. req'[q] = h /\ \A p \in Request \ {q} : req'[p] = req[p]
    BY <2>4 DEF TypeOK
  <2>6. UNCHANGED <<user, session, drawn, token>> /\ req[q].pc \in PC
    BY <1>12, <2>1 DEF ReadFlag, PC
  <2>7. Moved(q)
    BY <2>1, <2>3, <2>5, <2>6
       DEF Moved, Storing, Storage, FlagsAgree, FromIsHanded
  <2> QED
    BY <2>5, <2>6, <2>7, MoveStep
<1>13. ASSUME NEW q \in Request, ResetUserPassword(q) PROVE Storage'
  <2>1. \A u \in User : user'[u].multi = user[u].multi
    BY <1>13 DEF ResetUserPassword, TypeOK, UserRow
  <2>2. req[q].task \notin SessionTask
    BY <1>13 DEF Storage, TasksFit, ResetUserPassword
  <2> QED
    BY <1>13, <2>1, <2>2, ChangeKeeps DEF ResetUserPassword, PC
<1>14. ASSUME NEW q \in Request, DeleteUser(q) PROVE Storage'
  <2>1. \A u \in User : user'[u].multi = user[u].multi
    BY <1>14 DEF DeleteUser, TypeOK, UserRow
  <2>2. req[q].task \notin SessionTask
    BY <1>14 DEF Storage, TasksFit, DeleteUser
  <2> QED
    BY <1>14, <2>1, <2>2, ChangeKeeps DEF DeleteUser, PC
<1>15. ASSUME NEW q \in Request, WriteFlag(q) PROVE Storage'
  <2>1. FlagStays => \A u \in User : user'[u].multi = user[u].multi
    <3> SUFFICES ASSUME FlagStays
                 PROVE  \A u \in User : user'[u].multi = user[u].multi
      OBVIOUS
    <3>1. req[q].task = "status"
      BY <1>15 DEF WriteFlag, Storage, FlagsAgree, FlagStays, PC
    <3> QED
      BY <1>15, <3>1 DEF WriteFlag, TypeOK, UserRow
  <2>2. UNCHANGED <<session, drawn, token>>
    BY <1>15 DEF WriteFlag
  <2>3. CASE req[q].task = "multi_login" /\ req[q].row.multi
    BY <1>15, <2>1, <2>3, ChangeKeeps DEF WriteFlag, PC, SessionTask
  <2>4. CASE ~(req[q].task = "multi_login" /\ req[q].row.multi)
    BY <1>15, <2>1, <2>2, <2>4, ReturnKeeps DEF WriteFlag
  <2> QED
    BY <2>3, <2>4
<1>16. ASSUME NEW q \in Request, UpdateUser(q) PROVE Storage'
  <2>1. \A u \in User : user'[u].multi = user[u].multi
    BY <1>16 DEF UpdateUser, TypeOK, UserRow
  <2> QED
    BY <1>16, <2>1, ReturnKeeps DEF UpdateUser
<1>17. ASSUME NEW q \in Request, Abort(q) \/ Finish(q) PROVE Storage'
  BY <1>17, ReturnKeeps DEF Abort, Finish
<1>18. CASE UNCHANGED vars
  <2>1. UNCHANGED <<user, session, req, drawn, token>>
    BY <1>18 DEF vars
  <2> QED
    BY <2>1, MoveStep
<1> QED
  BY <1>1, <1>2, <1>3, <1>4, <1>5, <1>6, <1>7, <1>8, <1>9, <1>10, <1>11,
     <1>12, <1>13, <1>14, <1>15, <1>16, <1>17, <1>18, ListKeeps, StoreKeeps,
     DeleteListedKeeps, GetSessionKeeps, ReplaceKeeps DEF Next

\* It holds in every reachable state.
LEMMA StorageHolds == Spec => []Storage
<1>1. Spec => []TypeOK
  BY SessionTypes
<1> QED
  BY <1>1, StorageInit, StorageStep, PTL DEF Spec

\* However refreshes, logins and logouts overlap, a session that a refresh
\* replaced is gone for as long as its successor lives.
THEOREM ReplacedSessionsStayGone == Spec => []RefreshedIsGone
<1>1. Storage => RefreshedIsGone
  BY DEF Storage
<1> QED
  BY <1>1, StorageHolds, PTL

\* With any number of handlers, a single-login user has no more sessions of
\* a name than there are handlers: each has stored at most one of them.
THEOREM SingleLoginOvershoot == Spec => []SingleLoginOvershootBounded
<1>1. Storage => SingleLoginOvershootBounded
  <2> SUFFICES ASSUME Storage, FlagStays, NEW u \in User, NEW n \in Name,
                      ~user[u].multi
               PROVE  Cardinality(SessionsOf(u, n)) <= Cardinality(Request)
    BY DEF SingleLoginOvershootBounded, FlagStays
  <2> DEFINE S == SessionsOf(u, n)
  <2>1. PICK f \in [S -> Request] : \A s, t \in S : f[s] = f[t] => s = t
    BY DEF Storage, OnePerHandler
  <2>2. f \in Injection(S, Request)
    BY <2>1 DEF Injection, IsInjective
  <2> HIDE DEF S
  <2>3. Cardinality(S) <= Cardinality(Request)
    BY <2>2, FS_Injection, SetAssumption
  <2> QED
    BY <2>3 DEF S
<1> QED
  BY <1>1, StorageHolds, PTL
=============================================================================
