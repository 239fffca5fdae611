----------------------------- MODULE OAuth2Binding -----------------------------
(***************************************************************************)
(* Signing in with OAuth2 (admin/plugins/oauth2/service/service.go,        *)
(* state_store.go, repo/gorm.go) and the account changes it races with     *)
(* (admin/internal/app/admin/service/user_service.go).                     *)
(*                                                                         *)
(* One provider: every query names the source.  A callback is the sequence *)
(* of its Redis and database calls, each one atomic step.  The client's    *)
(* code was exchanged before the first of them, so a callback begins with  *)
(* the identity and email the provider answered.                           *)
(***************************************************************************)
EXTENDS Naturals, FiniteSets

CONSTANTS
  Identity,  \* identities at the provider
  User,      \* ids of accounts; bounds the accounts created
  Email,     \* email addresses
  State,     \* state values that may be drawn; bounds the round trips
  Request,   \* request handlers that may run at the same time
  None       \* no email, identity, user or state

ASSUME FiniteAssumption == IsFiniteSet(Request) /\ IsFiniteSet(User)
ASSUME NoneAssumption ==
  None \notin Identity \cup User \cup Email \cup State
    \cup (Identity \X User)

VARIABLES
  user,     \* sys_user rows
  binding,  \* sys_user_social rows with deleted = 0: <<identity, user>>
  state,    \* Redis: payloads of states
  req,      \* where each handler is, with its local variables
  uses      \* history: callbacks that went on with a state

vars == <<user, binding, state, req, uses>>

-----------------------------------------------------------------------------
UserRow == [status: {"absent", "live", "deleted"}, email: Email \cup {None}]

NoUser == [status |-> "absent", email |-> None]

\* "none" was not drawn yet, "gone" was used or has expired.
Payload == {[type |-> "login", user |-> None]}
             \cup [type: {"binding"}, user: User]
NoPayload == {[type |-> "none"], [type |-> "gone"]}

Idle == [pc |-> "idle"]
PC == {"pop", "checkBinding", "getBySID", "getUser", "findByEmail", "checkEmail",
       "createUser", "getCreated", "createBinding", "signIn", "updateEmail"}

Handler ==
  [pc: PC, task: {"login", "binding", "create", "email"},
   identity: Identity \cup {None}, user: User \cup {None},
   email: Email \cup {None}, state: State \cup {None}]

Live(u) == user[u].status = "live"

\* GetUserByEmail finds one of these; an empty address is not looked for.
Holders(e) == {u \in User : Live(u) /\ user[u].email = e /\ e # None}

BoundSID(i)  == \E p \in binding : p[1] = i
BoundUser(u) == \E p \in binding : p[2] = u

-----------------------------------------------------------------------------
Init ==
  /\ user = [u \in User |-> NoUser]
  /\ binding = {}
  /\ state = [t \in State |-> [type |-> "none"]]
  /\ req = [q \in Request |-> Idle]
  /\ uses = [t \in State |-> 0]

Goto(q, pc) == req' = [req EXCEPT ![q].pc = pc]
Return(q)   == req' = [req EXCEPT ![q] = Idle]

Begin(q, pc, task, i, u, e, t) ==
  /\ req[q] = Idle
  /\ req' = [req EXCEPT ![q] =
       [pc |-> pc, task |-> task, identity |-> i, user |-> u, email |-> e,
        state |-> t]]

-----------------------------------------------------------------------------
(* States.                                                                 *)

LoginAuthURL(t) ==
  /\ state[t].type = "none"
  /\ state' = [state EXCEPT ![t] = [type |-> "login", user |-> None]]
  /\ UNCHANGED <<user, binding, req, uses>>

BindingAuthURL(t, u) ==
  /\ state[t].type = "none"
  /\ Live(u)
  /\ state' = [state EXCEPT ![t] = [type |-> "binding", user |-> u]]
  /\ UNCHANGED <<user, binding, req, uses>>

ExpireState(t) ==
  /\ state[t] \in Payload
  /\ state' = [state EXCEPT ![t] = [type |-> "gone"]]
  /\ UNCHANGED <<user, binding, req, uses>>

\* Pop: the payload is read, ...  A binding has no use for the email.
BeginCallback(q, i, e, t) ==
  /\ state[t] \in Payload
  /\ state[t].type = "login" \/ e = None
  /\ Begin(q, "pop", state[t].type, i, state[t].user, e, t)
  /\ UNCHANGED <<user, binding, state, uses>>

\* Mutant: a state is left to expire.
DelStateNot(q) ==
  LET t == req[q].state IN
  /\ req[q].pc = "pop"
  /\ uses' = [uses EXCEPT ![t] = @ + 1]
  /\ Goto(q, IF req[q].task = "binding" THEN "checkBinding" ELSE "getBySID")
  /\ UNCHANGED <<user, binding, state>>

\* ... and then deleted; deleting a key that is gone is no error.
DelState(q) ==
  LET t == req[q].state IN
  /\ req[q].pc = "pop"
  /\ state' = [state EXCEPT ![t] = [type |-> "gone"]]
  /\ uses' = [uses EXCEPT ![t] = @ + 1]
  /\ LET next == IF req[q].task = "binding" THEN "checkBinding" ELSE "getBySID"
     IN  req' = [req EXCEPT ![q].pc = next, ![q].state = None]
  /\ UNCHANGED <<user, binding>>

-----------------------------------------------------------------------------
(* BindingWithOAuth2 and Login.                                            *)

CheckBinding(q) ==
  /\ req[q].pc = "checkBinding"
  /\ ~BoundUser(req[q].user)
  /\ Goto(q, "getBySID")
  /\ UNCHANGED <<user, binding, state, uses>>

\* A binding needs an identity that is free, a login takes its account.
GetBySID(q) ==
  /\ req[q].pc = "getBySID"
  /\ \/ /\ ~BoundSID(req[q].identity)
        /\ Goto(q, IF req[q].task = "binding" THEN "createBinding"
                                              ELSE "findByEmail")
     \/ /\ req[q].task = "login"
        /\ \E u \in User :
             /\ <<req[q].identity, u>> \in binding
             /\ req' = [req EXCEPT ![q].pc = "getUser", ![q].user = u]
  /\ UNCHANGED <<user, binding, state, uses>>

\* Mutant: not found is taken for an answer, with a user of no id.
FindByEmailAnyway(q) ==
  /\ req[q].pc = "findByEmail"
  /\ \/ \E u \in Holders(req[q].email) :
          req' = [req EXCEPT ![q].pc = "createBinding", ![q].user = u]
     \/ /\ Holders(req[q].email) = {}
        /\ Goto(q, "createBinding")
  /\ UNCHANGED <<user, binding, state, uses>>

\* findOrCreateUser: who has the email, or else a new account.
FindByEmail(q) ==
  /\ req[q].pc = "findByEmail"
  /\ \/ \E u \in Holders(req[q].email) :
          req' = [req EXCEPT ![q].pc = "createBinding", ![q].user = u]
     \/ /\ Holders(req[q].email) = {}
        /\ Goto(q, "checkEmail")
  /\ UNCHANGED <<user, binding, state, uses>>

\* A found row, or the one just created, is read again by its id.
GetUser(q) ==
  /\ req[q].pc \in {"getUser", "getCreated"}
  /\ Live(req[q].user)
  /\ Goto(q, IF req[q].pc = "getUser" THEN "signIn" ELSE "createBinding")
  /\ UNCHANGED <<user, binding, state, uses>>

\* Mutant: the rows have no unique index.
CreateBindingTwice(q) ==
  /\ req[q].pc = "createBinding"
  /\ binding' = binding \cup {<<req[q].identity, req[q].user>>}
  /\ IF req[q].task = "login" THEN Goto(q, "signIn") ELSE Return(q)
  /\ UNCHANGED <<user, state, uses>>

\* The unique indexes refuse an identity or a user that is bound by now.
CreateBinding(q) ==
  /\ req[q].pc = "createBinding"
  /\ ~BoundSID(req[q].identity)
  /\ ~BoundUser(req[q].user)
  /\ binding' = binding \cup {<<req[q].identity, req[q].user>>}
  /\ IF req[q].task = "login" THEN Goto(q, "signIn") ELSE Return(q)
  /\ UNCHANGED <<user, state, uses>>

\* The login time can only be written to a row that is not deleted; from here
\* on it is a login of AdminSession.
OAuth2Login(q) ==
  /\ req[q].pc = "signIn"
  /\ Live(req[q].user)
  /\ Return(q)
  /\ UNCHANGED <<user, binding, state, uses>>

\* The delete looks for the row again: the check before it decides nothing.
Unbind(u) ==
  /\ BoundUser(u)
  /\ binding' = {p \in binding : p[2] # u}
  /\ UNCHANGED <<user, state, req, uses>>

-----------------------------------------------------------------------------
(* Accounts: created by a login or an administrator, given an email by     *)
(* their owner, deleted.                                                   *)

BeginCreate(q, e) ==
  /\ Begin(q, "checkEmail", "create", None, None, e, None)
  /\ UNCHANGED <<user, binding, state, uses>>

BeginUpdateEmail(q, u, e) ==
  /\ Live(u)
  /\ Begin(q, "checkEmail", "email", None, u, e, None)
  /\ UNCHANGED <<user, binding, state, uses>>

\* Mutant: nobody looks for the email.
CheckEmailNot(q) ==
  /\ req[q].pc = "checkEmail"
  /\ Goto(q, IF req[q].task = "email" THEN "updateEmail" ELSE "createUser")
  /\ UNCHANGED <<user, binding, state, uses>>

\* Nobody else has the email.
CheckEmail(q) ==
  /\ req[q].pc = "checkEmail"
  /\ \/ Holders(req[q].email) = {}
     \/ req[q].task = "email" /\ req[q].user \in Holders(req[q].email)
  /\ Goto(q, IF req[q].task = "email" THEN "updateEmail" ELSE "createUser")
  /\ UNCHANGED <<user, binding, state, uses>>

\* The columns username and email have plain indexes.
CreateUser(q) ==
  /\ req[q].pc = "createUser"
  /\ \E u \in User :
       /\ user[u].status = "absent"
       /\ user' = [user EXCEPT ![u] = [status |-> "live", email |-> req[q].email]]
       /\ \/ /\ req[q].task = "login"
             /\ req' = [req EXCEPT ![q].pc = "getCreated", ![q].user = u]
          \/ /\ req[q].task = "create"
             /\ Return(q)
  /\ UNCHANGED <<binding, state, uses>>

UpdateUserEmail(q) ==
  /\ req[q].pc = "updateEmail"
  /\ Live(req[q].user)
  /\ user' = [user EXCEPT ![req[q].user].email = req[q].email]
  /\ Return(q)
  /\ UNCHANGED <<binding, state, uses>>

\* The bindings of the user stay.
DeleteUser(u) ==
  /\ Live(u)
  /\ user' = [user EXCEPT ![u].status = "deleted"]
  /\ UNCHANGED <<binding, state, req, uses>>

\* A handler stops where it is: refused, an error, or its process is gone.
Abort(q) ==
  /\ req[q] # Idle
  /\ Return(q)
  /\ UNCHANGED <<user, binding, state, uses>>

Step(q) ==
  \/ DelState(q) \/ CheckBinding(q) \/ GetBySID(q) \/ FindByEmail(q)
  \/ GetUser(q) \/ CreateBinding(q) \/ OAuth2Login(q)
  \/ CheckEmail(q) \/ CreateUser(q) \/ UpdateUserEmail(q) \/ Abort(q)

Next ==
  \/ \E t \in State :
       \/ LoginAuthURL(t)
       \/ \E u \in User : BindingAuthURL(t, u)
       \/ ExpireState(t)
       \/ \E q \in Request, i \in Identity, e \in Email \cup {None} :
            BeginCallback(q, i, e, t)
  \/ \E u \in User : Unbind(u) \/ DeleteUser(u)
  \/ \E q \in Request, e \in Email \cup {None} :
       \/ BeginCreate(q, e)
       \/ \E u \in User : BeginUpdateEmail(q, u, e)
  \/ \E q \in Request : Step(q)

Spec == Init /\ [][Next]_vars

-----------------------------------------------------------------------------
(* Properties.                                                             *)

TypeOK ==
  /\ user \in [User -> UserRow]
  /\ binding \subseteq Identity \X User
  /\ state \in [State -> NoPayload \cup Payload]
  /\ req \in [Request -> {Idle} \cup Handler]
  /\ uses \in [State -> Nat]

\* The account a login goes on with, from the moment it was looked up or bound.
Answer(q) ==
  IF req[q].pc \in {"getUser", "signIn"}
    THEN <<req[q].identity, req[q].user>> ELSE None

IM == INSTANCE IdentityMap WITH
        account <- binding, answer <- [q \in Request |-> Answer(q)]

\* The checks of BindingWithOAuth2 and Login and the indexes of UserSocial
\* together match identities and accounts one to one, and every login signs in
\* to the account its identity had when it was looked up or bound.
ImplementsIdentityMap == IM!Spec

\* The email is looked for before it is written and the column has no unique
\* index: handlers that run together give one address to several accounts, but
\* to no more than there are handlers (Create, UpdateEmailForIP).
AccountsPerEmailBounded ==
  \A e \in Email : Cardinality(Holders(e)) <= Cardinality(Request)

\* A state is read and deleted in two calls: the callbacks that may use it are
\* those in between together, and none that comes later (RedisStateStore.Pop).
StateUsesBounded ==
  \A t \in State : uses[t] <= Cardinality(Request)
=============================================================================
