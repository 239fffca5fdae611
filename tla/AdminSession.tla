----------------------------- MODULE AdminSession -----------------------------
(***************************************************************************)
(* Sessions and what ends them in the admin plugin: login, refresh, logout *)
(* (admin/internal/app/admin/service/auth_service.go), and the changes to  *)
(* an account that sign it out: a new password, the end of multi-login,    *)
(* deletion (user_service.go, password_security.go), over repo/gorm.go.    *)
(*                                                                         *)
(* Every repository call is a statement or transaction of its own and is   *)
(* one atomic step.  A handler reads the user row first and acts on that   *)
(* copy for as long as it runs.                                            *)
(***************************************************************************)
EXTENDS Naturals, FiniteSets, Sequences

CONSTANTS
  User,         \* accounts
  Name,         \* usernames
  Password,     \* passwords that meet the policy
  Sid,          \* session uuids that may be drawn; bounds the sessions
  NoSid,        \* no session
  Request,      \* request handlers that may run at the same time
  Called,       \* the sets of operations that are called together
  HistoryCount, \* USER_PASSWORD_HISTORY_CHECK_COUNT
  EraBound      \* bound of the changes of an account that end its sessions

SessionTask == {"login", "swagger", "refresh"}
ChangeTask  == {"password", "delete", "multi_login"}
Task        == SessionTask \cup ChangeTask \cup {"status", "rename", "logout"}

ASSUME SetAssumption ==
  /\ IsFiniteSet(Request) /\ IsFiniteSet(Sid)
  /\ NoSid \notin Sid /\ Called \subseteq SUBSET Task
ASSUME NumberAssumption ==
  HistoryCount \in Nat \ {0} /\ EraBound \in Nat
ASSUME NameAssumption == Cardinality(Name) >= Cardinality(User)

VARIABLES
  called,    \* the operations that are called
  user,      \* sys_user rows
  session,   \* sys_session rows, by session uuid
  history,   \* sys_user_password_history rows of a user, oldest first
  req,       \* where each request handler is, with its local variables
  drawn,     \* session uuids that were drawn
  token,     \* refresh tokens in clients' hands, by user and session
  era,       \* history: changes so far that end the sessions of a user
  revoked    \* history: the latest of them that was done with, by username

vars ==
  <<called, user, session, history, req, drawn, token, era, revoked>>

-----------------------------------------------------------------------------
(* Rows and local states.                                                  *)

UserRow == [deleted: BOOLEAN, enabled: BOOLEAN, multi: BOOLEAN,
            name: Name, password: Password]

\* "stored" is history: the era in which the row was written; "from" is the
\* session a refresh replaced.
NoSession  == [user |-> "none"]
SessionRow == [user: User, name: Name, from: Sid \cup {NoSid},
               stored: Nat]

Idle == [pc |-> "idle"]
PC == {"loginTime", "ensure", "getSession", "replace", "list", "clear",
       "insert", "checkHistory", "reset", "addHistory", "readFlag",
       "writeFlag", "delete", "rename"}

\* "row" is the user as the handler read it, "sid" the session it writes or
\* keeps, "new" what it writes into the row.
Handler ==
  {h \in [pc: PC, task: Task, user: User, row: UserRow,
          sid: Sid \cup {NoSid}, from: Sid \cup {NoSid}, era: Nat,
          new: UserRow, victims: SUBSET Sid] :
     h.task \in SessionTask => h.sid \in Sid}

Live(s) == session[s] # NoSession

\* Mutant: only the first of the rows is returned.
SessionsOfFirst(u, n) ==
  LET all == {s \in Sid : Live(s) /\ session[s].user = u /\ session[s].name = n}
  IN  IF all = {} THEN {} ELSE {CHOOSE s \in all : TRUE}

\* ListSessions filters by the username stored with the session; its callers
\* then keep the rows of the user's id.
SessionsOf(u, n) ==
  {s \in Sid : Live(s) /\ session[s].user = u /\ session[s].name = n}

Recent(u) ==
  {history[u][i] : i \in {j \in DOMAIN history[u] :
                            j + HistoryCount > Len(history[u])}}

Later(a, b) == IF a > b THEN a ELSE b

-----------------------------------------------------------------------------
Init ==
  /\ called \in Called
  /\ user \in [User -> {r \in UserRow : ~r.deleted /\ r.enabled}]
  /\ \A u, v \in User : u # v => user[u].name # user[v].name
  /\ session = [s \in Sid |-> NoSession]
  /\ history = [u \in User |-> <<>>]
  /\ req = [q \in Request |-> Idle]
  /\ drawn = {}
  /\ token = {}
  /\ era = [u \in User |-> 0]
  /\ revoked = [u \in User |-> [n \in Name |-> 0]]

Goto(q, pc) == req' = [req EXCEPT ![q].pc = pc]
Return(q)   == req' = [req EXCEPT ![q] = Idle]

\* GetUser or GetUserByUsername: only rows that are not deleted are found.
Begin(q, t, u, pc, s, new) ==
  /\ req[q] = Idle
  /\ t \in called
  /\ ~user[u].deleted
  /\ req' = [req EXCEPT ![q] =
       [pc |-> pc, task |-> t, user |-> u, row |-> user[u], sid |-> s,
        from |-> NoSid, era |-> era[u], new |-> new, victims |-> {}]]

-----------------------------------------------------------------------------
(* Login, SwaggerLogin and OAuth2Login.                                    *)

\* The user is enabled, not locked, and the password is the right one.
BeginLogin(q, t, u, s) ==
  /\ t \in {"login", "swagger"}
  /\ user[u].enabled
  /\ s \notin drawn
  /\ drawn' = drawn \cup {s}
  /\ Begin(q, t, u, "loginTime", s, user[u])
  /\ UNCHANGED <<called, user, session, history, token, era, revoked>>

\* Mutant: a single login does not look for the other sessions.
UpdateUserLoginTimeOnly(q) ==
  /\ req[q].pc = "loginTime"
  /\ ~user[req[q].user].deleted
  /\ Goto(q, "insert")
  /\ UNCHANGED <<called, user, session, history, drawn, token, era, revoked>>

\* The login time is written unless the user is deleted by now; only Login
\* looks for other sessions, and only of single-login users.
UpdateUserLoginTime(q) ==
  /\ req[q].pc = "loginTime"
  /\ ~user[req[q].user].deleted
  /\ Goto(q, IF req[q].task = "swagger" \/ req[q].row.multi
             THEN "insert" ELSE "list")
  /\ UNCHANGED <<called, user, session, history, drawn, token, era, revoked>>

ListSessions(q) ==
  LET r == req[q] IN
  /\ r.pc = "list"
  /\ req' = [req EXCEPT ![q].pc = "clear",
               ![q].victims = SessionsOf(r.user, r.row.name) \ {r.sid}]
  /\ UNCHANGED <<called, user, session, history, drawn, token, era, revoked>>

DeleteListed(q, s) ==
  /\ req[q].pc = "clear"
  /\ s \in req[q].victims
  /\ session' = [session EXCEPT ![s] = NoSession]
  /\ req' = [req EXCEPT ![q].victims = @ \ {s}]
  /\ UNCHANGED <<called, user, history, drawn, token, era, revoked>>

\* With the name and the user as they were when the handler began.
UpsertSession(q) ==
  LET r == req[q] IN
  /\ r.pc \in {"insert", "clear"}
  /\ r.victims = {}
  /\ r.task \in SessionTask
  /\ session' = [session EXCEPT ![r.sid] =
       [user |-> r.user, name |-> r.row.name, from |-> r.from,
        stored |-> era[r.user]]]
  /\ token' = IF r.task = "swagger" THEN token
              ELSE token \cup {<<r.user, r.sid>>}
  /\ Return(q)
  /\ UNCHANGED <<called, user, history, drawn, era, revoked>>

\* Logout by the client, or DeleteSession by the monitor, whether or not the
\* session still exists.
Logout(s) ==
  /\ "logout" \in called
  /\ s \in drawn
  /\ session' = [session EXCEPT ![s] = NoSession]
  /\ UNCHANGED <<called, user, history, req, drawn, token, era, revoked>>

-----------------------------------------------------------------------------
(* Refresh, with the refresh token of session s.                           *)

BeginRefresh(q, u, s) ==
  /\ <<u, s>> \in token
  /\ user[u].enabled
  /\ Begin(q, "refresh", u, IF user[u].multi THEN "getSession" ELSE "ensure",
           s, user[u])
  /\ UNCHANGED <<called, user, session, history, drawn, token, era, revoked>>

\* A single-login user who has another session is refused.
EnsureAllowed(q) ==
  LET r == req[q] IN
  /\ r.pc = "ensure"
  /\ SessionsOf(r.user, r.row.name) \subseteq {r.sid}
  /\ Goto(q, "getSession")
  /\ UNCHANGED <<called, user, session, history, drawn, token, era, revoked>>

GetSession(q) ==
  LET r == req[q] IN
  /\ r.pc = "getSession"
  /\ Live(r.sid) /\ session[r.sid].user = r.user
  /\ req' = [req EXCEPT ![q].pc = "replace", ![q].from = r.sid]
  /\ UNCHANGED <<called, user, session, history, drawn, token, era, revoked>>

\* Mutant: the old session stays.
ReplaceSessionKept(q, s) ==
  LET r == req[q] IN
  /\ r.pc = "replace"
  /\ s \notin drawn
  /\ drawn' = drawn \cup {s}
  /\ req' = [req EXCEPT ![q].pc = IF r.row.multi THEN "insert" ELSE "list",
                        ![q].sid = s]
  /\ UNCHANGED <<called, user, session, history, token, era, revoked>>

ReplaceSession(q, s) ==
  LET r == req[q] IN
  /\ r.pc = "replace"
  /\ s \notin drawn
  /\ drawn' = drawn \cup {s}
  /\ session' = [session EXCEPT ![r.from] = NoSession]
  /\ req' = [req EXCEPT ![q].pc = IF r.row.multi THEN "insert" ELSE "list",
                        ![q].sid = s]
  /\ UNCHANGED <<called, user, history, token, era, revoked>>

-----------------------------------------------------------------------------
(* UpdatePassword and ResetPassword.                                       *)

\* UpdatePassword also asks for the old password, which the client knows.
BeginPassword(q, u, p) ==
  /\ Begin(q, "password", u, "checkHistory", NoSid,
           [user[u] EXCEPT !.password = p])
  /\ UNCHANGED <<called, user, session, history, drawn, token, era, revoked>>

CheckHistory(q) ==
  /\ req[q].pc = "checkHistory"
  /\ req[q].new.password \notin Recent(req[q].user)
  /\ Goto(q, "reset")
  /\ UNCHANGED <<called, user, session, history, drawn, token, era, revoked>>

\* A change that ends the sessions of its user.
NextEra(q) ==
  LET u == req[q].user IN
  /\ era[u] < EraBound
  /\ era' = [era EXCEPT ![u] = @ + 1]

ResetUserPassword(q) ==
  LET r == req[q] IN
  /\ r.pc = "reset"
  /\ ~user[r.user].deleted
  /\ user' = [user EXCEPT ![r.user].password = r.new.password]
  /\ NextEra(q)
  /\ req' = [req EXCEPT ![q].pc = "addHistory", ![q].era = era[r.user] + 1]
  /\ UNCHANGED <<called, session, history, drawn, token, revoked>>

\* What is recorded is the password the handler read when it began.
CreateUserPasswordHistory(q) ==
  LET r == req[q] IN
  /\ r.pc = "addHistory"
  /\ history' = [history EXCEPT ![r.user] = Append(@, r.row.password)]
  /\ Goto(q, "list")
  /\ UNCHANGED <<called, user, session, drawn, token, era, revoked>>

-----------------------------------------------------------------------------
(* UpdatePermission: a flag is toggled, read and written apart, and the    *)
(* sessions end if the user had multi-login when the handler began.        *)

\* "s" is the session the user keeps when it is their own flag.
BeginToggle(q, t, u, s) ==
  /\ t \in {"status", "multi_login"}
  /\ Begin(q, t, u, "readFlag", s, user[u])
  /\ UNCHANGED <<called, user, session, history, drawn, token, era, revoked>>

ReadFlag(q) ==
  LET r == req[q]  v == user[r.user] IN
  /\ r.pc = "readFlag"
  /\ ~v.deleted
  /\ req' = [req EXCEPT ![q].pc = "writeFlag", ![q].new =
       IF r.task = "status" THEN [v EXCEPT !.enabled = ~@]
                            ELSE [v EXCEPT !.multi = ~@]]
  /\ UNCHANGED <<called, user, session, history, drawn, token, era, revoked>>

WriteFlag(q) ==
  LET r == req[q]  clears == r.task = "multi_login" /\ r.row.multi IN
  /\ r.pc = "writeFlag"
  /\ ~user[r.user].deleted
  /\ user' = IF r.task = "status"
             THEN [user EXCEPT ![r.user].enabled = r.new.enabled]
             ELSE [user EXCEPT ![r.user].multi = r.new.multi]
  /\ IF clears
     THEN /\ NextEra(q)
          /\ req' = [req EXCEPT ![q].pc = "list",
                                ![q].era = era[r.user] + 1]
     ELSE Return(q) /\ UNCHANGED era
  /\ UNCHANGED <<called, session, history, drawn, token, revoked>>

-----------------------------------------------------------------------------
(* Delete and Update of a user.                                            *)

BeginDelete(q, u) ==
  /\ Begin(q, "delete", u, "delete", NoSid, user[u])
  /\ UNCHANGED <<called, user, session, history, drawn, token, era, revoked>>

DeleteUser(q) ==
  LET r == req[q] IN
  /\ r.pc = "delete"
  /\ ~user[r.user].deleted
  /\ user' = [user EXCEPT ![r.user].deleted = TRUE]
  /\ NextEra(q)
  /\ req' = [req EXCEPT ![q].pc = "list", ![q].era = era[r.user] + 1]
  /\ UNCHANGED <<called, session, history, drawn, token, revoked>>

\* clearUserSessions or clearUserSessionsExcept returns; "revoked" is told
\* of those that kept no session.
Finish(q) ==
  LET r == req[q] IN
  /\ r.pc = "clear" /\ r.victims = {}
  /\ r.task \in ChangeTask
  /\ revoked' = IF r.sid # NoSid THEN revoked
                ELSE [revoked EXCEPT ![r.user][r.row.name] = Later(@, r.era)]
  /\ Return(q)
  /\ UNCHANGED <<called, user, session, history, drawn, token, era>>

\* Update: the new name is free, or its own, when it is looked up.
BeginRename(q, u, n) ==
  /\ \A v \in User : user[v].name = n /\ ~user[v].deleted => v = u
  /\ Begin(q, "rename", u, "rename", NoSid, [user[u] EXCEPT !.name = n])
  /\ UNCHANGED <<called, user, session, history, drawn, token, era, revoked>>

\* The sessions keep the name they were stored with.
UpdateUser(q) ==
  LET r == req[q] IN
  /\ r.pc = "rename"
  /\ ~user[r.user].deleted
  /\ user' = [user EXCEPT ![r.user].name = r.new.name]
  /\ Return(q)
  /\ UNCHANGED <<called, session, history, drawn, token, era, revoked>>

\* A handler returns early: it is refused, fails, or its process dies.
Abort(q) ==
  /\ req[q] # Idle
  /\ Return(q)
  /\ UNCHANGED <<called, user, session, history, drawn, token, era, revoked>>

Next ==
  \/ \E s \in Sid : Logout(s)
  \/ \E q \in Request :
       \/ \E u \in User :
            \/ \E t \in Task, s \in Sid : BeginLogin(q, t, u, s)
            \/ \E s \in Sid : BeginRefresh(q, u, s)
            \/ \E p \in Password : BeginPassword(q, u, p)
            \/ \E t \in Task, s \in drawn \cup {NoSid} : BeginToggle(q, t, u, s)
            \/ BeginDelete(q, u)
            \/ \E n \in Name : BeginRename(q, u, n)
       \/ UpdateUserLoginTime(q) \/ ListSessions(q) \/ UpsertSession(q)
       \/ EnsureAllowed(q) \/ GetSession(q)
       \/ \E s \in Sid : DeleteListed(q, s) \/ ReplaceSession(q, s)
       \/ CheckHistory(q) \/ ResetUserPassword(q)
       \/ CreateUserPasswordHistory(q)
       \/ ReadFlag(q) \/ WriteFlag(q)
       \/ DeleteUser(q) \/ Finish(q) \/ UpdateUser(q)
       \/ Abort(q)

Spec == Init /\ [][Next]_vars

-----------------------------------------------------------------------------
(* Invariants.                                                             *)

TypeOK ==
  /\ called \in Called
  /\ user \in [User -> UserRow]
  /\ session \in [Sid -> {NoSession} \cup SessionRow]
  /\ history \in [User -> Seq(Password)]
  /\ req \in [Request -> {Idle} \cup Handler]
  /\ drawn \subseteq Sid
  /\ token \subseteq User \X Sid
  /\ era \in [User -> Nat]
  /\ revoked \in [User -> [Name -> Nat]]

\* A session stored before a password change, a deletion or the end of
\* multi-login is gone when the handler of that change returns, under the
\* username it looked for (clearUserSessions lists after the change is made).
RevokedSessionsAreGone ==
  \A s \in Sid : Live(s) =>
    session[s].stored >= revoked[session[s].user][session[s].name]

\* A single-login user never has more sessions of one name than handlers
\* that may run together, if only Login and Refresh make them and the flag
\* stays: each lists the others before it stores its own (issueLoginToken).
SingleLoginOvershootBounded ==
  called \cap {"swagger", "multi_login"} = {} =>
    \A u \in User, n \in Name : ~user[u].multi =>
      Cardinality(SessionsOf(u, n)) <= Cardinality(Request)

\* While a refreshed session lives, the one it replaced is gone
\* (replaceRefreshSession).
RefreshedIsGone ==
  \A s \in Sid : Live(s) => session[s].from = NoSid \/ ~Live(session[s].from)
=============================================================================
