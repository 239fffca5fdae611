----------------------------- MODULE Organization -----------------------------
(***************************************************************************)
(* Departments, menus, roles, data scopes, data rules and users of the     *)
(* admin plugin, and the links between them: dept_service.go,              *)
(* menu_service.go, role_service.go, data_scope_service.go,                *)
(* data_rule_service.go, user_service.go and the part of auth_service.go   *)
(* that reads what a user may do, over repo/gorm.go.                       *)
(*                                                                         *)
(* The services check, in statements of their own, then write in one       *)
(* statement or transaction.  There are no foreign keys and no unique      *)
(* names in the database: what the checks saw may be gone at the write.    *)
(***************************************************************************)
EXTENDS Naturals, FiniteSets

CONSTANTS
  Dept, Menu, Role, Scope, Rule, User, \* ids of the rows, never used again
  Name,    \* names, titles and usernames
  None,    \* no parent, no department; not yet an id
  Request, \* request handlers that may run at the same time
  Areas    \* what runs together: the operations called, the ids and names
           \* in use, and those of the ids that have a row at the start

Id    == Dept \cup Menu \cup Role \cup Scope \cup Rule \cup User
Kinds == {Dept, Menu, Role, Scope, Rule, User}

Op == {"deptWrite", "deptDelete", "menuWrite", "menuDelete", "roleWrite",
       "scopeWrite", "ruleWrite", "rolesDelete", "scopesDelete",
       "rulesDelete", "userWrite", "userDelete", "roleMenus", "roleScopes",
       "scopeRules", "authenticate"}

ASSUME SetAssumption ==
  /\ Dept \cap Menu = {} /\ (Dept \cup Menu) \cap Role = {}
  /\ (Dept \cup Menu \cup Role) \cap Scope = {}
  /\ (Dept \cup Menu \cup Role \cup Scope) \cap Rule = {}
  /\ (Dept \cup Menu \cup Role \cup Scope \cup Rule) \cap User = {}
  /\ {} \notin Kinds
  /\ IsFiniteSet(Request) /\ Request # {} /\ IsFiniteSet(Id)
  /\ None \notin Id
ASSUME AreaAssumption ==
  Areas \subseteq [ops: SUBSET Op, ids: SUBSET Id, names: SUBSET Name,
                   there: SUBSET Id, on: SUBSET BOOLEAN]

VARIABLES
  area,      \* what runs together, from the start
  row,       \* the tables: a row, or none yet, or deleted
  link,      \* the link tables: <<user, role>>, <<role, menu>>,
             \* <<role, scope>> and <<scope, rule>>
  req,       \* where each request handler is, with its local variables
  raced,     \* history: ids whose deletion overlapped with a write of a
             \* reference to them
  looped,    \* history: rows that were last moved below a row of their subtree
  disturbed  \* history: handlers that authenticate while something is written

vars == <<area, row, link, req, raced, looped, disturbed>>

-----------------------------------------------------------------------------
(* Rows and local states.                                                  *)

NoRow   == [is |-> "none"]
Deleted == [is |-> "deleted"]

\* "parent" is a department or a menu, a user's department for users; "on"
\* is the status.  Menus also have a type, left out: a button's title may be
\* taken twice, so a menu's title may pass the check whatever is there.
Row == [name: Name, parent: Dept \cup Menu \cup {None}, on: BOOLEAN]

Live(x) == row[x] \notin {NoRow, Deleted}
Kind(x) == CHOOSE K \in Kinds : x \in K

\* What a reader of the tables finds: links to rows that are not there are
\* dropped by the query (rolesByIDs, menusByIDs, dataScopesByIDs).
LinksOf(x, K) == {y \in K : <<x, y>> \in link /\ Live(y)}

\* The rows of a table whose parent is in S.
Children(K, S) == {y \in K : Live(y) /\ row[y].parent \in S}

\* A row with the children of all its rows: the least set that has them.
Subtree(K, x) ==
  {y \in K : \A S \in SUBSET K :
                x \in S /\ Children(K, S) \subseteq S => y \in S}

Idle    == [pc |-> "idle"]
WritePC == {"name", "parent", "ensure", "known", "insert", "update", "replace"}
DropPC  == {"users", "children", "delete"}
AuthPC  == {"dept", "roles", "menus", "granted"}

\* "kind" is the table, "id" the row or None for a new one, "parent", "name"
\* and "on" what is written into it, "links" the ids it is linked to; a
\* login collects roles, with their status, and permissions.
Handler ==
  [pc: WritePC \cup DropPC, kind: Kinds, id: Id \cup {None},
   name: Name \cup {None},
   parent: Dept \cup Menu \cup {None}, on: BOOLEAN, links: SUBSET Id,
   target: {{}} \cup Kinds]
    \cup [pc: AuthPC, id: User, dept: Dept \cup {None}, roles: SUBSET Role,
          left: SUBSET Role, enabled: SUBSET Role, perms: SUBSET (Role \X Menu)]

\* What a handler that is about to write refers to.
Holds(h) ==
  IF h.pc \notin WritePC THEN {}
  ELSE (h.links \cup {h.parent} \cup (IF h.target = {} THEN {} ELSE {h.id}))
         \ {None}

Drops(h) == IF h.pc \in DropPC THEN {h.id} ELSE {}

-----------------------------------------------------------------------------
Init ==
  /\ area \in Areas
  /\ \E name \in [area.there -> area.names], on \in [area.there -> area.on] :
       /\ \A x, y \in area.there :
            x # y /\ Kind(x) = Kind(y) => name[x] # name[y]
       /\ row = [x \in Id |->
            IF x \in area.there
            THEN [name |-> name[x], parent |-> None, on |-> on[x]] ELSE NoRow]
  /\ link = (User \cap area.there) \X (Role \cap area.there)
  /\ req = [q \in Request |-> Idle]
  /\ raced = {}
  /\ looped = {}
  /\ disturbed = {}

Return(q)   == req' = [req EXCEPT ![q] = Idle]
Goto(q, pc) == req' = [req EXCEPT ![q].pc = pc]

\* A handler starts; what it shares with one that runs already has raced.
Begin(q, h) ==
  /\ req[q] = Idle
  /\ req' = [req EXCEPT ![q] = h]
  /\ raced' = raced \cup
       (UNION {Holds(h) \cap Drops(req[p]) : p \in Request})
         \cup (UNION {Drops(h) \cap Holds(req[p]) : p \in Request})
  /\ UNCHANGED <<area, row, link, looped, disturbed>>

\* An update reads the row it will change; a name is looked for unless the
\* row has it.
BeginWrite(q, op, K, x, n, p, on, L, next) ==
  /\ op \in area.ops
  /\ x # None => x \in K /\ Live(x)
  /\ Begin(q, [pc |-> IF x # None /\ row[x].name = n THEN next ELSE "name",
               kind |-> K, id |-> x, name |-> n, parent |-> p, on |-> on,
               links |-> L, target |-> {}])

BeginDrop(q, op, K, x, pc) ==
  /\ op \in area.ops
  /\ Begin(q, [pc |-> pc, kind |-> K, id |-> x, name |-> None,
               parent |-> None, on |-> TRUE, links |-> {}, target |-> {}])

BeginLinks(q, op, K, x, T, L) ==
  /\ op \in area.ops
  /\ Live(x)
  /\ Begin(q, [pc |-> "ensure", kind |-> K, id |-> x,
               name |-> None, parent |-> None, on |-> TRUE,
               links |-> L, target |-> T])

-----------------------------------------------------------------------------
(* What the services are asked for.                                        *)

\* Only the department itself is refused as its parent.
WriteDept(q, x, n, p, on) ==
  /\ x # None => p # x
  /\ BeginWrite(q, "deptWrite", Dept, x, n, p, on, {}, "parent")

DropDept(q, x) == Live(x) /\ BeginDrop(q, "deptDelete", Dept, x, "users")

WriteMenu(q, x, n, p, on) ==
  /\ x # None => p # x
  /\ BeginWrite(q, "menuWrite", Menu, x, n, p, on, {}, "parent")

DropMenu(q, x) == BeginDrop(q, "menuDelete", Menu, x, "children")

WriteRole(q, x, n, on) ==
  BeginWrite(q, "roleWrite", Role, x, n, None, on, {}, "update")

WriteScope(q, x, n, on) ==
  BeginWrite(q, "scopeWrite", Scope, x, n, None, on, {}, "update")

WriteRule(q, x, n) ==
  BeginWrite(q, "ruleWrite", Rule, x, n, None, TRUE, {}, "update")

\* A new user has a department.
WriteUser(q, x, n, d, L) ==
  /\ x = None => d # None
  /\ BeginWrite(q, "userWrite", User, x, n, d, TRUE, L, "ensure")

DropUser(q, x) == Live(x) /\ BeginDrop(q, "userDelete", User, x, "delete")

UpdateMenus(q, x, L)  == BeginLinks(q, "roleMenus", Role, x, Menu, L)
UpdateScopes(q, x, L) == BeginLinks(q, "roleScopes", Role, x, Scope, L)
UpdateRules(q, x, L)  == BeginLinks(q, "scopeRules", Scope, x, Rule, L)

-----------------------------------------------------------------------------
(* The checks.                                                             *)

Step(q, pc) == Goto(q, pc) /\ UNCHANGED <<area, row, link, raced, looped, disturbed>>

\* Mutant: only an update looks for the name.
FindNameOfUpdate(q) ==
  LET h == req[q] IN
  /\ h.pc = "name"
  /\ h.id # None =>
       \A x \in h.kind \ Menu : Live(x) => row[x].name # h.name
  /\ Step(q, IF h.kind \in {Dept, Menu} THEN "parent"
             ELSE IF h.kind = User THEN "ensure"
             ELSE IF h.id = None THEN "insert" ELSE "update")

FindName(q) ==
  LET h == req[q] IN
  /\ h.pc = "name"
  /\ \A x \in h.kind \ Menu : Live(x) => row[x].name # h.name
  /\ Step(q, IF h.kind \in {Dept, Menu} THEN "parent"
             ELSE IF h.kind = User THEN "ensure"
             ELSE IF h.id = None THEN "insert" ELSE "update")

\* Mutant: the parent is not looked for.
FindParentNot(q) ==
  /\ req[q].pc = "parent"
  /\ Step(q, IF req[q].id = None THEN "insert" ELSE "update")

FindParent(q) ==
  /\ req[q].pc = "parent"
  /\ req[q].parent # None => Live(req[q].parent)
  /\ Step(q, IF req[q].id = None THEN "insert" ELSE "update")

\* ensureUserDept, unless the user has the department already, and
\* ensureUserRoles; ensureMenus, ensureScopes, ensureDataRules.
EnsureLinks(q) ==
  LET h == req[q] IN
  /\ h.pc = "ensure"
  /\ \A y \in h.links : Live(y)
  /\ h.parent # None => Live(h.parent)
  /\ Step(q, "known")

\* The repository looks again: it keeps the menus and scopes it knows, and
\* refuses an unknown role, rule or department.
KnownLinks(q) ==
  LET h == req[q] IN
  /\ h.pc = "known"
  /\ h.target # {} => Live(h.id)
  /\ h.target \notin {Menu, Scope} => \A y \in h.links : Live(y)
  /\ h.parent # None => Live(h.parent)
  /\ req' = [req EXCEPT
       ![q].pc = IF h.target # {} THEN "replace"
                 ELSE IF h.id = None THEN "insert" ELSE "update",
       ![q].links = {y \in h.links : Live(y)}]
  /\ UNCHANGED <<area, row, link, raced, looped, disturbed>>

FindUsers(q) ==
  /\ req[q].pc = "users"
  /\ \A u \in User : Live(u) => row[u].parent # req[q].id
  /\ Step(q, "children")

FindChildren(q) ==
  /\ req[q].pc = "children"
  /\ \A x \in Dept \cup Menu : Live(x) => row[x].parent # req[q].id
  /\ Step(q, "delete")

-----------------------------------------------------------------------------
(* The writes.                                                             *)

\* Every write is noticed by the handlers that authenticate.
Write(q) ==
  /\ Return(q)
  /\ disturbed' = disturbed \cup {p \in Request : req[p].pc \in AuthPC}
  /\ UNCHANGED area

Written(h) == [name |-> h.name, parent |-> h.parent, on |-> h.on]

InsertRow(q, x) ==
  LET h == req[q] IN
  /\ h.pc = "insert"
  /\ x \in h.kind /\ row[x] = NoRow
  /\ row' = [row EXCEPT ![x] = Written(h)]
  /\ link' = link \cup ({x} \X h.links)
  /\ Write(q)
  /\ UNCHANGED <<raced, looped>>

\* The links of a user are replaced with the row.
UpdateRow(q) ==
  LET h == req[q] IN
  /\ h.pc = "update"
  /\ Live(h.id)
  /\ row' = [row EXCEPT ![h.id] = Written(h)]
  /\ link' = IF h.kind = User
             THEN {l \in link : l[1] # h.id} \cup ({h.id} \X h.links)
             ELSE link
  /\ looped' = IF h.parent \in Subtree(h.kind, h.id) \ {h.id}
               THEN looped \cup {h.id} ELSE looped \ {h.id}
  /\ Write(q)
  /\ UNCHANGED raced

\* Nothing is looked for any more.
ReplaceLinks(q) ==
  LET h == req[q] IN
  /\ h.pc = "replace"
  /\ link' = {l \in link : l[1] # h.id \/ l[2] \notin h.target}
               \cup ({h.id} \X h.links)
  /\ Write(q)
  /\ UNCHANGED <<row, raced, looped>>

\* A user goes with the links to its roles, a menu with those of the roles.
DeleteRow(q) ==
  LET h == req[q] IN
  /\ h.pc = "delete"
  /\ Live(h.id)
  /\ row' = [row EXCEPT ![h.id] = Deleted]
  /\ link' = IF h.kind = Dept THEN link
             ELSE {l \in link : h.id \notin {l[1], l[2]}}
  /\ Write(q)
  /\ UNCHANGED <<raced, looped>>

\* Mutant: the links to what is deleted stay.
DeleteRowsOnly(q, op, S) ==
  /\ req[q] = Idle /\ op \in area.ops
  /\ \E x \in S : Live(x)
  /\ row' = [x \in Id |-> IF x \in S /\ Live(x) THEN Deleted ELSE row[x]]
  /\ link' = {l \in link : l[1] \notin S}
  /\ raced' = raced \cup UNION {Holds(req[p]) \cap S : p \in Request}
  /\ Write(q)
  /\ UNCHANGED looped

\* DeleteRoles, DeleteDataScopes, DeleteDataRules: nothing is looked for, the
\* links of both sides go in the same transaction.
DeleteRows(q, op, S) ==
  /\ req[q] = Idle /\ op \in area.ops
  /\ \E x \in S : Live(x)
  /\ row' = [x \in Id |-> IF x \in S /\ Live(x) THEN Deleted ELSE row[x]]
  /\ link' = {l \in link : l[1] \notin S /\ l[2] \notin S}
  /\ raced' = raced \cup UNION {Holds(req[p]) \cap S : p \in Request}
  /\ Write(q)
  /\ UNCHANGED looped

-----------------------------------------------------------------------------
(* Authenticate: who the user is and what the roles allow, read in turn.   *)

\* The user is found and enabled; the row is kept while the rest is read.
BeginAuthenticate(q, u) ==
  /\ "authenticate" \in area.ops
  /\ req[q] = Idle
  /\ Live(u)
  /\ req' = [req EXCEPT ![q] =
       [pc |-> "dept", id |-> u, dept |-> row[u].parent, roles |-> {},
        left |-> {}, enabled |-> {}, perms |-> {}]]
  /\ UNCHANGED <<area, row, link, raced, looped, disturbed>>

\* No department is fine, one that is gone or off is not.
EnsureUserDeptAllowed(q) ==
  LET d == req[q].dept IN
  /\ req[q].pc = "dept"
  /\ d # None => Live(d) /\ row[d].on
  /\ Step(q, "roles")

UserRoles(q) ==
  LET h == req[q]  R == LinksOf(h.id, Role) IN
  /\ h.pc = "roles"
  /\ Live(h.id)
  /\ req' = [req EXCEPT ![q] =
       [h EXCEPT !.pc = "menus", !.roles = R, !.left = R,
                 !.enabled = {r \in R : row[r].on}]]
  /\ UNCHANGED <<area, row, link, raced, looped, disturbed>>

\* Mutant: a menu counts whatever its status.
RoleMenusAll(q, r) ==
  LET h == req[q] IN
  /\ h.pc = "menus" /\ r \in h.left
  /\ Live(r)
  /\ req' = [req EXCEPT ![q].left = @ \ {r},
       ![q].perms = @ \cup ({r} \X LinksOf(r, Menu))]
  /\ UNCHANGED <<area, row, link, raced, looped, disturbed>>

\* One role after the other; a role deleted by now fails the request.
RoleMenus(q, r) ==
  LET h == req[q] IN
  /\ h.pc = "menus" /\ r \in h.left
  /\ Live(r)
  /\ req' = [req EXCEPT ![q].left = @ \ {r},
       ![q].perms = @ \cup ({r} \X {m \in LinksOf(r, Menu) : row[m].on})]
  /\ UNCHANGED <<area, row, link, raced, looped, disturbed>>

\* Somebody whose roles are all off is refused; only enabled roles count.
EnsureUserRolesAllowed(q) ==
  LET h == req[q] IN
  /\ h.pc = "menus" /\ h.left = {}
  /\ h.roles # {} => h.enabled # {}
  /\ req' = [req EXCEPT ![q].pc = "granted",
               ![q].perms = {p \in @ : p[1] \in h.enabled}]
  /\ UNCHANGED <<area, row, link, raced, looped, disturbed>>

\* A handler is done, is refused, fails, or its process dies.
Abort(q) ==
  /\ req[q] # Idle
  /\ Return(q)
  /\ disturbed' = disturbed \ {q}
  /\ UNCHANGED <<area, row, link, raced, looped>>

\* Of a table, the rows that are in use.
Of(K) == K \cap area.ids

Next ==
  \E q \in Request :
    \/ \E n \in area.names, on \in area.on :
         \/ \E x, p \in Of(Dept) \cup {None} : WriteDept(q, x, n, p, on)
         \/ \E x, p \in Of(Menu) \cup {None} : WriteMenu(q, x, n, p, on)
         \/ \E x \in Of(Role) \cup {None} : WriteRole(q, x, n, on)
         \/ \E x \in Of(Scope) \cup {None} : WriteScope(q, x, n, on)
    \/ \E n \in area.names :
         \/ \E x \in Of(Rule) \cup {None} : WriteRule(q, x, n)
         \/ \E x \in Of(User) \cup {None}, d \in Of(Dept) \cup {None},
               L \in SUBSET Of(Role) : WriteUser(q, x, n, d, L)
    \/ \E x \in Of(Dept) : DropDept(q, x)
    \/ \E x \in Of(Menu) : DropMenu(q, x)
    \/ \E x \in Of(User) : DropUser(q, x) \/ BeginAuthenticate(q, x)
    \/ \E x \in Of(Role) :
         \/ \E L \in SUBSET Of(Menu) : UpdateMenus(q, x, L)
         \/ \E L \in SUBSET Of(Scope) : UpdateScopes(q, x, L)
         \/ RoleMenus(q, x)
    \/ \E x \in Of(Scope), L \in SUBSET Of(Rule) : UpdateRules(q, x, L)
    \/ FindName(q) \/ FindParent(q) \/ EnsureLinks(q) \/ KnownLinks(q)
    \/ FindUsers(q) \/ FindChildren(q)
    \/ \E x \in area.ids : InsertRow(q, x)
    \/ UpdateRow(q) \/ ReplaceLinks(q) \/ DeleteRow(q)
    \/ \E S \in SUBSET Of(Role) : DeleteRows(q, "rolesDelete", S)
    \/ \E S \in SUBSET Of(Scope) : DeleteRows(q, "scopesDelete", S)
    \/ \E S \in SUBSET Of(Rule) : DeleteRows(q, "rulesDelete", S)
    \/ EnsureUserDeptAllowed(q) \/ UserRoles(q) \/ EnsureUserRolesAllowed(q)
    \/ Abort(q)

Spec == Init /\ [][Next]_vars

-----------------------------------------------------------------------------
(* The tree that is shown.                                                 *)

\* Rows whose parent is not there are shown as roots.
TreeRoots(K) ==
  {x \in K : Live(x) /\ (row[x].parent # None => ~Live(row[x].parent))}

\* buildDeptTree and buildMenuTree walk down from the roots.
Shown(K) ==
  LET level[n \in 0 .. Cardinality(K)] ==
        IF n = 0 THEN TreeRoots(K)
        ELSE level[n-1] \cup Children(K, level[n-1])
  IN  level[Cardinality(K)]

-----------------------------------------------------------------------------
(* Invariants.                                                             *)

TypeOK ==
  /\ area \in Areas
  /\ row \in [Id -> {NoRow, Deleted} \cup Row]
  /\ link \subseteq (User \X Role) \cup (Role \X Menu) \cup (Role \X Scope)
                  \cup (Scope \X Rule)
  /\ req \in [Request -> {Idle} \cup Handler]
  /\ raced \subseteq Id
  /\ looped \subseteq Id
  /\ disturbed \subseteq Request

\* Two creations, or a creation and an update, may both find a name free;
\* never more rows share a name than handlers run together.
NamesBounded ==
  \A K \in Kinds \ {Menu}, n \in Name :
    Cardinality({x \in K : Live(x) /\ row[x].name = n}) <= Cardinality(Request)

\* A child, a user or a link is left with a deleted row only where the deletion
\* overlapped with a handler that was about to write that reference: without
\* an overlap the checks and the transactions leave nothing behind.  (A user
\* in a deleted department cannot sign in and fails the list of users.)
StrandedOnlyByRaces ==
  /\ \A x \in Id : Live(x) => \A p \in {row[x].parent} \ {None} :
       row[p] = Deleted => p \in raced
  /\ \A l \in link : \A x \in {l[1], l[2]} : row[x] = Deleted => x \in raced

\* The services refuse a row itself as its parent, not a row below it, and two
\* moves may each pass the check and close a cycle together.  But a department
\* or a menu is missing from its tree only in or below a row whose last move
\* put it below a row of its own subtree: a new row, a deletion whatever it
\* races with, and any other move hide nothing, and a further move that is
\* none of these brings back what the bad one had hidden.
HiddenOnlyByMoves ==
  \A K \in {Dept, Menu} : \A x \in K : Live(x) /\ x \notin Shown(K) =>
    \E y \in looped \cap K : Live(y) /\ x \in Subtree(K, y)

\* A request that nothing was written during gets the permissions of the
\* enabled menus of the enabled roles of its user, though they were read one
\* by one.
QuietAuthenticationIsExact ==
  \A q \in Request : req[q].pc = "granted" /\ q \notin disturbed =>
    req[q].perms =
      UNION {{r} \X {m \in LinksOf(r, Menu) : row[m].on} :
               r \in {r \in LinksOf(req[q].id, Role) : row[r].on}}
=============================================================================
