-------------------------- MODULE OrganizationProofs --------------------------
(***************************************************************************)
(* Theorems about Organization, for every number of rows, names and        *)
(* handlers.                                                               *)
(***************************************************************************)
EXTENDS Organization, FiniteSetTheorems, WellFoundedInduction,
        NaturalsInduction, TLAPS

-----------------------------------------------------------------------------
(* The kinds of steps.                                                     *)

BeginStep(q) ==
  \/ \E n \in area.names, on \in area.on :
       \/ \E x, p \in Of(Dept) \cup {None} : WriteDept(q, x, n, p, on)
       \/ \E x, p \in Of(Menu) \cup {None} : WriteMenu(q, x, n, p, on)
       \/ \E x \in Of(Role) \cup {None} : WriteRole(q, x, n, on)
       \/ \E x \in Of(Scope) \cup {None} : WriteScope(q, x, n, on)
  \/ \E n \in area.names :
       \/ \E x \in Of(Rule) \cup {None} : WriteRule(q, x, n)
       \/ \E x \in Of(User) \cup {None}, d \in Of(Dept) \cup {None},
             L \in SUBSET Of(Role) : WriteUser(q, x, n, d, L)
  \/ \E x \in Of(Dept) : DropDept(q, x)
  \/ \E x \in Of(Menu) : DropMenu(q, x)
  \/ \E x \in Of(User) : DropUser(q, x)
  \/ \E x \in Of(Role) :
       \/ \E L \in SUBSET Of(Menu) : UpdateMenus(q, x, L)
       \/ \E L \in SUBSET Of(Scope) : UpdateScopes(q, x, L)
  \/ \E x \in Of(Scope), L \in SUBSET Of(Rule) : UpdateRules(q, x, L)

CheckStep(q) ==
  \/ FindName(q) \/ FindParent(q) \/ EnsureLinks(q) \/ KnownLinks(q)
  \/ FindUsers(q) \/ FindChildren(q)

DeleteStep(q) ==
  \/ \E S \in SUBSET Role : DeleteRows(q, "rolesDelete", S)
  \/ \E S \in SUBSET Scope : DeleteRows(q, "scopesDelete", S)
  \/ \E S \in SUBSET Rule : DeleteRows(q, "rulesDelete", S)

LoginStep(q) ==
  \/ \E u \in User : BeginAuthenticate(q, u)
  \/ EnsureUserDeptAllowed(q) \/ UserRoles(q) \/ EnsureUserRolesAllowed(q)
  \/ \E r \in Role : RoleMenus(q, r)

-----------------------------------------------------------------------------
(* Type correctness.                                                       *)

\* The rows of a table, and what handlers write into it, have parents in one
\* table, and only users are written with links.
ParentOf(K) == IF K \in {Dept, Menu} THEN K \cup {None}
               ELSE IF K = User THEN Dept \cup {None} ELSE {None}
RolesOf(K)  == IF K = User THEN Role ELSE {}

Linked == {<<Role, Menu>>, <<Role, Scope>>, <<Scope, Rule>>}

Change ==
  [pc: WritePC \cup DropPC, kind: Kinds, id: Id \cup {None},
   name: Name \cup {None},
   parent: Dept \cup Menu \cup {None}, on: BOOLEAN, links: SUBSET Id,
   target: {{}} \cup Kinds]
Login ==
  [pc: AuthPC, id: User, dept: Dept \cup {None}, roles: SUBSET Role,
   left: SUBSET Role, enabled: SUBSET Role, perms: SUBSET (Role \X Menu)]

\* A handler that writes a row, one that replaces links, one that deletes.
WritesRow(h) ==
  /\ h.pc \in WritePC \ {"replace"}
  /\ h.name \in Name /\ h.id \in h.kind \cup {None}
  /\ h.parent \in ParentOf(h.kind) /\ h.links \subseteq RolesOf(h.kind)
  /\ h.pc = "insert" => h.id = None
  /\ h.pc = "update" => h.id \in h.kind
  /\ h.pc = "parent" => h.kind \in {Dept, Menu}
  /\ h.pc \in {"ensure", "known"} => h.kind = User
WritesLinks(h) ==
  /\ h.pc \in {"ensure", "known", "replace"}
  /\ <<h.kind, h.target>> \in Linked
  /\ h.id \in h.kind /\ h.parent = None /\ h.links \subseteq h.target
Deletes(h) ==
  /\ h.pc \in DropPC /\ h.id \in h.kind
  /\ h.kind \in {Dept, Menu, User}
  /\ h.pc = "users" => h.kind = Dept
  /\ h.pc = "children" => h.kind \in {Dept, Menu}

Ready(h) ==
  \/ h.pc \in WritePC /\ h.target = {} /\ WritesRow(h)
  \/ h.pc \in WritePC /\ h.target # {} /\ WritesLinks(h)
  \/ Deletes(h)

Proper(h) == h \in Change /\ Ready(h)

Links == (User \X Role) \cup (Role \X Menu) \cup (Role \X Scope)
           \cup (Scope \X Rule)

RowsTyped ==
  /\ row \in [Id -> {NoRow, Deleted} \cup Row]
  /\ \A K \in Kinds : \A x \in K : Live(x) => row[x].parent \in ParentOf(K)

HandlersTyped ==
  req \in [Request -> {Idle} \cup {h \in Change : Ready(h)} \cup Login]

Typed ==
  /\ area \in Areas
  /\ RowsTyped
  /\ link \subseteq Links
  /\ HandlersTyped
  /\ raced \subseteq Id
  /\ disturbed \subseteq Request

\* The tables have no ids in common.
LEMMA Apart ==
  /\ \A K, L \in Kinds : K # L => K \cap L = {}
  /\ \A K \in Kinds : K \subseteq Id /\ K # {}
  /\ \A K \in Kinds : None \notin K
  /\ Dept # Menu /\ Dept # Role /\ Dept # Scope /\ Dept # Rule /\ Dept # User
  /\ Menu # Role /\ Menu # Scope /\ Menu # Rule /\ Menu # User
  /\ Role # Scope /\ Role # Rule /\ Role # User
  /\ Scope # Rule /\ Scope # User /\ Rule # User
BY SetAssumption DEF Kinds, Id

\* A row is there; what the program counters tell.
LEMMA Distinct ==
  /\ \A r \in Row : r # NoRow /\ r # Deleted
  /\ NoRow # Deleted
  /\ Idle.pc = "idle"
  /\ "idle" \notin WritePC \cup DropPC \cup AuthPC
  /\ WritePC \cap DropPC = {} /\ WritePC \cap AuthPC = {} /\ DropPC \cap AuthPC = {}
BY DEF Row, NoRow, Deleted, Idle, WritePC, DropPC, AuthPC

\* What is in use in an area.
LEMMA Areal ==
  ASSUME Typed
  PROVE  /\ area.ops \subseteq Op /\ area.ids \subseteq Id /\ area.names \subseteq Name
         /\ area.there \subseteq Id /\ area.on \subseteq BOOLEAN
BY AreaAssumption DEF Typed

\* Every step is of one of these kinds.
LEMMA StepKinds ==
  ASSUME Typed, Next
  PROVE  \E q \in Request :
           \/ BeginStep(q) \/ CheckStep(q) \/ LoginStep(q) \/ Abort(q)
           \/ \E x \in Id : InsertRow(q, x)
           \/ UpdateRow(q) \/ ReplaceLinks(q) \/ DeleteRow(q) \/ DeleteStep(q)
<1>1. PICK q \in Request : Next!(q)
  BY DEF Next
<1>2. BeginStep(q) \/ CheckStep(q) \/ LoginStep(q) \/ Abort(q)
        \/ (\E x \in area.ids : InsertRow(q, x))
        \/ UpdateRow(q) \/ ReplaceLinks(q) \/ DeleteRow(q) \/ DeleteStep(q)
  BY <1>1 DEF BeginStep, CheckStep, LoginStep, DeleteStep, Of
<1> QED BY <1>2, Areal

\* Where a handler is tells what it is.
LEMMA AtPlace ==
  ASSUME Typed, NEW q \in Request
  PROVE  /\ req[q].pc \in WritePC \cup DropPC => Proper(req[q])
         /\ req[q].pc \in AuthPC => req[q] \in Login
         /\ req[q] # Idle => Proper(req[q]) \/ req[q] \in Login
<1>1. req[q] = Idle \/ Proper(req[q]) \/ req[q] \in Login
  BY DEF Typed, HandlersTyped, Proper
<1>2. req[q] \in Login => req[q].pc \in AuthPC
  BY DEF Login
<1>3. Proper(req[q]) => req[q].pc \in WritePC \cup DropPC
  BY DEF Proper, Change
<1> QED BY <1>1, <1>2, <1>3, Distinct

\* A handler that moves to a proper place leaves the handlers typed.
LEMMA MoveTyped ==
  ASSUME Typed, NEW q \in Request, NEW h, req' = [req EXCEPT ![q] = h],
         h = Idle \/ Proper(h) \/ h \in Login
  PROVE  HandlersTyped' /\ \A p \in Request : req'[p] = IF p = q THEN h ELSE req[p]
BY DEF Typed, HandlersTyped, Proper

\* How a handler begins that is going to write: what it reads of the row it
\* is to update, and which checks it may leave out.
Fresh(h) ==
  /\ h.pc \in {"insert", "update", "replace"} => Holds(h) = {}
  /\ h.pc \in WritePC /\ h.pc # "name" /\ h.target = {} =>
       h.id \in h.kind /\ Live(h.id) /\ row[h.id].name = h.name
  /\ h.pc = "children" => h.kind = Menu
  /\ h.pc = "delete" => h.kind = User

\* The request to write a row.
LEMMA WriteBegins ==
  ASSUME Typed, NEW q \in Request, NEW op, NEW K \in Kinds, NEW x \in K \cup {None},
         NEW n \in Name, NEW p \in ParentOf(K), NEW on \in BOOLEAN,
         NEW L \in SUBSET RolesOf(K), NEW next,
         next = IF K \in {Dept, Menu} THEN "parent"
                ELSE IF K = User THEN "ensure" ELSE "update",
         BeginWrite(q, op, K, x, n, p, on, L, next)
  PROVE  \E h : Begin(q, h) /\ Proper(h) /\ Fresh(h)
<1> DEFINE pc == IF x # None /\ row[x].name = n THEN next ELSE "name"
           h  == [pc |-> pc, kind |-> K, id |-> x, name |-> n, parent |-> p,
                  on |-> on, links |-> L, target |-> {}]
<1>1. Begin(q, h) /\ (x # None => x \in K /\ Live(x))
  BY DEF BeginWrite
<1>2. pc \in WritePC /\ pc \in {"name", "parent", "ensure", "update"}
  BY DEF WritePC
<1>3. pc # "name" => x \in K /\ Live(x) /\ row[x].name = n /\ pc = next
  BY <1>1
<1>4. K \subseteq Id /\ p \in Dept \cup Menu \cup {None} /\ L \subseteq Id
  BY Apart DEF ParentOf, RolesOf, Kinds
<1>5. h \in Change
  BY <1>2, <1>4 DEF Change
<1>6. WritesRow(h)
  BY <1>2, <1>3 DEF WritesRow
<1>7. pc = "update" => p = None /\ L = {}
  BY <1>3, Apart DEF ParentOf, RolesOf
<1>8. Fresh(h)
  BY <1>2, <1>3, <1>7 DEF Fresh, Holds
<1> HIDE DEF h, pc
<1>9. Proper(h)
  BY <1>5, <1>6, Distinct DEF Proper, Ready, h, WritesRow
<1> QED BY <1>1, <1>8, <1>9

\* The request to replace links.
LEMMA LinksBegin ==
  ASSUME Typed, NEW q \in Request, NEW op, NEW K, NEW T, <<K, T>> \in Linked,
         NEW x \in K, NEW L \in SUBSET T, BeginLinks(q, op, K, x, T, L)
  PROVE  \E h : Begin(q, h) /\ Proper(h) /\ Fresh(h)
<1> DEFINE h == [pc |-> "ensure", kind |-> K, id |-> x,
                 name |-> None, parent |-> None, on |-> TRUE,
                 links |-> L, target |-> T]
<1>1. Begin(q, h)
  BY DEF BeginLinks
<1>2. K \in Kinds /\ T \in Kinds /\ K \subseteq Id /\ T \subseteq Id /\ T # {}
  BY Apart DEF Linked, Kinds
<1>3. h \in Change
  BY <1>2 DEF Change, WritePC
<1>4. Ready(h)
  BY <1>2 DEF Ready, WritesLinks, WritePC
<1>5. Fresh(h)
  BY <1>2 DEF Fresh
<1> QED BY <1>1, <1>3, <1>4, <1>5 DEF Proper

\* The request to delete a row.
LEMMA DropBegins ==
  ASSUME Typed, NEW q \in Request, NEW op, NEW K, NEW x \in K, NEW pc,
         \/ K = Dept /\ pc = "users"
         \/ K = Menu /\ pc = "children"
         \/ K = User /\ pc = "delete",
         BeginDrop(q, op, K, x, pc)
  PROVE  \E h : Begin(q, h) /\ Proper(h) /\ Fresh(h)
<1> DEFINE h == [pc |-> pc, kind |-> K, id |-> x, name |-> None,
                 parent |-> None, on |-> TRUE, links |-> {}, target |-> {}]
<1>1. Begin(q, h)
  BY DEF BeginDrop
<1>2. K \in Kinds /\ K \subseteq Id /\ pc \in DropPC
  BY Apart DEF Kinds, DropPC
<1>3. h \in Change
  BY <1>2 DEF Change
<1>4. Ready(h)
  BY <1>2 DEF Ready, Deletes
<1>5. Fresh(h)
  BY <1>2, Distinct DEF Fresh, WritePC, DropPC
<1> QED BY <1>1, <1>3, <1>4, <1>5 DEF Proper

\* Every request begins like this.
LEMMA Begins ==
  ASSUME Typed, NEW q \in Request, BeginStep(q)
  PROVE  \E h : Begin(q, h) /\ Proper(h) /\ Fresh(h)
<1>0. /\ area.names \subseteq Name /\ area.on \subseteq BOOLEAN
      /\ \A K \in Kinds : Of(K) \subseteq K
      /\ {Dept, Menu, Role, Scope, Rule, User} \subseteq Kinds
  BY Areal DEF Of, Kinds
<1>1. ASSUME NEW n \in area.names, NEW on \in area.on,
             NEW x \in Of(Dept) \cup {None}, NEW p \in Of(Dept) \cup {None},
             WriteDept(q, x, n, p, on)
      PROVE  \E h : Begin(q, h) /\ Proper(h) /\ Fresh(h)
  <2>1. BeginWrite(q, "deptWrite", Dept, x, n, p, on, {}, "parent")
    BY <1>1 DEF WriteDept
  <2>2. x \in Dept \cup {None} /\ p \in ParentOf(Dept) /\ n \in Name /\ on \in BOOLEAN
    BY <1>0 DEF ParentOf
  <2> QED BY <1>0, <2>1, <2>2, WriteBegins
<1>2. ASSUME NEW n \in area.names, NEW on \in area.on,
             NEW x \in Of(Menu) \cup {None}, NEW p \in Of(Menu) \cup {None},
             WriteMenu(q, x, n, p, on)
      PROVE  \E h : Begin(q, h) /\ Proper(h) /\ Fresh(h)
  <2>1. BeginWrite(q, "menuWrite", Menu, x, n, p, on, {}, "parent")
    BY <1>2 DEF WriteMenu
  <2>2. x \in Menu \cup {None} /\ p \in ParentOf(Menu) /\ n \in Name /\ on \in BOOLEAN
    BY <1>0 DEF ParentOf
  <2> QED BY <1>0, <2>1, <2>2, WriteBegins
<1>3. ASSUME NEW K \in {Role, Scope, Rule}, NEW x \in Of(K) \cup {None}, NEW op,
             NEW n \in area.names, NEW on \in BOOLEAN,
             BeginWrite(q, op, K, x, n, None, on, {}, "update")
      PROVE  \E h : Begin(q, h) /\ Proper(h) /\ Fresh(h)
  <2>1. x \in K \cup {None} /\ None \in ParentOf(K) /\ n \in Name
    BY <1>0, Apart DEF ParentOf
  <2>2. K \notin {Dept, Menu} /\ K # User /\ K \in Kinds
    BY <1>0, Apart
  <2>3. {} \in SUBSET RolesOf(K)
    OBVIOUS
  <2>4. "update" = IF K \in {Dept, Menu} THEN "parent"
                   ELSE IF K = User THEN "ensure" ELSE "update"
    BY <2>2
  <2> QED BY <1>3, <2>1, <2>2, <2>3, <2>4, WriteBegins
<1>4. ASSUME NEW n \in area.names, NEW x \in Of(User) \cup {None},
             NEW d \in Of(Dept) \cup {None}, NEW L \in SUBSET Of(Role),
             WriteUser(q, x, n, d, L)
      PROVE  \E h : Begin(q, h) /\ Proper(h) /\ Fresh(h)
  <2>1. BeginWrite(q, "userWrite", User, x, n, d, TRUE, L, "ensure")
    BY <1>4 DEF WriteUser
  <2>2. /\ x \in User \cup {None} /\ d \in ParentOf(User) /\ n \in Name
        /\ L \in SUBSET RolesOf(User) /\ User \notin {Dept, Menu}
    BY <1>0, Apart DEF ParentOf, RolesOf
  <2> QED BY <1>0, <2>1, <2>2, WriteBegins
<1>5. ASSUME NEW x \in Of(Dept), DropDept(q, x)
      PROVE  \E h : Begin(q, h) /\ Proper(h) /\ Fresh(h)
  BY <1>0, <1>5, DropBegins DEF DropDept
<1>6. ASSUME NEW x \in Of(Menu), DropMenu(q, x)
      PROVE  \E h : Begin(q, h) /\ Proper(h) /\ Fresh(h)
  BY <1>0, <1>6, DropBegins DEF DropMenu
<1>7. ASSUME NEW x \in Of(User), DropUser(q, x)
      PROVE  \E h : Begin(q, h) /\ Proper(h) /\ Fresh(h)
  BY <1>0, <1>7, DropBegins DEF DropUser
<1>8. ASSUME NEW K, NEW T, <<K, T>> \in Linked, NEW x \in Of(K),
             NEW L \in SUBSET Of(T), NEW op, BeginLinks(q, op, K, x, T, L)
      PROVE  \E h : Begin(q, h) /\ Proper(h) /\ Fresh(h)
  <2>1. x \in K /\ L \in SUBSET T
    BY <1>0, <1>8 DEF Of
  <2> QED BY <1>8, <2>1, LinksBegin
<1>9. CASE \E n \in area.names, on \in area.on :
             \/ \E x \in Of(Role) \cup {None} : WriteRole(q, x, n, on)
             \/ \E x \in Of(Scope) \cup {None} : WriteScope(q, x, n, on)
  BY <1>0, <1>3, <1>9 DEF WriteRole, WriteScope
<1>10. CASE \E n \in area.names : \E x \in Of(Rule) \cup {None} : WriteRule(q, x, n)
  BY <1>3, <1>10 DEF WriteRule
<1>11. CASE \/ \E x \in Of(Role), L \in SUBSET Of(Menu) : UpdateMenus(q, x, L)
            \/ \E x \in Of(Role), L \in SUBSET Of(Scope) : UpdateScopes(q, x, L)
            \/ \E x \in Of(Scope), L \in SUBSET Of(Rule) : UpdateRules(q, x, L)
  BY <1>8, <1>11 DEF UpdateMenus, UpdateScopes, UpdateRules, Linked
<1> QED
  BY <1>1, <1>2, <1>4, <1>5, <1>6, <1>7, <1>9, <1>10, <1>11 DEF BeginStep

\* How a handler goes on that has checked something: it is what it was, but
\* for the links that were dropped, and what it has seen is so.
Checked(q, h) ==
  LET g == req[q] IN
  /\ h.kind = g.kind /\ h.id = g.id /\ h.name = g.name /\ h.parent = g.parent
  /\ h.target = g.target /\ h.links \subseteq g.links /\ h.on = g.on
  /\ h.pc \in WritePC <=> g.pc \in WritePC
  /\ g.pc \in WritePC \cup DropPC /\ h.pc # "name"
  /\ g.pc = "name" /\ h.kind # Menu =>
       \A x \in h.kind : Live(x) => row[x].name # h.name
  /\ h.pc \in {"insert", "update", "replace"} => \A y \in Holds(h) : Live(y)
  /\ h.pc = "children" => \A u \in User : Live(u) => row[u].parent # h.id
  /\ h.pc = "delete" => /\ g.pc = "children"
                       /\ \A x \in Dept \cup Menu : Live(x) => row[x].parent # h.id

\* Every check is like this.
LEMMA Checks ==
  ASSUME Typed, NEW q \in Request, CheckStep(q)
  PROVE  \E h : /\ req' = [req EXCEPT ![q] = h]
                /\ Proper(h) /\ Checked(q, h)
                /\ UNCHANGED <<area, row, link, raced, disturbed>>
<1> DEFINE g == req[q]
<1>0. Proper(g) /\ g.pc \in WritePC \cup DropPC
  BY AtPlace DEF CheckStep, FindName, FindParent, EnsureLinks, KnownLinks,
     FindUsers, FindChildren, WritePC, DropPC
<1>1. ASSUME NEW pc \in WritePC \cup DropPC
      PROVE  /\ [g EXCEPT !.pc = pc] \in Change
             /\ [g EXCEPT !.pc = pc].pc = pc /\ [g EXCEPT !.pc = pc].kind = g.kind
             /\ [g EXCEPT !.pc = pc].id = g.id /\ [g EXCEPT !.pc = pc].name = g.name
             /\ [g EXCEPT !.pc = pc].parent = g.parent
             /\ [g EXCEPT !.pc = pc].links = g.links
             /\ [g EXCEPT !.pc = pc].on = g.on
             /\ [g EXCEPT !.pc = pc].target = g.target
  BY <1>0 DEF Proper, Change
<1>2. CASE FindName(q)
  <2> DEFINE pc == IF g.kind \in {Dept, Menu} THEN "parent"
                   ELSE IF g.kind = User THEN "ensure"
                   ELSE IF g.id = None THEN "insert" ELSE "update"
             h == [g EXCEPT !.pc = pc]
  <2>1. pc \in WritePC /\ pc # "name" /\ pc # "replace"
    BY DEF WritePC
  <2>2. /\ h \in Change /\ h.pc = pc /\ h.kind = g.kind /\ h.id = g.id
        /\ h.name = g.name /\ h.parent = g.parent /\ h.links = g.links
        /\ h.on = g.on /\ h.target = g.target
    BY <1>1, <2>1
  <2>3. /\ g.pc = "name" /\ g.pc \in WritePC
        /\ \A x \in g.kind \ Menu : Live(x) => row[x].name # g.name
        /\ req' = [req EXCEPT ![q] = h]
        /\ UNCHANGED <<area, row, link, raced, disturbed>>
    BY <1>2 DEF FindName, Step, Goto, WritePC
  <2>4. g.target = {} /\ WritesRow(g)
    BY <1>0, <2>3, Distinct DEF Proper, Ready, WritesLinks, Deletes
  <2>5. g.kind \in Kinds /\ pc \in {"insert", "update"} => g.kind \in {Role, Scope, Rule}
    BY DEF Kinds
  <2>6. g.kind \in Kinds
    BY <1>0 DEF Proper, Change
  <2>7. pc \in {"insert", "update"} => g.parent = None /\ g.links = {}
    BY <2>4, <2>5, <2>6, Apart DEF WritesRow, ParentOf, RolesOf
  <2>8. \A x \in g.kind : g.kind # Menu /\ Live(x) => row[x].name # g.name
    BY <2>3, <2>6, Apart DEF Kinds
  <2>9. pc = "insert" => g.id = None
    OBVIOUS
  <2>10. pc = "update" => g.id \in g.kind
    BY <2>4 DEF WritesRow
  <2>11. pc = "parent" => g.kind \in {Dept, Menu}
    OBVIOUS
  <2>12. pc \in {"ensure", "known"} => g.kind = User
    OBVIOUS
  <2> HIDE DEF h, pc
  <2>13. WritesRow(h)
    BY <2>1, <2>2, <2>4, <2>9, <2>10, <2>11, <2>12 DEF WritesRow
  <2>14. Holds(h) = {} \/ h.pc \notin {"insert", "update", "replace"}
    BY <2>1, <2>2, <2>4, <2>7 DEF Holds
  <2>15. Proper(h)
    BY <2>1, <2>2, <2>4, <2>13 DEF Proper, Ready
  <2>16. h.pc \notin DropPC
    BY <2>1, <2>2, Distinct
  <2>17. Checked(q, h)
    BY <2>1, <2>2, <2>3, <2>8, <2>14, <2>16 DEF Checked, DropPC
  <2> QED BY <2>3, <2>15, <2>17
<1>3. CASE FindParent(q)
  <2> DEFINE pc == IF g.id = None THEN "insert" ELSE "update"
             h == [g EXCEPT !.pc = pc]
  <2>1. pc \in WritePC /\ pc # "name" /\ pc # "replace" /\ pc \in {"insert", "update"}
    BY DEF WritePC
  <2>2. /\ h \in Change /\ h.pc = pc /\ h.kind = g.kind /\ h.id = g.id
        /\ h.name = g.name /\ h.parent = g.parent /\ h.links = g.links
        /\ h.on = g.on /\ h.target = g.target
    BY <1>1, <2>1
  <2>3. /\ g.pc = "parent" /\ g.pc \in WritePC /\ g.pc # "name"
        /\ g.parent # None => Live(g.parent)
        /\ req' = [req EXCEPT ![q] = h]
        /\ UNCHANGED <<area, row, link, raced, disturbed>>
    BY <1>3 DEF FindParent, Step, Goto, WritePC
  <2>4. g.target = {} /\ WritesRow(g)
    BY <1>0, <2>3, Distinct DEF Proper, Ready, WritesLinks, Deletes
  <2>5. g.links = {}
    BY <2>3, <2>4, Apart DEF WritesRow, RolesOf
  <2>6. pc = "insert" => g.id = None
    OBVIOUS
  <2>7. pc = "update" => g.id \in g.kind
    BY <2>4 DEF WritesRow
  <2> HIDE DEF h, pc
  <2>8. WritesRow(h)
    BY <2>1, <2>2, <2>4, <2>6, <2>7 DEF WritesRow
  <2>9. \A y \in Holds(h) : Live(y)
    BY <2>1, <2>2, <2>3, <2>4, <2>5 DEF Holds
  <2>10. Proper(h)
    BY <2>1, <2>2, <2>4, <2>8 DEF Proper, Ready
  <2>11. h.pc \notin DropPC
    BY <2>1, <2>2, Distinct
  <2>12. Checked(q, h)
    BY <2>1, <2>2, <2>3, <2>9, <2>11 DEF Checked, DropPC
  <2> QED BY <2>3, <2>10, <2>12
<1>4. CASE EnsureLinks(q)
  <2> DEFINE h == [g EXCEPT !.pc = "known"]
  <2>1. "known" \in WritePC
    BY DEF WritePC
  <2>2. /\ h \in Change /\ h.pc = "known" /\ h.kind = g.kind /\ h.id = g.id
        /\ h.name = g.name /\ h.parent = g.parent /\ h.links = g.links
        /\ h.on = g.on /\ h.target = g.target
    BY <1>1, <2>1
  <2>3. /\ g.pc = "ensure" /\ g.pc \in WritePC /\ g.pc # "name"
        /\ req' = [req EXCEPT ![q] = h]
        /\ UNCHANGED <<area, row, link, raced, disturbed>>
    BY <1>4 DEF EnsureLinks, Step, Goto, WritePC
  <2> HIDE DEF h
  <2>4. ~Deletes(g)
    BY <2>3, Distinct DEF Deletes
  <2>5. Ready(h)
    BY <1>0, <2>1, <2>2, <2>3, <2>4 DEF Proper, Ready, WritesRow, WritesLinks
  <2>6. h.pc \notin DropPC
    BY <2>1, <2>2, Distinct
  <2>7. Checked(q, h)
    BY <2>1, <2>2, <2>3, <2>6 DEF Checked, DropPC
  <2> QED BY <2>2, <2>3, <2>5, <2>7 DEF Proper
<1>5. CASE KnownLinks(q)
  <2> DEFINE pc == IF g.target # {} THEN "replace"
                   ELSE IF g.id = None THEN "insert" ELSE "update"
             L == {y \in g.links : Live(y)}
             h == [g EXCEPT !.pc = pc, !.links = L]
  <2>1. pc \in WritePC /\ pc # "name" /\ pc \in {"insert", "update", "replace"}
    BY DEF WritePC
  <2>2. /\ h \in Change /\ h.pc = pc /\ h.kind = g.kind /\ h.id = g.id
        /\ h.name = g.name /\ h.parent = g.parent /\ h.links = L
        /\ h.on = g.on /\ h.target = g.target
    BY <1>0, <2>1 DEF Proper, Change
  <2>3. /\ g.pc = "known" /\ g.pc \in WritePC /\ g.pc # "name"
        /\ g.target # {} => Live(g.id)
        /\ g.parent # None => Live(g.parent)
        /\ req' = [req EXCEPT ![q] = h]
        /\ UNCHANGED <<area, row, link, raced, disturbed>>
    BY <1>5 DEF KnownLinks, WritePC
  <2>4. ~Deletes(g) /\ L \subseteq g.links /\ \A y \in L : Live(y)
    BY <2>3, Distinct DEF Deletes
  <2>5. \/ g.target = {} /\ pc = "insert" /\ g.id = None
        \/ g.target = {} /\ pc = "update" /\ g.id # None
        \/ g.target # {} /\ pc = "replace"
    OBVIOUS
  <2> HIDE DEF h, pc, L
  <2>6. Ready(h)
    BY <1>0, <2>1, <2>2, <2>3, <2>4, <2>5 DEF Proper, Ready, WritesRow, WritesLinks
  <2>7. \A y \in Holds(h) : Live(y)
    BY <2>1, <2>2, <2>3, <2>4 DEF Holds
  <2>8. h.pc \notin DropPC
    BY <2>1, <2>2, Distinct
  <2>9. Checked(q, h)
    BY <2>1, <2>2, <2>3, <2>4, <2>7, <2>8 DEF Checked, DropPC
  <2> QED BY <2>2, <2>3, <2>6, <2>9 DEF Proper
<1>6. CASE FindUsers(q) \/ FindChildren(q)
  <2> DEFINE pc == IF g.pc = "users" THEN "children" ELSE "delete"
             h == [g EXCEPT !.pc = pc]
  <2>1. pc \in DropPC
    BY DEF DropPC
  <2>2. /\ h \in Change /\ h.pc = pc /\ h.kind = g.kind /\ h.id = g.id
        /\ h.name = g.name /\ h.parent = g.parent /\ h.links = g.links
        /\ h.on = g.on /\ h.target = g.target
    BY <1>1, <2>1
  <2>3. /\ g.pc \in {"users", "children"} /\ g.pc \in DropPC
        /\ g.pc = "users" =>
             pc = "children" /\ \A u \in User : Live(u) => row[u].parent # g.id
        /\ g.pc = "children" =>
             pc = "delete" /\ \A x \in Dept \cup Menu : Live(x) => row[x].parent # g.id
        /\ req' = [req EXCEPT ![q] = h]
        /\ UNCHANGED <<area, row, link, raced, disturbed>>
    BY <1>6 DEF FindUsers, FindChildren, Step, Goto, DropPC
  <2> HIDE DEF h, pc
  <2>4. Deletes(g)
    BY <1>0, <2>3, Distinct DEF Proper, Ready
  <2>5. Deletes(h)
    BY <2>1, <2>2, <2>3, <2>4 DEF Deletes
  <2>6. h.pc \notin WritePC /\ g.pc \notin WritePC
    BY <2>1, <2>2, <2>3, Distinct
  <2>7. Checked(q, h)
    BY <2>1, <2>2, <2>3, <2>6 DEF Checked, WritePC
  <2> QED BY <2>2, <2>3, <2>5, <2>7 DEF Proper, Ready
<1> QED BY <1>2, <1>3, <1>4, <1>5, <1>6 DEF CheckStep

\* A handler that is about to write a row, or to replace links.
LEMMA AtWrite ==
  ASSUME Typed, NEW q \in Request
  PROVE  /\ req[q].pc \in {"insert", "update"} =>
              Proper(req[q]) /\ req[q].target = {} /\ WritesRow(req[q])
         /\ req[q].pc = "replace" =>
              Proper(req[q]) /\ req[q].target # {} /\ WritesLinks(req[q])
         /\ req[q].pc \in DropPC => Proper(req[q]) /\ Deletes(req[q])
BY AtPlace, Distinct DEF Proper, Ready, WritesRow, WritesLinks, Deletes, WritePC, DropPC

\* What is written is a row with a proper parent.
LEMMA WrittenRow ==
  ASSUME Typed, NEW q \in Request, req[q].pc \in {"insert", "update"}
  PROVE  /\ req[q].kind \in Kinds
         /\ Written(req[q]) \in Row /\ Written(req[q]).name = req[q].name
         /\ Written(req[q]).parent = req[q].parent
         /\ req[q].parent \in ParentOf(req[q].kind)
         /\ \A x \in req[q].kind : {x} \X req[q].links \subseteq Links
<1>1. /\ Proper(req[q]) /\ req[q].kind \in Kinds /\ WritesRow(req[q])
      /\ req[q].on \in BOOLEAN
  BY AtWrite DEF Proper, Change
<1>2. req[q].parent \in Dept \cup Menu \cup {None} /\ req[q].name \in Name
  BY <1>1 DEF Proper, Change, WritesRow
<1>3. Written(req[q]) \in Row
  BY <1>1, <1>2 DEF Written, Row
<1>4. \A x \in req[q].kind : {x} \X req[q].links \subseteq Links
  BY <1>1 DEF WritesRow, RolesOf, Links
<1> QED BY <1>1, <1>3, <1>4 DEF Written, WritesRow

\* A row that is written, or deleted, leaves the tables typed.
LEMMA RowsMove ==
  ASSUME Typed, NEW K \in Kinds, NEW x \in K, NEW r \in {Deleted} \cup Row,
         r # Deleted => r.parent \in ParentOf(K), row' = [row EXCEPT ![x] = r]
  PROVE  RowsTyped'
<1>0. x \in Id
  BY Apart
<1>1. row' \in [Id -> {NoRow, Deleted} \cup Row]
  BY <1>0 DEF Typed, RowsTyped
<1>2. ASSUME NEW L \in Kinds, NEW y \in L, Live(y)'
      PROVE  row'[y].parent \in ParentOf(L)
  <2>1. y \in Id
    BY Apart
  <2>2. CASE y = x
    BY <1>0, <1>2, <2>2, Apart DEF Live, Typed, RowsTyped
  <2>3. CASE y # x
    BY <1>2, <2>1, <2>3 DEF Live, Typed, RowsTyped
  <2> QED BY <2>2, <2>3
<1> QED BY <1>1, <1>2 DEF RowsTyped

\* A handler that returns after a write.
LEMMA WriteTyped ==
  ASSUME Typed, NEW q \in Request, Write(q)
  PROVE  /\ area' \in Areas /\ HandlersTyped' /\ disturbed' \subseteq Request
         /\ \A p \in Request : req'[p] = IF p = q THEN Idle ELSE req[p]
<1>1. req' = [req EXCEPT ![q] = Idle]
  BY DEF Write, Return
<1>2. HandlersTyped' /\ \A p \in Request : req'[p] = IF p = q THEN Idle ELSE req[p]
  BY <1>1, MoveTyped
<1> QED BY <1>2 DEF Write, Typed

\* What the transactions that delete several rows do.
LEMMA Deletions ==
  ASSUME Typed, NEW q \in Request, DeleteStep(q)
  PROVE  \E K \in {Role, Scope, Rule} : \E S \in SUBSET K :
           /\ req[q] = Idle /\ Write(q)
           /\ row' = [x \in Id |-> IF x \in S /\ Live(x) THEN Deleted ELSE row[x]]
           /\ link' = {l \in link : l[1] \notin S /\ l[2] \notin S}
           /\ raced' = raced \cup UNION {Holds(req[p]) \cap S : p \in Request}
BY DEF DeleteStep, DeleteRows

\* Reads of a login keep it typed.
LEMMA LoginTyped ==
  ASSUME Typed, NEW q \in Request, LoginStep(q)
  PROVE  \E h \in Login : /\ req' = [req EXCEPT ![q] = h]
                         /\ UNCHANGED <<area, row, link, raced, disturbed>>
<1>0. ASSUME req[q].pc \in AuthPC
      PROVE  /\ req[q] \in Login /\ req[q].id \in User
             /\ req[q].roles \subseteq Role /\ req[q].left \subseteq Role
             /\ req[q].enabled \subseteq Role /\ req[q].perms \subseteq Role \X Menu
  BY <1>0, AtPlace DEF Login
<1>1. ASSUME NEW u \in User, BeginAuthenticate(q, u)
      PROVE  \E h \in Login : /\ req' = [req EXCEPT ![q] = h]
                             /\ UNCHANGED <<area, row, link, raced, disturbed>>
  <2>1. row[u].parent \in Dept \cup {None}
    <3>1. Live(u) /\ User \in Kinds
      BY <1>1 DEF BeginAuthenticate, Kinds
    <3> QED BY <3>1, Apart DEF Typed, RowsTyped, ParentOf
  <2>2. [pc |-> "dept", id |-> u, dept |-> row[u].parent, roles |-> {},
         left |-> {}, enabled |-> {}, perms |-> {}] \in Login
    BY <2>1 DEF Login, AuthPC
  <2> QED BY <1>1, <2>2 DEF BeginAuthenticate
<1>2. CASE EnsureUserDeptAllowed(q)
  <2>1. req[q] \in Login
    BY <1>0, <1>2 DEF EnsureUserDeptAllowed, AuthPC
  <2>2. [req[q] EXCEPT !.pc = "roles"] \in Login
    BY <2>1 DEF Login, AuthPC
  <2> QED BY <1>2, <2>2 DEF EnsureUserDeptAllowed, Step, Goto
<1>3. CASE UserRoles(q)
  <2> DEFINE R == LinksOf(req[q].id, Role)
  <2>1. req[q] \in Login
    BY <1>0, <1>3 DEF UserRoles, AuthPC
  <2>2. R \subseteq Role /\ {r \in R : row[r].on} \subseteq Role
    BY DEF LinksOf
  <2>3. [req[q] EXCEPT !.pc = "menus", !.roles = R, !.left = R,
                       !.enabled = {r \in R : row[r].on}] \in Login
    BY <2>1, <2>2 DEF Login, AuthPC
  <2> QED BY <1>3, <2>3 DEF UserRoles
<1>4. ASSUME NEW r \in Role, RoleMenus(q, r)
      PROVE  \E h \in Login : /\ req' = [req EXCEPT ![q] = h]
                             /\ UNCHANGED <<area, row, link, raced, disturbed>>
  <2> DEFINE M == {r} \X {m \in LinksOf(r, Menu) : row[m].on}
             h == [req[q] EXCEPT !.left = @ \ {r}, !.perms = @ \cup M]
  <2>1. /\ req[q] \in Login /\ req[q].left \subseteq Role
        /\ req[q].perms \subseteq Role \X Menu
    BY <1>0, <1>4 DEF RoleMenus, AuthPC
  <2>2. M \subseteq Role \X Menu
    BY DEF LinksOf
  <2>3. req' = [req EXCEPT ![q] = h]
        /\ UNCHANGED <<area, row, link, raced, disturbed>>
    BY <1>4 DEF RoleMenus
  <2> HIDE DEF M
  <2>4. h \in Login
    BY <2>1, <2>2 DEF Login
  <2> HIDE DEF h
  <2> QED BY <2>3, <2>4
<1>5. CASE EnsureUserRolesAllowed(q)
  <2> DEFINE M == {p \in req[q].perms : p[1] \in req[q].enabled}
             h == [req[q] EXCEPT !.pc = "granted", !.perms = M]
  <2>1. /\ req[q] \in Login /\ M \subseteq Role \X Menu
    BY <1>0, <1>5 DEF EnsureUserRolesAllowed, AuthPC
  <2>2. req' = [req EXCEPT ![q] = h]
        /\ UNCHANGED <<area, row, link, raced, disturbed>>
    BY <1>5 DEF EnsureUserRolesAllowed
  <2> HIDE DEF M
  <2>3. h \in Login
    BY <2>1 DEF Login, AuthPC
  <2> HIDE DEF h
  <2> QED BY <2>2, <2>3
<1> QED BY <1>1, <1>2, <1>3, <1>4, <1>5 DEF LoginStep

\* The initial states are typed.
LEMMA TypedInit ==
  ASSUME Init
  PROVE  Typed
<1>1. area \in Areas /\ area.there \subseteq Id /\ area.names \subseteq Name
      /\ area.on \subseteq BOOLEAN
  BY AreaAssumption DEF Init
<1>2. PICK name \in [area.there -> area.names], on \in [area.there -> area.on] :
        row = [x \in Id |->
            IF x \in area.there
            THEN [name |-> name[x], parent |-> None, on |-> on[x]] ELSE NoRow]
  BY DEF Init
<1>3. \A x \in Id :
        row[x] = NoRow \/ (row[x] \in Row /\ row[x].parent = None)
  BY <1>1, <1>2 DEF Row
<1>4. RowsTyped
  <2>1. row \in [Id -> {NoRow, Deleted} \cup Row]
    BY <1>2, <1>3
  <2>2. \A K \in Kinds : None \in ParentOf(K)
    BY DEF ParentOf
  <2> QED BY <1>3, <2>1, <2>2, Apart DEF RowsTyped, Live
<1>5. link \subseteq Links
  BY DEF Init, Links
<1> QED BY <1>1, <1>4, <1>5 DEF Init, Typed, HandlersTyped

\* Every step keeps the types.
LEMMA TypedStep ==
  ASSUME Typed, [Next]_vars
  PROVE  Typed'
<1>1. CASE UNCHANGED vars
  BY <1>1 DEF vars, Typed, RowsTyped, HandlersTyped, Live
<1>2. ASSUME UNCHANGED <<row, link>>, area' = area, HandlersTyped', raced' \subseteq Id,
             disturbed' \subseteq Request
      PROVE  Typed'
  BY <1>2 DEF Typed, RowsTyped, Live
<1>3. ASSUME NEW q \in Request, BeginStep(q)
      PROVE  Typed'
  <2>1. PICK h : Begin(q, h) /\ Proper(h)
    BY <1>3, Begins
  <2>2. HandlersTyped' /\ UNCHANGED <<area, row, link, disturbed>>
    BY <2>1, MoveTyped DEF Begin
  <2>3. raced' \subseteq Id
    <3>1. \A g : Proper(g) => Drops(g) \subseteq Id
      BY Apart DEF Proper, Change, Drops, Ready, Deletes, WritePC, DropPC
    <3>2. Drops(Idle) = {} /\ \A g \in Login : Drops(g) = {}
      BY Distinct DEF Drops, Login
    <3>3. Drops(h) \subseteq Id /\ \A p \in Request : Drops(req[p]) \subseteq Id
      BY <2>1, <3>1, <3>2, AtPlace
    <3> DEFINE A == UNION {Holds(h) \cap Drops(req[p]) : p \in Request}
               B == UNION {Drops(h) \cap Holds(req[p]) : p \in Request}
    <3>4. A \subseteq Id
      BY <3>3
    <3>5. B \subseteq Id
      BY <3>3
    <3>6. raced' = raced \cup A \cup B
      BY <2>1 DEF Begin
    <3>7. raced \subseteq Id
      BY DEF Typed
    <3> HIDE DEF A, B
    <3> QED BY <3>4, <3>5, <3>6, <3>7
  <2> QED BY <1>2, <2>2, <2>3 DEF Typed
<1>4. ASSUME NEW q \in Request, CheckStep(q)
      PROVE  Typed'
  <2>1. PICK h : /\ req' = [req EXCEPT ![q] = h] /\ Proper(h)
                 /\ UNCHANGED <<area, row, link, raced, disturbed>>
    BY <1>4, Checks
  <2>2. HandlersTyped'
    BY <2>1, MoveTyped
  <2> QED BY <1>2, <2>1, <2>2 DEF Typed
<1>5. ASSUME NEW q \in Request, LoginStep(q)
      PROVE  Typed'
  <2>1. PICK h \in Login : /\ req' = [req EXCEPT ![q] = h]
                           /\ UNCHANGED <<area, row, link, raced, disturbed>>
    BY <1>5, LoginTyped
  <2>2. HandlersTyped'
    BY <2>1, MoveTyped
  <2> QED BY <1>2, <2>1, <2>2 DEF Typed
<1>6. ASSUME NEW q \in Request, Abort(q)
      PROVE  Typed'
  <2>1. HandlersTyped'
    BY <1>6, MoveTyped DEF Abort, Return
  <2> QED BY <1>2, <1>6, <2>1 DEF Typed, Abort
<1>7. ASSUME NEW q \in Request, NEW x \in Id, InsertRow(q, x)
      PROVE  Typed'
  <2>1. /\ req[q].pc = "insert" /\ x \in req[q].kind
        /\ row' = [row EXCEPT ![x] = Written(req[q])]
        /\ link' = link \cup ({x} \X req[q].links) /\ Write(q) /\ raced' = raced
    BY <1>7 DEF InsertRow
  <2>2. RowsTyped' /\ link' \subseteq Links
    BY <2>1, WrittenRow, RowsMove DEF Typed
  <2> QED BY <2>1, <2>2, WriteTyped DEF Typed
<1>8. ASSUME NEW q \in Request, UpdateRow(q)
      PROVE  Typed'
  <2>1. /\ req[q].pc = "update" /\ row' = [row EXCEPT ![req[q].id] = Written(req[q])]
        /\ link' \subseteq link \cup ({req[q].id} \X req[q].links)
        /\ Write(q) /\ raced' = raced
    BY <1>8 DEF UpdateRow
  <2>2. req[q].id \in req[q].kind
    BY <2>1, AtWrite DEF WritesRow
  <2>3. RowsTyped' /\ link' \subseteq Links
    BY <2>1, <2>2, WrittenRow, RowsMove DEF Typed
  <2> QED BY <2>1, <2>3, WriteTyped DEF Typed
<1>9. ASSUME NEW q \in Request, ReplaceLinks(q)
      PROVE  Typed'
  <2>1. /\ req[q].pc = "replace" /\ link' \subseteq link \cup ({req[q].id} \X req[q].links)
        /\ Write(q) /\ UNCHANGED <<row, raced>>
    BY <1>9 DEF ReplaceLinks
  <2>2. WritesLinks(req[q])
    BY <2>1, AtWrite
  <2>3. {req[q].id} \X req[q].links \subseteq Links
    BY <2>2 DEF WritesLinks, Linked, Links
  <2> QED BY <2>1, <2>3, WriteTyped DEF Typed, RowsTyped, Live
<1>10. ASSUME NEW q \in Request, DeleteRow(q)
       PROVE  Typed'
  <2>1. /\ req[q].pc = "delete" /\ row' = [row EXCEPT ![req[q].id] = Deleted]
        /\ link' \subseteq link /\ Write(q) /\ raced' = raced
    BY <1>10 DEF DeleteRow
  <2>2. req[q].id \in req[q].kind /\ req[q].kind \in Kinds
    BY <2>1, AtWrite DEF Deletes, DropPC, Proper, Change
  <2>3. RowsTyped'
    BY <2>1, <2>2, RowsMove
  <2> QED BY <2>1, <2>3, WriteTyped DEF Typed
<1>11. ASSUME NEW q \in Request, DeleteStep(q)
       PROVE  Typed'
  <2>1. PICK K \in {Role, Scope, Rule} : \E S \in SUBSET K :
           /\ req[q] = Idle /\ Write(q)
           /\ row' = [x \in Id |-> IF x \in S /\ Live(x) THEN Deleted ELSE row[x]]
           /\ link' = {l \in link : l[1] \notin S /\ l[2] \notin S}
           /\ raced' = raced \cup UNION {Holds(req[p]) \cap S : p \in Request}
    BY <1>11, Deletions
  <2>2. PICK S \in SUBSET K :
           /\ Write(q) /\ link' \subseteq link
           /\ row' = [x \in Id |-> IF x \in S /\ Live(x) THEN Deleted ELSE row[x]]
           /\ raced' = raced \cup UNION {Holds(req[p]) \cap S : p \in Request}
    BY <2>1
  <2>3. K \subseteq Id
    BY Apart DEF Kinds
  <2>4. raced' \subseteq Id
    BY <2>2, <2>3 DEF Typed
  <2>5. \A x \in Id : row'[x] = Deleted \/ row'[x] = row[x]
    BY <2>2
  <2>6. RowsTyped'
    <3>1. row' \in [Id -> {NoRow, Deleted} \cup Row]
      BY <2>2 DEF Typed, RowsTyped
    <3> QED BY <2>5, <3>1, Apart DEF Typed, RowsTyped, Live
  <2> QED BY <2>2, <2>4, <2>6, WriteTyped DEF Typed
<1> QED
  BY <1>1, <1>3, <1>4, <1>5, <1>6, <1>7, <1>8, <1>9, <1>10, <1>11, StepKinds

\* Only an update tells whether a row was moved below its own subtree.
LEMMA LoopedByUpdates ==
  ASSUME Typed, Next
  PROVE  looped' = looped \/ \E q \in Request : UpdateRow(q)
<1>1. ASSUME NEW q \in Request, BeginStep(q)
      PROVE  looped' = looped
  BY <1>1, Begins DEF Begin
<1>2. ASSUME NEW q \in Request, CheckStep(q) \/ LoginStep(q) \/ Abort(q)
      PROVE  looped' = looped
  BY <1>2 DEF CheckStep, LoginStep, FindName, FindParent, EnsureLinks,
     KnownLinks, FindUsers, FindChildren, Step, BeginAuthenticate,
     EnsureUserDeptAllowed, UserRoles, RoleMenus, EnsureUserRolesAllowed, Abort
<1>3. ASSUME NEW q \in Request,
             \/ \E x \in Id : InsertRow(q, x)
             \/ ReplaceLinks(q) \/ DeleteRow(q) \/ DeleteStep(q)
      PROVE  looped' = looped
  BY <1>3 DEF InsertRow, ReplaceLinks, DeleteRow, DeleteStep, DeleteRows
<1> QED BY <1>1, <1>2, <1>3, StepKinds

\* Rows, links and handlers are well-typed in every reachable state: what a
\* handler has at each place is of the table it is about.
THEOREM TypeCorrect == Spec => []TypeOK
<1>1. Typed /\ looped \subseteq Id => TypeOK
  BY DEF Typed, RowsTyped, HandlersTyped, Links, Change, Login, Handler, TypeOK
<1>2. Init => looped \subseteq Id
  BY DEF Init
<1>3. Typed /\ looped \subseteq Id /\ [Next]_vars => (looped \subseteq Id)'
  <2>1. CASE UNCHANGED vars
    BY <2>1 DEF vars
  <2>2. ASSUME Typed, Next PROVE looped' \subseteq looped \cup Id
    <3>1. ASSUME NEW q \in Request, UpdateRow(q)
          PROVE  req[q].id \in Id
      <4>1. req[q].pc = "update"
        BY <3>1 DEF UpdateRow
      <4>2. req[q].id \in req[q].kind /\ req[q].kind \in Kinds
        BY <2>2, <4>1, AtWrite DEF WritesRow, Proper, Change
      <4> QED BY <4>2, Apart
    <3>2. CASE looped' = looped
      BY <3>2
    <3>3. ASSUME NEW q \in Request, UpdateRow(q)
          PROVE  looped' \subseteq looped \cup {req[q].id}
      BY <3>3 DEF UpdateRow
    <3> QED BY <2>2, <3>1, <3>2, <3>3, LoopedByUpdates
  <2> QED BY <2>1, <2>2
<1> QED BY <1>1, <1>2, <1>3, TypedInit, TypedStep, PTL DEF Spec

-----------------------------------------------------------------------------
(* What is left behind.  An id that one handler is about to refer to while *)
(* another is about to delete it has raced; so a checked reference can only *)
(* be lost to a race, and a deletion that has found nothing below its row  *)
(* can only be followed by a new reference that has raced.                 *)

Overlaps ==
  \A q, p \in Request : Holds(req[q]) \cap Drops(req[p]) \subseteq raced

\* What a handler past its checks refers to.
References(q) ==
  req[q].pc \in {"insert", "update", "replace"} =>
    \A y \in Holds(req[q]) : row[y] = Deleted => y \in raced

\* What a handler that is about to delete has not found.
Emptied(q) ==
  req[q].pc \in {"children", "delete"} =>
    \A x \in Id : /\ Live(x) /\ row[x].parent = req[q].id
                  /\ x \in User \/ req[q].pc = "delete"
                  => req[q].id \in raced

Parents ==
  \A x \in Id : Live(x) => \A p \in {row[x].parent} \ {None} :
    row[p] = Deleted => p \in raced
LinksKept ==
  \A l \in link : \A x \in {l[1], l[2]} : row[x] = Deleted => x \in raced

Races == /\ Overlaps /\ Parents /\ LinksKept
         /\ \A q \in Request : References(q) /\ Emptied(q)

\* Parents are departments or menus.
LEMMA ParentsAre ==
  ASSUME Typed, NEW x \in Id, Live(x)
  PROVE  /\ row[x] \in Row
         /\ row[x].parent \in Dept \cup Menu \cup {None}
         /\ x \in User => row[x].parent \in Dept \cup {None}
         /\ x \notin Dept \cup Menu \cup User => row[x].parent = None
<1>1. row[x] \in Row
  BY DEF Typed, RowsTyped, Live
<1>2. PICK K \in Kinds : x \in K
  BY DEF Kinds, Id
<1>3. row[x].parent \in ParentOf(K)
  BY <1>2 DEF Typed, RowsTyped
<1>4. /\ User \in Kinds
      /\ x \in User => K = User
      /\ x \notin Dept \cup Menu \cup User => K \notin {Dept, Menu, User}
  BY <1>2, Apart DEF Kinds
<1> QED BY <1>1, <1>2, <1>3, <1>4, Apart DEF Row, ParentOf

\* A step that changes no row or link, and moves one handler.
LEMMA QuietRaces ==
  ASSUME Typed, Races, NEW q \in Request, NEW h,
         \A p \in Request : req'[p] = IF p = q THEN h ELSE req[p],
         UNCHANGED <<row, link>>, raced \subseteq raced',
         \A p \in Request : /\ Holds(h) \cap Drops(req[p]) \subseteq raced'
                            /\ Holds(req[p]) \cap Drops(h) \subseteq raced',
         Holds(h) \cap Drops(h) = {},
         h.pc \in {"insert", "update", "replace"} =>
           \A y \in Holds(h) : row[y] = Deleted => y \in raced',
         h.pc \in {"children", "delete"} =>
           \A x \in Id : /\ Live(x) /\ row[x].parent = h.id
                         /\ x \in User \/ h.pc = "delete"
                         => h.id \in raced'
  PROVE  Races'
<1>1. Overlaps'
  BY DEF Races, Overlaps
<1>2. Parents' /\ LinksKept'
  BY DEF Races, Parents, LinksKept, Live
<1>3. ASSUME NEW p \in Request
      PROVE  References(p)' /\ Emptied(p)'
  BY DEF Races, References, Emptied, Live
<1> QED BY <1>1, <1>2, <1>3 DEF Races

\* A handler that is neither about to refer to a row nor to delete one.
LEMMA Nothing ==
  ASSUME NEW h, h = Idle \/ h \in Login
  PROVE  /\ Holds(h) = {} /\ Drops(h) = {}
         /\ h.pc \notin WritePC \cup DropPC
BY Distinct DEF Holds, Drops, Login

\* A row is written by a handler past its checks.
LEMMA WriteRaces ==
  ASSUME Typed, Races, NEW q \in Request, req[q].pc \in {"insert", "update"},
         NEW x \in Id, row[x] # Deleted, x \in req[q].kind,
         row' = [row EXCEPT ![x] = Written(req[q])],
         link' \subseteq link \cup ({x} \X req[q].links),
         Write(q), raced' = raced
  PROVE  Races'
<1> DEFINE g == req[q]
<1>0. \A p \in Request : req'[p] = IF p = q THEN Idle ELSE req[p]
  BY WriteTyped
<1>1. \A y \in Id : row'[y] = IF y = x THEN Written(g) ELSE row[y]
  BY DEF Typed, RowsTyped
<1>2. /\ Written(g) \in Row /\ Written(g).parent = g.parent
      /\ g.target = {}
      /\ g.pc \in WritePC
  BY WrittenRow, AtWrite DEF WritePC
<1>3. Holds(g) = (g.links \cup {g.parent}) \ {None}
  BY <1>2 DEF Holds
<1>4. \A y \in Holds(g) : row[y] = Deleted => y \in raced
  BY DEF Races, References
<1>5. /\ \A y \in Id : row'[y] = Deleted => row[y] = Deleted
      /\ Live(x)' /\ row'[x].parent = g.parent
      /\ \A y \in Id : y # x /\ Live(y)' => Live(y) /\ row'[y].parent = row[y].parent
  BY <1>1, <1>2, Distinct DEF Live
<1>6. g.links \subseteq Id /\ g.parent \in Id \cup {None} /\ None \notin g.links
  BY AtWrite, SetAssumption DEF Proper, Change, Id
<1>7. Overlaps'
  BY <1>0, Nothing DEF Races, Overlaps
<1>8. Parents'
  <2> SUFFICES ASSUME NEW y \in Id, Live(y)', row'[y].parent # None,
                      row'[row'[y].parent] = Deleted
               PROVE  row'[y].parent \in raced
    BY DEF Parents
  <2>1. CASE y = x
    BY <1>3, <1>4, <1>5, <1>6, <2>1
  <2>2. CASE y # x
    <3>1. Live(y) /\ row'[y].parent = row[y].parent /\ row[y].parent \in Id
      BY <1>5, <2>2, ParentsAre DEF Id
    <3> QED BY <1>5, <3>1 DEF Races, Parents
  <2> QED BY <2>1, <2>2
<1>9. LinksKept'
  <2> SUFFICES ASSUME NEW l \in link', NEW y \in {l[1], l[2]}, row'[y] = Deleted
               PROVE  y \in raced
    BY DEF LinksKept
  <2>1. CASE l \in link
    <3>1. y \in Id
      BY <2>1 DEF Typed, Links, Id
    <3> QED BY <1>5, <2>1, <3>1 DEF Races, LinksKept
  <2>2. CASE l \in {x} \X g.links
    BY <1>3, <1>4, <1>5, <1>6, <2>2 DEF Live
  <2> QED BY <2>1, <2>2
<1>10. ASSUME NEW p \in Request
       PROVE  References(p)' /\ Emptied(p)'
  <2>1. CASE p = q
    BY <1>0, <2>1, Nothing DEF References, Emptied, WritePC, DropPC
  <2>2. CASE p # q
    <3>1. req'[p] = req[p] /\ References(p) /\ Emptied(p)
      BY <1>0, <2>2 DEF Races
    <3>2. References(p)'
      <4>1. req[p].pc \in {"insert", "update", "replace"} => Holds(req[p]) \subseteq Id
        <5>1. req[p].pc \in {"insert", "update", "replace"} => Proper(req[p])
          BY AtWrite
        <5> QED BY <5>1 DEF Proper, Change, Holds, Id
      <4> QED BY <1>5, <3>1, <4>1 DEF References
    <3>3. Emptied(p)'
      <4>1. ASSUME req[p].pc \in {"children", "delete"}, g.parent = req[p].id
            PROVE  req[p].id \in raced
        <5>1. req[p].id \in Drops(req[p]) /\ req[p].id # None
          BY <4>1, AtWrite, Apart DEF Drops, DropPC, Deletes, Proper, Change
        <5>2. req[p].id \in Holds(g)
          BY <1>3, <4>1, <5>1
        <5> QED BY <5>1, <5>2 DEF Races, Overlaps
      <4> QED BY <1>5, <3>1, <4>1 DEF Emptied
    <3> QED BY <3>2, <3>3
  <2> QED BY <2>1, <2>2
<1> QED BY <1>7, <1>8, <1>9, <1>10 DEF Races

\* Rows are deleted, and their links with them, unless they can have none.
LEMMA DeleteRaces ==
  ASSUME Typed, Races, NEW q \in Request, NEW S \in SUBSET Id, Write(q),
         \A x \in Id : row'[x] = row[x] \/ (x \in S /\ row'[x] = Deleted),
         link' \subseteq link,
         \A l \in link' : l[1] \notin S /\ l[2] \notin S,
         raced \subseteq raced',
         \A p \in Request : p # q => Holds(req[p]) \cap S \subseteq raced',
         \A x \in Id : Live(x) /\ row[x].parent \in S => row[x].parent \in raced'
  PROVE  Races'
<1>0. \A p \in Request : req'[p] = IF p = q THEN Idle ELSE req[p]
  BY WriteTyped
<1>1. \A x \in Id : Live(x)' => Live(x) /\ row'[x] = row[x]
  BY DEF Live
<1>2. Overlaps'
  BY <1>0, Nothing DEF Races, Overlaps
<1>3. Parents'
  <2> SUFFICES ASSUME NEW y \in Id, Live(y)', row'[y].parent # None,
                      row'[row'[y].parent] = Deleted
               PROVE  row'[y].parent \in raced'
    BY DEF Parents
  <2>1. Live(y) /\ row'[y].parent = row[y].parent /\ row[y].parent \in Id
    BY <1>1, ParentsAre DEF Id
  <2> QED BY <2>1 DEF Races, Parents
<1>4. LinksKept'
  <2> SUFFICES ASSUME NEW l \in link', NEW y \in {l[1], l[2]}, row'[y] = Deleted
               PROVE  y \in raced'
    BY DEF LinksKept
  <2>1. l \in link /\ y \in Id /\ y \notin S
    BY DEF Typed, Links, Id
  <2> QED BY <2>1 DEF Races, LinksKept
<1>5. ASSUME NEW p \in Request
      PROVE  References(p)' /\ Emptied(p)'
  <2>1. CASE p = q
    BY <1>0, <2>1, Nothing DEF References, Emptied, WritePC, DropPC
  <2>2. CASE p # q
    <3>1. req'[p] = req[p] /\ References(p) /\ Emptied(p)
      BY <1>0, <2>2 DEF Races
    <3>2. References(p)'
      <4>1. req[p].pc \in {"insert", "update", "replace"} => Holds(req[p]) \subseteq Id
        <5>1. req[p].pc \in {"insert", "update", "replace"} => Proper(req[p])
          BY AtWrite
        <5> QED BY <5>1 DEF Proper, Change, Holds, Id
      <4> QED BY <2>2, <3>1, <4>1 DEF References
    <3>3. Emptied(p)'
      BY <1>1, <3>1 DEF Emptied
    <3> QED BY <3>2, <3>3
  <2> QED BY <2>1, <2>2
<1> QED BY <1>2, <1>3, <1>4, <1>5 DEF Races

\* What two handlers have in common when one of them moves on.
LEMMA NoSelf ==
  ASSUME NEW h
  PROVE  Holds(h) \cap Drops(h) = {}
BY Distinct DEF Holds, Drops

\* A handler begins: what it shares with another is noted.
LEMMA BeginRaces ==
  ASSUME Typed, Races, NEW q \in Request, BeginStep(q)
  PROVE  Races'
<1>1. PICK h : Begin(q, h) /\ Proper(h) /\ Fresh(h)
  BY Begins
<1>2. /\ req' = [req EXCEPT ![q] = h] /\ UNCHANGED <<row, link>>
      /\ raced' = raced \cup
           (UNION {Holds(h) \cap Drops(req[p]) : p \in Request})
             \cup (UNION {Drops(h) \cap Holds(req[p]) : p \in Request})
  BY <1>1 DEF Begin
<1>3. \A p \in Request : req'[p] = IF p = q THEN h ELSE req[p]
  BY <1>1, <1>2, MoveTyped
<1>4. /\ raced \subseteq raced'
      /\ \A p \in Request : /\ Holds(h) \cap Drops(req[p]) \subseteq raced'
                            /\ Holds(req[p]) \cap Drops(h) \subseteq raced'
  <2> DEFINE A == UNION {Holds(h) \cap Drops(req[p]) : p \in Request}
             B == UNION {Drops(h) \cap Holds(req[p]) : p \in Request}
  <2>1. \A p \in Request : Holds(h) \cap Drops(req[p]) \subseteq A
    OBVIOUS
  <2>2. \A p \in Request : Drops(h) \cap Holds(req[p]) \subseteq B
    OBVIOUS
  <2>3. raced' = raced \cup A \cup B
    BY <1>2
  <2> HIDE DEF A, B
  <2> QED BY <2>1, <2>2, <2>3
<1>5. h.pc \in {"insert", "update", "replace"} =>
        \A y \in Holds(h) : row[y] = Deleted => y \in raced'
  BY <1>1 DEF Fresh
<1>6. h.pc \in {"children", "delete"} =>
        \A x \in Id : /\ Live(x) /\ row[x].parent = h.id
                      /\ x \in User \/ h.pc = "delete"
                      => h.id \in raced'
  <2> SUFFICES ASSUME h.pc \in {"children", "delete"}, NEW x \in Id,
                      Live(x), row[x].parent = h.id, x \in User \/ h.pc = "delete"
               PROVE  FALSE
    OBVIOUS
  <2>1. h.pc \in DropPC /\ h.pc \notin WritePC
    BY Distinct DEF DropPC
  <2>2. h.id \in h.kind
    BY <1>1, <2>1 DEF Proper, Ready, Deletes
  <2>3. row[x].parent \in Dept \cup Menu \cup {None}
        /\ (x \in User => row[x].parent \in Dept \cup {None})
    BY ParentsAre
  <2>4. CASE h.pc = "children"
    <3>1. h.id \in Menu /\ x \in User
      BY <1>1, <2>2, <2>4 DEF Fresh
    <3> QED BY <2>3, <3>1, Apart DEF Kinds
  <2>5. CASE h.pc = "delete"
    <3>1. h.id \in User
      BY <1>1, <2>2, <2>5 DEF Fresh
    <3> QED BY <2>3, <3>1, Apart DEF Kinds
  <2> QED BY <2>4, <2>5
<1> QED BY <1>2, <1>3, <1>4, <1>5, <1>6, NoSelf, QuietRaces

\* A handler has checked something.
LEMMA CheckRaces ==
  ASSUME Typed, Races, NEW q \in Request, CheckStep(q)
  PROVE  Races'
<1> DEFINE g == req[q]
<1>1. PICK h : /\ req' = [req EXCEPT ![q] = h]
               /\ Proper(h) /\ Checked(q, h)
               /\ UNCHANGED <<area, row, link, raced, disturbed>>
  BY Checks
<1>2. \A p \in Request : req'[p] = IF p = q THEN h ELSE req[p]
  BY <1>1, MoveTyped
<1>3. Holds(h) \subseteq Holds(g) /\ Drops(h) \subseteq Drops(g)
  <2>1. g.pc \in WritePC \cup DropPC /\ (h.pc \in WritePC <=> g.pc \in WritePC)
        /\ h.id = g.id /\ h.parent = g.parent /\ h.target = g.target
        /\ h.links \subseteq g.links
    BY <1>1 DEF Checked
  <2>2. Holds(h) \subseteq Holds(g)
    BY <2>1 DEF Holds
  <2> QED BY <2>1, <2>2, Distinct DEF Drops
<1>4. \A p \in Request : /\ Holds(h) \cap Drops(req[p]) \subseteq raced'
                         /\ Holds(req[p]) \cap Drops(h) \subseteq raced'
  BY <1>1, <1>3 DEF Races, Overlaps
<1>5. h.pc \in {"insert", "update", "replace"} =>
        \A y \in Holds(h) : row[y] = Deleted => y \in raced'
  BY <1>1 DEF Checked, Live
<1>6. h.pc \in {"children", "delete"} =>
        \A x \in Id : /\ Live(x) /\ row[x].parent = h.id
                      /\ x \in User \/ h.pc = "delete"
                      => h.id \in raced'
  <2> SUFFICES ASSUME h.pc \in {"children", "delete"}, NEW x \in Id,
                      Live(x), row[x].parent = h.id, x \in User \/ h.pc = "delete"
               PROVE  h.id \in raced
    BY <1>1
  <2>1. CASE h.pc = "children"
    BY <1>1, <2>1 DEF Checked
  <2>2. CASE h.pc = "delete"
    <3>1. g.pc = "children" /\ g.id = h.id
          /\ \A y \in Dept \cup Menu : Live(y) => row[y].parent # h.id
      BY <1>1, <2>2 DEF Checked
    <3>2. h.id # None
      BY <1>1, <2>2, Distinct, Apart
         DEF Proper, Ready, Deletes, DropPC, Change
    <3>3. x \in User
      BY <3>1, <3>2, ParentsAre
    <3> QED BY <3>1, <3>3 DEF Races, Emptied
  <2> QED BY <2>1, <2>2
<1> QED BY <1>1, <1>2, <1>4, <1>5, <1>6, NoSelf, QuietRaces

\* A handler that reads for a login, or ends, has nothing to do with it.
LEMMA OtherRaces ==
  ASSUME Typed, Races, NEW q \in Request, LoginStep(q) \/ Abort(q)
  PROVE  Races'
<1>1. PICK h : /\ req' = [req EXCEPT ![q] = h] /\ (h = Idle \/ h \in Login)
               /\ UNCHANGED <<row, link, raced>>
  BY LoginTyped DEF Abort, Return
<1>2. \A p \in Request : req'[p] = IF p = q THEN h ELSE req[p]
  BY <1>1, MoveTyped
<1>3. /\ Holds(h) = {} /\ Drops(h) = {} /\ h.pc \notin WritePC \cup DropPC
  BY <1>1, Nothing
<1> QED BY <1>1, <1>2, <1>3, QuietRaces DEF WritePC, DropPC

\* Links are replaced by a handler past its checks.
LEMMA ReplaceRaces ==
  ASSUME Typed, Races, NEW q \in Request, ReplaceLinks(q)
  PROVE  Races'
<1> DEFINE g == req[q]
<1>1. /\ g.pc = "replace" /\ Write(q) /\ UNCHANGED <<row, raced>>
      /\ link' \subseteq link \cup ({g.id} \X g.links)
  BY DEF ReplaceLinks
<1>2. \A p \in Request : req'[p] = IF p = q THEN Idle ELSE req[p]
  BY <1>1, WriteTyped
<1>3. Proper(g) /\ g.target # {} /\ WritesLinks(g)
  BY <1>1, AtWrite
<1>4. g.id # None /\ None \notin g.links
  BY <1>3, Apart, SetAssumption DEF WritesLinks, Proper, Change
<1>5. \A y \in {g.id} \cup g.links : row[y] = Deleted => y \in raced
  <2>1. g.pc \in WritePC
    BY <1>1 DEF WritePC
  <2>2. {g.id} \cup g.links \subseteq Holds(g)
    BY <1>3, <1>4, <2>1 DEF Holds
  <2> QED BY <1>1, <2>2 DEF Races, References
<1>6. LinksKept'
  <2> SUFFICES ASSUME NEW l \in link', NEW y \in {l[1], l[2]}, row[y] = Deleted
               PROVE  y \in raced
    BY <1>1 DEF LinksKept
  <2>1. CASE l \in link
    BY <2>1 DEF Races, LinksKept
  <2>2. CASE l \in {g.id} \X g.links
    BY <1>5, <2>2
  <2> QED BY <1>1, <2>1, <2>2
<1>7. Overlaps'
  BY <1>1, <1>2, Nothing DEF Races, Overlaps
<1>8. Parents'
  BY <1>1 DEF Races, Parents, Live
<1>9. ASSUME NEW p \in Request
      PROVE  References(p)' /\ Emptied(p)'
  <2>1. CASE p = q
    BY <1>2, <2>1, Nothing DEF References, Emptied, WritePC, DropPC
  <2>2. CASE p # q
    BY <1>1, <1>2, <2>2 DEF Races, References, Emptied, Live
  <2> QED BY <2>1, <2>2
<1> QED BY <1>6, <1>7, <1>8, <1>9 DEF Races

\* A row is deleted that nothing was found below.
LEMMA DeleteRowRaces ==
  ASSUME Typed, Races, NEW q \in Request, DeleteRow(q)
  PROVE  Races'
<1> DEFINE g == req[q]
<1>1. /\ g.pc = "delete" /\ Write(q) /\ raced' = raced
      /\ row' = [row EXCEPT ![g.id] = Deleted]
      /\ link' = IF g.kind = Dept THEN link
                 ELSE {l \in link : g.id \notin {l[1], l[2]}}
  BY DEF DeleteRow
<1>2. g.pc \in DropPC /\ Proper(g) /\ Deletes(g)
  BY <1>1, AtWrite DEF DropPC
<1>3. g.id \in g.kind /\ g.kind \in Kinds /\ g.id \in Id
  BY <1>2, Apart DEF Proper, Change, Deletes
<1>4. \A x \in Id : row'[x] = row[x] \/ (x \in {g.id} /\ row'[x] = Deleted)
  BY <1>1, <1>3 DEF Typed, RowsTyped
<1>5. \A l \in link' : l[1] \notin {g.id} /\ l[2] \notin {g.id}
  <2>1. CASE g.kind = Dept
    <3>1. \A l \in Links : l[1] \notin Dept /\ l[2] \notin Dept
      BY Apart DEF Links, Kinds
    <3> QED BY <1>1, <1>3, <2>1, <3>1 DEF Typed
  <2>2. CASE g.kind # Dept
    BY <1>1, <2>2
  <2> QED BY <2>1, <2>2
<1>6. \A p \in Request : p # q => Holds(req[p]) \cap {g.id} \subseteq raced'
  BY <1>1, <1>2 DEF Races, Overlaps, Drops
<1>7. \A x \in Id : Live(x) /\ row[x].parent \in {g.id} => row[x].parent \in raced'
  BY <1>1 DEF Races, Emptied
<1>8. link' \subseteq link /\ raced \subseteq raced' /\ {g.id} \in SUBSET Id
  BY <1>1, <1>3
<1> HIDE DEF g
<1> QED BY <1>1, <1>4, <1>5, <1>6, <1>7, <1>8, DeleteRaces

\* Several rows are deleted, none of which can be a parent.
LEMMA DeleteRowsRaces ==
  ASSUME Typed, Races, NEW q \in Request, DeleteStep(q)
  PROVE  Races'
<1>1. PICK K \in {Role, Scope, Rule} : \E S \in SUBSET K :
         /\ req[q] = Idle /\ Write(q)
         /\ row' = [x \in Id |-> IF x \in S /\ Live(x) THEN Deleted ELSE row[x]]
         /\ link' = {l \in link : l[1] \notin S /\ l[2] \notin S}
         /\ raced' = raced \cup UNION {Holds(req[p]) \cap S : p \in Request}
  BY Deletions
<1>2. PICK S \in SUBSET K :
         /\ Write(q)
         /\ row' = [x \in Id |-> IF x \in S /\ Live(x) THEN Deleted ELSE row[x]]
         /\ link' = {l \in link : l[1] \notin S /\ l[2] \notin S}
         /\ raced' = raced \cup UNION {Holds(req[p]) \cap S : p \in Request}
  BY <1>1
<1>3. S \in SUBSET Id
  BY Apart DEF Kinds
<1>4. \A x \in Id : row'[x] = row[x] \/ (x \in S /\ row'[x] = Deleted)
  BY <1>2
<1>5. link' \subseteq link /\ \A l \in link' : l[1] \notin S /\ l[2] \notin S
  BY <1>2
<1>6. raced \subseteq raced' /\ \A p \in Request : Holds(req[p]) \cap S \subseteq raced'
  BY <1>2
<1>7. \A x \in Id : Live(x) => row[x].parent \notin S
  BY ParentsAre, Apart DEF Kinds
<1> QED BY <1>2, <1>3, <1>4, <1>5, <1>6, <1>7, DeleteRaces

\* Every step keeps it so.
LEMMA RacesStep ==
  ASSUME Typed, Races, [Next]_vars
  PROVE  Races'
<1>1. CASE UNCHANGED vars
  BY <1>1 DEF vars, Races, Overlaps, Parents, LinksKept, References, Emptied, Live
<1>2. ASSUME NEW q \in Request, NEW x \in Id, InsertRow(q, x)
      PROVE  Races'
  BY <1>2, WriteRaces, Distinct DEF InsertRow
<1>3. ASSUME NEW q \in Request, UpdateRow(q)
      PROVE  Races'
  <2>1. /\ req[q].pc = "update" /\ row[req[q].id] # Deleted
        /\ row' = [row EXCEPT ![req[q].id] = Written(req[q])]
        /\ link' \subseteq link \cup ({req[q].id} \X req[q].links)
        /\ Write(q) /\ raced' = raced
    BY <1>3 DEF UpdateRow, Live
  <2>2. req[q].id \in req[q].kind /\ req[q].kind \in Kinds
    BY <2>1, AtWrite DEF WritesRow, Proper, Change
  <2>3. req[q].id \in Id
    BY <2>2, Apart
  <2> QED BY <2>1, <2>2, <2>3, WriteRaces
<1> QED
  BY <1>1, <1>2, <1>3, StepKinds, BeginRaces, CheckRaces, OtherRaces,
     ReplaceRaces, DeleteRowRaces, DeleteRowsRaces

\* What a deleted row leaves behind overlapped with its deletion: in every
\* reachable state a child, a user or a link of a deleted row was written by a
\* handler that ran together with the one that deleted it.
THEOREM StrandedByRaces == Spec => []StrandedOnlyByRaces
<1>1. Init => Races
  <2> SUFFICES ASSUME Init PROVE Races
    OBVIOUS
  <2>1. Typed /\ \A x \in Id : row[x] # Deleted
    <3>1. PICK name \in [area.there -> area.names], on \in [area.there -> area.on] :
          row = [x \in Id |->
            IF x \in area.there
            THEN [name |-> name[x], parent |-> None, on |-> on[x]] ELSE NoRow]
      BY DEF Init
    <3>2. \A n, o : [name |-> n, parent |-> None, on |-> o] # Deleted
      BY DEF Deleted
    <3> QED BY <3>1, <3>2, TypedInit, Distinct
  <2>2. \A q \in Request : req[q] = Idle
    BY DEF Init
  <2>3. Overlaps /\ \A q \in Request : References(q) /\ Emptied(q)
    BY <2>2, Nothing DEF Overlaps, References, Emptied, WritePC, DropPC
  <2>4. Parents
    BY <2>1, ParentsAre DEF Parents, Id
  <2>5. LinksKept
    BY <2>1 DEF LinksKept, Typed, Links, Id
  <2> QED BY <2>3, <2>4, <2>5 DEF Races
<1>2. Typed /\ Races /\ [Next]_vars => Typed' /\ Races'
  BY TypedStep, RacesStep
<1>3. Races => StrandedOnlyByRaces
  BY DEF Races, Parents, LinksKept, StrandedOnlyByRaces
<1> QED BY <1>1, <1>2, <1>3, TypedInit, PTL DEF Spec

-----------------------------------------------------------------------------
(* What a login finds while nothing is written.                            *)

Has(u, r)    == r \in Role /\ <<u, r>> \in link /\ Live(r)
Allows(r, m) == m \in Menu /\ <<r, m>> \in link /\ Live(m) /\ row[m].on

\* The roles are those of the user, the permissions those of the roles that
\* were read; at the end only enabled roles count.
RolesRead(h) ==
  \A r \in Role :
    /\ r \in h.roles <=> Has(h.id, r)
    /\ r \in h.enabled <=> Has(h.id, r) /\ row[r].on
    /\ r \in h.left => Has(h.id, r)
MenusRead(h) ==
  \A r \in Role, m \in Menu :
    <<r, m>> \in h.perms <=> Has(h.id, r) /\ r \notin h.left /\ Allows(r, m)
GrantRead(h) ==
  \A r \in Role, m \in Menu :
    <<r, m>> \in h.perms <=> Has(h.id, r) /\ row[r].on /\ Allows(r, m)

Collected(h) == /\ h.pc \in {"dept", "roles"} => h.perms = {}
                /\ h.pc = "menus" => RolesRead(h) /\ MenusRead(h)
                /\ h.pc = "granted" => GrantRead(h)

Quiet == \A q \in Request : q \notin disturbed => Collected(req[q])

\* A step that writes nothing and moves one handler.
LEMMA QuietMoves ==
  ASSUME Typed, Quiet, NEW q \in Request, NEW h,
         \A p \in Request : req'[p] = IF p = q THEN h ELSE req[p],
         UNCHANGED <<row, link>>, disturbed \subseteq disturbed' \cup {q},
         q \notin disturbed' => Collected(h)
  PROVE  Quiet'
<1> SUFFICES ASSUME NEW p \in Request, p \notin disturbed'
             PROVE  Collected(req[p])'
  BY DEF Quiet
<1>1. Collected(req'[p])
  BY DEF Quiet
<1> QED
  BY <1>1 DEF Collected, RolesRead, MenusRead, GrantRead, Has, Allows, Live

\* A write is noticed by every handler that reads for a login.
LEMMA QuietWrites ==
  ASSUME Typed, Quiet, NEW q \in Request, Write(q)
  PROVE  Quiet'
<1>1. \A p \in Request : req'[p] = IF p = q THEN Idle ELSE req[p]
  BY WriteTyped
<1>2. \A p \in Request : p \notin disturbed' => req[p].pc \notin AuthPC
  BY DEF Write
<1>3. \A p \in Request : p \notin disturbed' => req'[p].pc \notin AuthPC
  BY <1>1, <1>2, Distinct
<1>4. AuthPC = {"dept", "roles", "menus", "granted"}
  BY DEF AuthPC
<1> QED BY <1>3, <1>4 DEF Quiet, Collected

\* A login reads.
LEMMA QuietLogins ==
  ASSUME Typed, Quiet, NEW q \in Request, LoginStep(q)
  PROVE  Quiet'
<1> DEFINE g == req[q]
<1>0. /\ UNCHANGED <<area, row, link, raced, disturbed>>
  BY LoginTyped
<1>1. ASSUME NEW h, req' = [req EXCEPT ![q] = h],
             q \notin disturbed => Collected(h)
      PROVE  Quiet'
  <2>1. \A p \in Request : req'[p] = IF p = q THEN h ELSE req[p]
    BY <1>1 DEF Typed, HandlersTyped
  <2> QED BY <1>0, <1>1, <2>1, QuietMoves
<1>2. ASSUME g.pc \in AuthPC
      PROVE  g \in Login /\ (q \notin disturbed => Collected(g))
  BY <1>2, AtPlace DEF Quiet
<1>3. ASSUME NEW u \in User, BeginAuthenticate(q, u)
      PROVE  Quiet'
  <2> DEFINE h == [pc |-> "dept", id |-> u, dept |-> row[u].parent, roles |-> {},
                   left |-> {}, enabled |-> {}, perms |-> {}]
  <2>1. Collected(h)
    BY DEF Collected
  <2>2. req' = [req EXCEPT ![q] = h]
    BY <1>3 DEF BeginAuthenticate
  <2> HIDE DEF h
  <2> QED BY <1>1, <2>1, <2>2
<1>4. CASE EnsureUserDeptAllowed(q)
  <2> DEFINE h == [g EXCEPT !.pc = "roles"]
  <2>1. g.pc \in AuthPC
    BY <1>4 DEF EnsureUserDeptAllowed, AuthPC
  <2>2. g \in Login
    BY <2>1, AtPlace
  <2>3. h.pc = "roles"
    BY <2>2 DEF Login
  <2>4. q \notin disturbed => g.perms = {}
    BY <1>2, <1>4, <2>1 DEF Collected, EnsureUserDeptAllowed
  <2>5. req' = [req EXCEPT ![q] = h] /\ h.perms = g.perms
    BY <1>4, <2>2 DEF EnsureUserDeptAllowed, Step, Goto, Login
  <2> HIDE DEF h
  <2>6. q \notin disturbed => Collected(h)
    BY <2>3, <2>4, <2>5 DEF Collected
  <2> QED BY <1>1, <2>5, <2>6
<1>5. CASE UserRoles(q)
  <2> DEFINE R == LinksOf(g.id, Role)
             E == {r \in R : row[r].on}
             h == [g EXCEPT !.pc = "menus", !.roles = R, !.left = R,
                            !.enabled = E]
  <2>1. g.pc \in AuthPC /\ g.pc = "roles" /\ req' = [req EXCEPT ![q] = h]
    BY <1>5 DEF UserRoles, AuthPC
  <2>2. g \in Login
    BY <2>1, AtPlace
  <2>3. /\ \A r \in Role : r \in R <=> Has(g.id, r)
        /\ \A r \in Role : r \in E <=> Has(g.id, r) /\ row[r].on
    BY DEF LinksOf, Has
  <2> HIDE DEF R, E
  <2>4. /\ h.pc = "menus" /\ h.id = g.id /\ h.roles = R /\ h.left = R
        /\ h.enabled = E /\ h.perms = g.perms
    BY <2>2 DEF Login
  <2> HIDE DEF h
  <2>5. RolesRead(h)
    BY <2>3, <2>4 DEF RolesRead
  <2>6. q \notin disturbed => g.perms = {}
    BY <1>2, <2>1 DEF Collected
  <2>7. q \notin disturbed => MenusRead(h)
    BY <2>3, <2>4, <2>6 DEF MenusRead
  <2>8. q \notin disturbed => Collected(h)
    BY <2>4, <2>5, <2>7 DEF Collected
  <2> QED BY <1>1, <2>1, <2>8
<1>6. ASSUME NEW r \in Role, RoleMenus(q, r)
      PROVE  Quiet'
  <2> DEFINE M == {r} \X {m \in LinksOf(r, Menu) : row[m].on}
             h == [g EXCEPT !.left = @ \ {r}, !.perms = @ \cup M]
  <2>1. /\ g.pc \in AuthPC /\ g.pc = "menus" /\ r \in g.left
        /\ req' = [req EXCEPT ![q] = h]
    BY <1>6 DEF RoleMenus, AuthPC
  <2>2. g \in Login
    BY <2>1, AtPlace
  <2>3. \A s \in Role, m \in Menu : <<s, m>> \in M <=> s = r /\ Allows(r, m)
    BY DEF LinksOf, Allows
  <2> HIDE DEF M
  <2>4. /\ h.pc = "menus" /\ h.id = g.id /\ h.roles = g.roles
        /\ h.left = g.left \ {r} /\ h.enabled = g.enabled
        /\ h.perms = g.perms \cup M
    BY <2>1, <2>2 DEF Login
  <2> HIDE DEF h
  <2> SUFFICES ASSUME q \notin disturbed PROVE Collected(h)
    BY <1>1, <2>1
  <2>5. RolesRead(g) /\ MenusRead(g)
    BY <1>2, <2>1 DEF Collected
  <2>6. RolesRead(h) /\ Has(g.id, r)
    BY <2>1, <2>4, <2>5 DEF RolesRead
  <2>7. ASSUME NEW s \in Role, NEW m \in Menu
        PROVE  <<s, m>> \in h.perms <=>
                 Has(h.id, s) /\ s \notin h.left /\ Allows(s, m)
    <3>1. <<s, m>> \in h.perms <=> <<s, m>> \in g.perms \/ (s = r /\ Allows(r, m))
      BY <2>3, <2>4
    <3>2. <<s, m>> \in g.perms <=> Has(g.id, s) /\ s \notin g.left /\ Allows(s, m)
      BY <2>5 DEF MenusRead
    <3> QED BY <2>1, <2>4, <2>6, <3>1, <3>2
  <2>8. MenusRead(h)
    BY <2>7 DEF MenusRead
  <2> QED BY <2>4, <2>6, <2>8 DEF Collected
<1>7. CASE EnsureUserRolesAllowed(q)
  <2> DEFINE M == {p \in g.perms : p[1] \in g.enabled}
             h == [g EXCEPT !.pc = "granted", !.perms = M]
  <2>1. /\ g.pc \in AuthPC /\ g.pc = "menus" /\ g.left = {}
        /\ req' = [req EXCEPT ![q] = h]
    BY <1>7 DEF EnsureUserRolesAllowed, AuthPC
  <2>2. g \in Login
    BY <2>1, AtPlace
  <2>3. \A s \in Role, m \in Menu :
          <<s, m>> \in M <=> <<s, m>> \in g.perms /\ s \in g.enabled
    OBVIOUS
  <2> HIDE DEF M
  <2>4. h.pc = "granted" /\ h.id = g.id /\ h.perms = M
    BY <2>2 DEF Login
  <2> HIDE DEF h
  <2> SUFFICES ASSUME q \notin disturbed PROVE Collected(h)
    BY <1>1, <2>1
  <2>5. RolesRead(g) /\ MenusRead(g)
    BY <1>2, <2>1 DEF Collected
  <2>6. GrantRead(h)
    BY <2>1, <2>3, <2>4, <2>5 DEF GrantRead, RolesRead, MenusRead
  <2> QED BY <2>4, <2>6 DEF Collected
<1> QED BY <1>3, <1>4, <1>5, <1>6, <1>7 DEF LoginStep

\* Every step keeps it so.
LEMMA QuietStep ==
  ASSUME Typed, Quiet, [Next]_vars
  PROVE  Quiet'
<1>1. CASE UNCHANGED vars
  BY <1>1 DEF vars, Quiet, Collected, RolesRead, MenusRead, GrantRead, Has,
     Allows, Live
<1>2. \A h : h.pc \notin AuthPC => Collected(h)
  BY DEF Collected, AuthPC
<1>3. ASSUME NEW q \in Request, BeginStep(q)
      PROVE  Quiet'
  <2>1. PICK h : Begin(q, h) /\ Proper(h)
    BY <1>3, Begins
  <2>2. Collected(h)
    <3>1. h.pc \in WritePC \cup DropPC
      BY <2>1 DEF Proper, Change
    <3> QED BY <1>2, <3>1, Distinct
  <2>3. /\ \A p \in Request : req'[p] = IF p = q THEN h ELSE req[p]
        /\ UNCHANGED <<row, link, disturbed>>
    BY <2>1, MoveTyped DEF Begin
  <2> QED BY <2>2, <2>3, QuietMoves
<1>4. ASSUME NEW q \in Request, CheckStep(q)
      PROVE  Quiet'
  <2>1. PICK h : /\ req' = [req EXCEPT ![q] = h] /\ Proper(h)
                 /\ UNCHANGED <<area, row, link, raced, disturbed>>
    BY <1>4, Checks
  <2>2. Collected(h)
    <3>1. h.pc \in WritePC \cup DropPC
      BY <2>1 DEF Proper, Change
    <3> QED BY <1>2, <3>1, Distinct
  <2>3. \A p \in Request : req'[p] = IF p = q THEN h ELSE req[p]
    BY <2>1, MoveTyped
  <2> QED BY <2>1, <2>2, <2>3, QuietMoves
<1>5. ASSUME NEW q \in Request, Abort(q)
      PROVE  Quiet'
  <2>1. \A p \in Request : req'[p] = IF p = q THEN Idle ELSE req[p]
    BY <1>5, MoveTyped DEF Abort, Return
  <2>2. Collected(Idle)
    BY <1>2, Distinct
  <2> QED BY <1>5, <2>1, <2>2, QuietMoves DEF Abort
<1>6. ASSUME NEW q \in Request, \/ \E x \in Id : InsertRow(q, x)
                                \/ UpdateRow(q) \/ ReplaceLinks(q)
                                \/ DeleteRow(q) \/ DeleteStep(q)
      PROVE  Quiet'
  <2>1. Write(q)
    BY <1>6 DEF InsertRow, UpdateRow, ReplaceLinks, DeleteRow, DeleteStep,
       DeleteRows
  <2> QED BY <2>1, QuietWrites
<1> QED BY <1>1, <1>3, <1>4, <1>5, <1>6, QuietLogins, StepKinds

\* Of a request that nothing was written during, the permissions are exactly
\* those of the enabled menus of the enabled roles of its user.
THEOREM QuietAuthentication == Spec => []QuietAuthenticationIsExact
<1>1. Init => Quiet
  BY Distinct DEF Init, Quiet, Collected, AuthPC
<1>2. Typed /\ Quiet /\ [Next]_vars => Typed' /\ Quiet'
  BY TypedStep, QuietStep
<1>3. Typed /\ Quiet => QuietAuthenticationIsExact
  <2> SUFFICES ASSUME Typed, Quiet, NEW q \in Request, req[q].pc = "granted",
                      q \notin disturbed
               PROVE  req[q].perms =
                        UNION {{r} \X {m \in LinksOf(r, Menu) : row[m].on} :
                          r \in {r \in LinksOf(req[q].id, Role) : row[r].on}}
    BY DEF QuietAuthenticationIsExact
  <2> DEFINE M(r) == {r} \X {m \in LinksOf(r, Menu) : row[m].on}
             E == {r \in LinksOf(req[q].id, Role) : row[r].on}
             P == UNION {M(r) : r \in E}
  <2>1. /\ GrantRead(req[q])
        /\ req[q].perms \subseteq Role \X Menu
    BY AtPlace DEF Quiet, Collected, Login, AuthPC
  <2>2. \A r : r \in E <=> Has(req[q].id, r) /\ row[r].on
    BY DEF LinksOf, Has
  <2>3. ASSUME NEW r, NEW p
        PROVE  p \in M(r) <=> \E m \in Menu : p = <<r, m>> /\ Allows(r, m)
    <3> DEFINE L == {m \in LinksOf(r, Menu) : row[m].on}
    <3>1. \A m : m \in L <=> m \in Menu /\ Allows(r, m)
      BY DEF LinksOf, Allows
    <3> HIDE DEF L
    <3>2. p \in {r} \X L <=> \E m \in L : p = <<r, m>>
      OBVIOUS
    <3> QED BY <3>1, <3>2 DEF L
  <2>4. \A p : p \in P <=> \E r \in E : p \in M(r)
    OBVIOUS
  <2> HIDE DEF M, E, P
  <2>5. \A p : p \in P <=>
          \E r \in Role, m \in Menu :
            p = <<r, m>> /\ Has(req[q].id, r) /\ row[r].on /\ Allows(r, m)
    BY <2>2, <2>3, <2>4 DEF Has
  <2>6. \A p \in req[q].perms : p \in P
    BY <2>1, <2>5 DEF GrantRead
  <2>7. \A p \in P : p \in req[q].perms
    BY <2>1, <2>5 DEF GrantRead
  <2>8. req[q].perms = P
    BY <2>6, <2>7
  <2> QED BY <2>8 DEF P, M, E
<1> QED BY <1>1, <1>2, <1>3, TypedInit, PTL DEF Spec

-----------------------------------------------------------------------------
(* How many rows may share a name: counted with the handlers that have     *)
(* found it free, there are never more than handlers.                      *)

Passed(h, K, n) ==
  /\ h.pc \in WritePC \ {"name"} /\ h.target = {}
  /\ h.kind = K /\ h.name = n

\* Rows that have the name, or are about to get it; handlers about to create.
Taken(K, n) ==
  {x \in K : \/ Live(x) /\ row[x].name = n
             \/ \E q \in Request : Passed(req[q], K, n) /\ req[q].id = x}
Creators(K, n) == {q \in Request : Passed(req[q], K, n) /\ req[q].id = None}

Room == \A K \in Kinds \ {Menu}, n \in Name :
  Cardinality(Taken(K, n)) + Cardinality(Creators(K, n)) <= Cardinality(Request)

\* Tables and handlers are finite.
LEMMA TakenFinite ==
  ASSUME NEW K \in Kinds, NEW n
  PROVE  /\ IsFiniteSet(Taken(K, n)) /\ Cardinality(Taken(K, n)) \in Nat
         /\ IsFiniteSet(Creators(K, n)) /\ Cardinality(Creators(K, n)) \in Nat
<1>1. IsFiniteSet(K)
  BY SetAssumption, Apart, FS_Subset
<1>2. Taken(K, n) \subseteq K /\ Creators(K, n) \subseteq Request
  BY DEF Taken, Creators
<1> QED BY <1>1, <1>2, SetAssumption, FS_Subset, FS_CardinalityType

\* Fewer rows and creators have room, and a creator makes room for a row.
LEMMA Fewer ==
  ASSUME Room, NEW K \in Kinds \ {Menu}, NEW n \in Name, NEW A, NEW C,
         A \subseteq Taken(K, n), C \subseteq Creators(K, n)
  PROVE  Cardinality(A) + Cardinality(C) <= Cardinality(Request)
<1>1. /\ Cardinality(A) <= Cardinality(Taken(K, n)) /\ Cardinality(A) \in Nat
      /\ Cardinality(C) <= Cardinality(Creators(K, n)) /\ Cardinality(C) \in Nat
  BY TakenFinite, FS_Subset, FS_CardinalityType
<1> QED BY <1>1, TakenFinite, SetAssumption, FS_CardinalityType DEF Room

LEMMA Instead ==
  ASSUME Room, NEW K \in Kinds \ {Menu}, NEW n \in Name, NEW A, NEW C, NEW x,
         NEW q \in Creators(K, n),
         A \subseteq Taken(K, n) \cup {x},
         C \subseteq Creators(K, n) \ {q}
  PROVE  Cardinality(A) + Cardinality(C) <= Cardinality(Request)
<1>1. /\ IsFiniteSet(Taken(K, n) \cup {x})
      /\ Cardinality(Taken(K, n) \cup {x}) <= Cardinality(Taken(K, n)) + 1
      /\ IsFiniteSet(Creators(K, n) \ {q})
      /\ Cardinality(Creators(K, n) \ {q}) = Cardinality(Creators(K, n)) - 1
  <2>1. /\ IsFiniteSet(Taken(K, n)) /\ Cardinality(Taken(K, n)) \in Nat
        /\ IsFiniteSet(Creators(K, n))
    BY TakenFinite
  <2> DEFINE T == Taken(K, n)
             D == Creators(K, n)
  <2>2. q \in D
    OBVIOUS
  <2> HIDE DEF T, D
  <2>3. IsFiniteSet(T \cup {x}) /\ Cardinality(T \cup {x}) <= Cardinality(T) + 1
    <3>1. IsFiniteSet(T) /\ Cardinality(T) \in Nat
      BY <2>1 DEF T
    <3>2. /\ IsFiniteSet(T \cup {x})
          /\ Cardinality(T \cup {x}) =
               IF x \in T THEN Cardinality(T) ELSE Cardinality(T) + 1
      BY <3>1, FS_AddElement
    <3>3. CASE x \in T
      BY <3>1, <3>2, <3>3
    <3>4. CASE x \notin T
      BY <3>1, <3>2, <3>4
    <3> QED BY <3>3, <3>4
  <2>4. IsFiniteSet(D \ {q}) /\ Cardinality(D \ {q}) = Cardinality(D) - 1
    <3>1. IsFiniteSet(D)
      BY <2>1 DEF D
    <3> QED BY <2>2, <3>1, FS_RemoveElement
  <2> QED BY <2>3, <2>4 DEF T, D
<1>2. /\ Cardinality(A) <= Cardinality(Taken(K, n) \cup {x})
      /\ Cardinality(C) <= Cardinality(Creators(K, n) \ {q})
      /\ Cardinality(A) \in Nat /\ Cardinality(C) \in Nat
      /\ Cardinality(Taken(K, n) \cup {x}) \in Nat
  BY <1>1, FS_Subset, FS_CardinalityType
<1>3. Cardinality(Taken(K, n)) + Cardinality(Creators(K, n)) <= Cardinality(Request)
  BY DEF Room
<1> QED
  BY <1>1, <1>2, <1>3, TakenFinite, SetAssumption, FS_CardinalityType

\* The rows that handlers are about to rename, and the other handlers.
LEMMA ByHandlers ==
  ASSUME NEW r, NEW C \in SUBSET Request, NEW A,
         \A x \in A : \E q \in Request \ C : r[q].id = x
  PROVE  Cardinality(A) + Cardinality(C) <= Cardinality(Request)
<1> DEFINE Q == {q \in Request \ C : r[q].id \in A}
           g == [q \in Q |-> r[q].id]
<1>1. IsFiniteSet(Q) /\ IsFiniteSet(C) /\ IsFiniteSet(Request)
  BY SetAssumption, FS_Subset
<1>2. g \in Surjection(Q, A)
  BY DEF Surjection
<1>3. IsFiniteSet(A) /\ Cardinality(A) <= Cardinality(Q)
  BY <1>1, <1>2, FS_Surjection
<1>4. Q \cap C = {} /\ Q \cup C \subseteq Request
  OBVIOUS
<1>5. Cardinality(Q \cup C) = Cardinality(Q) + Cardinality(C) - Cardinality({})
      /\ IsFiniteSet(Q \cup C)
  BY <1>1, <1>4, FS_Union
<1>6. Cardinality(Q \cup C) <= Cardinality(Request)
  BY <1>1, <1>4, FS_Subset
<1> HIDE DEF Q, g
<1>7. /\ Cardinality(A) \in Nat /\ Cardinality(Q) \in Nat
      /\ Cardinality(C) \in Nat /\ Cardinality(Request) \in Nat
  BY <1>1, <1>3, FS_CardinalityType
<1> QED BY <1>3, <1>5, <1>6, <1>7, FS_EmptySet

\* A handler moves that has not found a name free in this step, and no row
\* gets a name that was not about to get it.
LEMMA RoomMoves ==
  ASSUME Typed, Room, NEW q \in Request, NEW h,
         \A p \in Request : req'[p] = IF p = q THEN h ELSE req[p],
         \A K \in Kinds \ {Menu}, n \in Name : Passed(h, K, n) =>
           \/ Passed(req[q], K, n) /\ h.id = req[q].id
           \/ h.id \in K /\ Live(h.id) /\ row[h.id].name = n,
         \A K \in Kinds \ {Menu}, n \in Name : \A x \in K :
           Live(x)' /\ row'[x].name = n => x \in Taken(K, n)
  PROVE  Room'
<1> SUFFICES ASSUME NEW K \in Kinds \ {Menu}, NEW n \in Name
             PROVE  Cardinality(Taken(K, n)') + Cardinality(Creators(K, n)')
                      <= Cardinality(Request)
  BY DEF Room
<1>1. Taken(K, n)' \subseteq Taken(K, n)
  <2>1. ASSUME NEW x \in K, NEW p \in Request, Passed(req'[p], K, n), req'[p].id = x
        PROVE  x \in Taken(K, n)
    BY <2>1 DEF Taken
  <2> QED BY <2>1 DEF Taken, Passed
<1>2. Creators(K, n)' \subseteq Creators(K, n)
  <2>1. ASSUME NEW p \in Request, Passed(req'[p], K, n), req'[p].id = None
        PROVE  Passed(req[p], K, n) /\ req[p].id = None
    BY <2>1, Apart
  <2> QED BY <2>1 DEF Creators, Passed
<1> QED BY <1>1, <1>2, Fewer

\* A step that only moves a handler, or deletes rows.
LEMMA RoomOther ==
  ASSUME Typed, Room, NEW q \in Request, NEW h,
         \A p \in Request : req'[p] = IF p = q THEN h ELSE req[p],
         \A K \in Kinds \ {Menu}, n \in Name : Passed(h, K, n) =>
           \/ Passed(req[q], K, n) /\ h.id = req[q].id
           \/ h.id \in K /\ Live(h.id) /\ row[h.id].name = n,
         \A x \in Id : row'[x] = Deleted \/ row'[x] = row[x]
  PROVE  Room'
<1>1. \A K \in Kinds \ {Menu}, n \in Name : \A x \in K :
        Live(x)' /\ row'[x].name = n => x \in Taken(K, n)
  BY Apart DEF Live, Taken
<1> QED BY <1>1, RoomMoves

\* A name was found free.
LEMMA RoomFound ==
  ASSUME Typed, Room, NEW q \in Request, CheckStep(q)
  PROVE  Room'
<1> DEFINE g == req[q]
<1>1. PICK h : /\ req' = [req EXCEPT ![q] = h] /\ Proper(h) /\ Checked(q, h)
               /\ UNCHANGED <<area, row, link, raced, disturbed>>
  BY Checks
<1>2. \A p \in Request : req'[p] = IF p = q THEN h ELSE req[p]
  BY <1>1, MoveTyped
<1>3. /\ h.kind = g.kind /\ h.id = g.id /\ h.name = g.name /\ h.target = g.target
      /\ h.pc \in WritePC => g.pc \in WritePC
      /\ g.pc = "name" /\ h.kind # Menu =>
           \A x \in h.kind : Live(x) => row[x].name # h.name
  BY <1>1 DEF Checked
<1>4. CASE g.pc # "name"
  <2>1. \A K, n : Passed(h, K, n) => Passed(g, K, n) /\ h.id = g.id
    BY <1>3, <1>4 DEF Passed
  <2> QED BY <1>1, <1>2, <2>1, RoomOther
<1>5. CASE g.pc = "name"
  <2> SUFFICES ASSUME NEW K \in Kinds \ {Menu}, NEW n \in Name
               PROVE  Cardinality(Taken(K, n)') + Cardinality(Creators(K, n)')
                        <= Cardinality(Request)
    BY DEF Room
  <2>1. CASE h.kind = K /\ h.name = n
    <3>1. \A x \in K : ~ (Live(x)' /\ row'[x].name = n)
      BY <1>1, <1>3, <1>5, <2>1 DEF Live
    <3>2. Creators(K, n)' \subseteq Request
      BY DEF Creators
    <3>3. ASSUME NEW x \in Taken(K, n)'
          PROVE  \E p \in Request \ Creators(K, n)' : req'[p].id = x
      <4>1. x \in K /\ \E p \in Request : req'[p].id = x
        BY <3>1 DEF Taken
      <4>2. x # None
        BY <4>1, Apart
      <4> QED BY <4>1, <4>2 DEF Creators
    <3> DEFINE A == Taken(K, n)'
               C == Creators(K, n)'
               r == req'
    <3>4. C \in SUBSET Request /\ \A x \in A : \E p \in Request \ C : r[p].id = x
      BY <3>2, <3>3
    <3> HIDE DEF A, C, r
    <3>5. Cardinality(A) + Cardinality(C) <= Cardinality(Request)
      BY <3>4, ByHandlers
    <3> QED BY <3>5 DEF A, C
  <2>2. CASE ~(h.kind = K /\ h.name = n)
    <3>1. \A p \in Request : Passed(req'[p], K, n) =>
            Passed(req[p], K, n) /\ req'[p] = req[p]
      BY <1>2, <2>2 DEF Passed
    <3>2. Taken(K, n)' \subseteq Taken(K, n) /\ Creators(K, n)' \subseteq Creators(K, n)
      <4>1. Taken(K, n)' \subseteq Taken(K, n)
        BY <1>1, <3>1 DEF Taken, Live, Passed
      <4>2. Creators(K, n)' \subseteq Creators(K, n)
        BY <3>1 DEF Creators, Passed
      <4> QED BY <4>1, <4>2
    <3> QED BY <3>2, Fewer
  <2> QED BY <2>1, <2>2
<1> QED BY <1>4, <1>5

\* A row is written by a handler that has found its name free: an update was
\* counted already, and a creation leaves the handlers.
LEMMA RoomWrite ==
  ASSUME Typed, Room, NEW q \in Request, req[q].pc \in {"insert", "update"},
         NEW x \in Id, x \in req[q].kind, Write(q),
         req[q].id = None \/ req[q].id = x,
         row' = [row EXCEPT ![x] = Written(req[q])]
  PROVE  Room'
<1> DEFINE g == req[q]
<1>1. \A p \in Request : req'[p] = IF p = q THEN Idle ELSE req[p]
  BY WriteTyped
<1>2. g.kind \in Kinds /\ g.target = {} /\ Written(g).name = g.name
      /\ g.pc \in WritePC \ {"name"} /\ None \notin Id
  BY AtWrite, WrittenRow, SetAssumption DEF WritePC
<1>3. \A y \in Id : y # x => row'[y] = row[y]
  BY DEF Typed, RowsTyped
<1>4. row'[x].name = g.name
  BY <1>2 DEF Typed, RowsTyped
<1>5. \A K, n : ~Passed(Idle, K, n)
  BY Distinct DEF Passed
<1> SUFFICES ASSUME NEW K \in Kinds \ {Menu}, NEW n \in Name
             PROVE  Cardinality(Taken(K, n)') + Cardinality(Creators(K, n)')
                      <= Cardinality(Request)
  BY DEF Room
<1>6. \A p \in Request : Passed(req'[p], K, n) =>
        p # q /\ Passed(req[p], K, n) /\ req'[p] = req[p]
  BY <1>1, <1>5
<1>7. Creators(K, n)' \subseteq Creators(K, n) \ {q}
  BY <1>6 DEF Creators, Passed
<1>8. Taken(K, n)' \subseteq Taken(K, n) \cup {x}
  BY <1>3, <1>6, Apart DEF Taken, Live, Passed
<1>9. CASE g.kind = K /\ g.name = n /\ g.id = None
  <2>1. q \in Creators(K, n)
    BY <1>2, <1>9 DEF Creators, Passed
  <2> QED BY <1>7, <1>8, <2>1, Instead
<1>10. CASE g.kind = K /\ g.name = n /\ g.id = x
  <2>1. x \in Taken(K, n)
    BY <1>2, <1>10 DEF Taken, Passed
  <2> QED BY <1>7, <1>8, <2>1, Fewer
<1>11. CASE ~(g.kind = K /\ g.name = n)
  <2>1. x \notin K \/ row'[x].name # n
    BY <1>2, <1>4, <1>11, Apart
  <2>2. Taken(K, n)' \subseteq Taken(K, n)
    <3>1. ASSUME NEW y \in K, Live(y)', row'[y].name = n
          PROVE  y \in Taken(K, n)
      BY <1>3, <2>1, <3>1, Apart DEF Taken, Live
    <3>2. ASSUME NEW y \in K, NEW p \in Request, Passed(req'[p], K, n), req'[p].id = y
          PROVE  y \in Taken(K, n)
      BY <1>6, <3>2 DEF Taken
    <3> QED BY <3>1, <3>2 DEF Taken, Passed
  <2> QED BY <1>7, <2>2, Fewer
<1> QED BY <1>9, <1>10, <1>11

\* Every step keeps it so.
LEMMA RoomStep ==
  ASSUME Typed, Room, [Next]_vars
  PROVE  Room'
<1>1. CASE UNCHANGED vars
  BY <1>1 DEF vars, Room, Taken, Creators, Passed, Live
<1>2. ASSUME NEW q \in Request, NEW h, h.pc \notin WritePC \/ h.target # {},
             \A p \in Request : req'[p] = IF p = q THEN h ELSE req[p],
             \A x \in Id : row'[x] = Deleted \/ row'[x] = row[x]
      PROVE  Room'
  BY <1>2, RoomOther DEF Passed
<1>3. ASSUME NEW q \in Request, BeginStep(q)
      PROVE  Room'
  <2>1. PICK h : Begin(q, h) /\ Proper(h) /\ Fresh(h)
    BY <1>3, Begins
  <2>2. /\ \A p \in Request : req'[p] = IF p = q THEN h ELSE req[p]
        /\ row' = row
    BY <2>1, MoveTyped DEF Begin
  <2>3. \A K, n : Passed(h, K, n) =>
          h.id \in K /\ Live(h.id) /\ row[h.id].name = n
    BY <2>1 DEF Fresh, Passed
  <2> QED BY <2>2, <2>3, RoomOther
<1>4. ASSUME NEW q \in Request, LoginStep(q) \/ Abort(q)
      PROVE  Room'
  <2>1. PICK h : /\ req' = [req EXCEPT ![q] = h] /\ (h = Idle \/ h \in Login)
                 /\ row' = row
    BY <1>4, LoginTyped DEF Abort, Return
  <2>2. \A p \in Request : req'[p] = IF p = q THEN h ELSE req[p]
    BY <2>1, MoveTyped
  <2>3. h.pc \notin WritePC
    BY <2>1, Nothing
  <2> QED BY <1>2, <2>1, <2>2, <2>3
<1>5. ASSUME NEW q \in Request, Write(q),
             \A x \in Id : row'[x] = Deleted \/ row'[x] = row[x]
      PROVE  Room'
  <2>1. \A p \in Request : req'[p] = IF p = q THEN Idle ELSE req[p]
    BY <1>5, WriteTyped
  <2>2. Idle.pc \notin WritePC
    BY Distinct
  <2> QED BY <1>2, <1>5, <2>1, <2>2
<1>6. ASSUME NEW q \in Request, NEW x \in Id, InsertRow(q, x)
      PROVE  Room'
  <2>1. /\ req[q].pc = "insert" /\ x \in req[q].kind /\ Write(q)
        /\ row' = [row EXCEPT ![x] = Written(req[q])]
    BY <1>6 DEF InsertRow
  <2>2. req[q].id = None
    BY <2>1, AtWrite DEF WritesRow
  <2> QED BY <2>1, <2>2, RoomWrite
<1>7. ASSUME NEW q \in Request, UpdateRow(q)
      PROVE  Room'
  <2>1. /\ req[q].pc = "update" /\ Write(q)
        /\ row' = [row EXCEPT ![req[q].id] = Written(req[q])]
    BY <1>7 DEF UpdateRow
  <2>2. req[q].id \in req[q].kind /\ req[q].kind \in Kinds
    BY <2>1, AtWrite DEF WritesRow, Proper, Change
  <2>3. req[q].id \in Id
    BY <2>2, Apart
  <2> QED BY <2>1, <2>2, <2>3, RoomWrite
<1>8. ASSUME NEW q \in Request, ReplaceLinks(q) \/ DeleteRow(q) \/ DeleteStep(q)
      PROVE  Room'
  <2>1. Write(q)
    BY <1>8 DEF ReplaceLinks, DeleteRow, DeleteStep, DeleteRows
  <2>2. \A x \in Id : row'[x] = Deleted \/ row'[x] = row[x]
    BY <1>8 DEF ReplaceLinks, DeleteRow, DeleteStep, DeleteRows, Typed, RowsTyped
  <2> QED BY <1>5, <2>1, <2>2
<1> QED
  BY <1>1, <1>3, <1>4, <1>6, <1>7, <1>8, RoomFound, StepKinds

\* Of a table other than that of the menus, never more rows share a name than
\* handlers run together, though nothing in the database keeps names apart.
THEOREM SharedNames == Spec => []NamesBounded
<1>1. Init => Room
  <2> SUFFICES ASSUME Init, NEW K \in Kinds \ {Menu}, NEW n \in Name
               PROVE  Cardinality(Taken(K, n)) + Cardinality(Creators(K, n))
                        <= Cardinality(Request)
    BY DEF Room
  <2>1. \A q \in Request : ~Passed(req[q], K, n)
    BY Distinct DEF Init, Passed
  <2>2. PICK name \in [area.there -> area.names], on \in [area.there -> area.on] :
          /\ \A x, y \in area.there :
               x # y /\ Kind(x) = Kind(y) => name[x] # name[y]
          /\ row = [x \in Id |->
               IF x \in area.there
               THEN [name |-> name[x], parent |-> None, on |-> on[x]] ELSE NoRow]
    BY DEF Init
  <2>3. \A x \in K : Kind(x) = K
    <3>1. \A x \in K : \A L \in Kinds : x \in L <=> L = K
      BY Apart
    <3> QED BY <3>1 DEF Kind
  <2>4. \A x, y \in Taken(K, n) : x = y
    BY <2>1, <2>2, <2>3, Apart DEF Taken, Live
  <2>5. Creators(K, n) = {}
    BY <2>1 DEF Creators
  <2>6. Cardinality(Taken(K, n)) <= 1
    <3>1. CASE Taken(K, n) = {}
      BY <3>1, FS_EmptySet
    <3>2. ASSUME NEW x \in Taken(K, n)
          PROVE  Cardinality(Taken(K, n)) <= 1
      <4>1. Taken(K, n) = {x}
        BY <2>4
      <4>2. Cardinality({x}) = 1
        BY FS_Singleton
      <4> QED BY <4>1, <4>2
    <3> QED BY <3>1, <3>2
  <2>7. Cardinality(Request) >= 1
    BY SetAssumption, FS_EmptySet, FS_CardinalityType
  <2>8. Cardinality(Request) \in Nat
    BY SetAssumption, FS_CardinalityType
  <2> QED BY <2>5, <2>6, <2>7, <2>8, TakenFinite, FS_EmptySet
<1>2. Typed /\ Room /\ [Next]_vars => Typed' /\ Room'
  BY TypedStep, RoomStep
<1>3. Room => NamesBounded
  <2> SUFFICES ASSUME Room, NEW K \in Kinds \ {Menu}, NEW n \in Name
               PROVE  Cardinality({x \in K : Live(x) /\ row[x].name = n})
                        <= Cardinality(Request)
    BY DEF NamesBounded
  <2> DEFINE A == {x \in K : Live(x) /\ row[x].name = n}
  <2>1. A \subseteq Taken(K, n) /\ {} \subseteq Creators(K, n)
    BY DEF Taken
  <2>2. IsFiniteSet(A)
    BY <2>1, TakenFinite, FS_Subset
  <2> HIDE DEF A
  <2>3. Cardinality(A) + Cardinality({}) <= Cardinality(Request)
    BY <2>1, Fewer
  <2>4. Cardinality(A) <= Cardinality(Request)
    BY <2>2, <2>3, FS_EmptySet, FS_CardinalityType
  <2> QED BY <2>4 DEF A
<1> QED BY <1>1, <1>2, <1>3, TypedInit, PTL DEF Spec

-----------------------------------------------------------------------------
(* What the trees show.                                                    *)

\* Induction over the natural numbers, for a set of them: a number that were
\* missing would have a least one.
LEMMA AllNumbers ==
  ASSUME NEW T, 0 \in T, \A n \in Nat : n \in T => n + 1 \in T
  PROVE  Nat \subseteq T
<1> DEFINE R == OpToRel(<, Nat)
           Missing == Nat \ T
<1> SUFFICES ASSUME Missing # {} PROVE FALSE
  OBVIOUS
<1>1. IsWellFoundedOn(R, Nat)
  BY NatLessThanWellFounded, Zenon
<1>2. \A a, b \in Nat : a < b => <<a, b>> \in R
  BY Zenon DEF OpToRel
<1> HIDE DEF R
<1>3. PICK k \in Missing : \A j \in Missing : <<j, k>> \notin R
  BY <1>1, WFMin
<1>4. k - 1 \in Nat /\ k - 1 < k /\ k = (k - 1) + 1
  BY <1>3
<1>5. k - 1 \in T
  BY <1>2, <1>3, <1>4
<1> QED BY <1>3, <1>4, <1>5

\* The levels that a tree is built in, down to level k.
Levels(K, k, g) ==
  g = [n \in 0 .. k |-> IF n = 0 THEN TreeRoots(K)
                        ELSE g[n-1] \cup Children(K, g[n-1])]

\* They are there, however far down.
LEMMA LevelsExist ==
  ASSUME NEW K
  PROVE  \A k \in Nat : \E g : Levels(K, k, g)
<1> DEFINE T == {k \in Nat : \E g : Levels(K, k, g)}
<1>1. 0 \in T
  <2> DEFINE g == [n \in 0 .. 0 |-> TreeRoots(K)]
  <2>1. Levels(K, 0, g)
    BY DEF Levels
  <2> QED BY <2>1
<1>2. ASSUME NEW k \in Nat, k \in T PROVE k + 1 \in T
  <2>1. PICK g : Levels(K, k, g)
    BY <1>2
  <2> DEFINE next(n) == g[n-1] \cup Children(K, g[n-1])
             h == [n \in 0 .. k+1 |-> IF n = 0 THEN TreeRoots(K) ELSE next(n)]
  <2>2. ASSUME NEW n \in 0 .. k PROVE h[n] = g[n]
    <3>1. g[n] = IF n = 0 THEN TreeRoots(K) ELSE next(n)
      <4> DEFINE f == [i \in 0 .. k |-> IF i = 0 THEN TreeRoots(K) ELSE next(i)]
      <4>1. g = f
        BY <2>1 DEF Levels
      <4>2. f[n] = IF n = 0 THEN TreeRoots(K) ELSE next(n)
        OBVIOUS
      <4> HIDE DEF f
      <4>3. g[n] = f[n]
        BY <4>1, Zenon
      <4> HIDE DEF next
      <4> QED BY <4>2, <4>3, Zenon
    <3>2. n \in 0 .. k+1
      OBVIOUS
    <3> HIDE DEF next
    <3> QED BY <3>1, <3>2
  <2>3. ASSUME NEW n \in 0 .. k+1, n # 0 PROVE g[n-1] = h[n-1]
    BY <2>2, <2>3, n - 1 \in 0 .. k
  <2>4. Levels(K, k+1, h)
    <3>1. \A n \in 0 .. k+1 : n # 0 =>
            next(n) = h[n-1] \cup Children(K, h[n-1])
      BY <2>3
    <3> DEFINE f == [n \in 0 .. k+1 |-> IF n = 0 THEN TreeRoots(K)
                        ELSE h[n-1] \cup Children(K, h[n-1])]
    <3>2. \A n \in 0 .. k+1 : h[n] = f[n]
      BY <3>1
    <3>3. h = f
      BY <3>2
    <3> QED BY <3>3 DEF Levels
  <2> QED BY <2>4
<1> HIDE DEF T
<1>3. Nat \subseteq T
  BY <1>1, <1>2, AllNumbers
<1> QED BY <1>3 DEF T

\* The tree shows its last level.
LEMMA ShownIs ==
  ASSUME NEW K, IsFiniteSet(K)
  PROVE  \E g : Levels(K, Cardinality(K), g) /\ Shown(K) = g[Cardinality(K)]
<1> DEFINE N == Cardinality(K)
           level[n \in 0 .. N] ==
             IF n = 0 THEN TreeRoots(K)
             ELSE level[n-1] \cup Children(K, level[n-1])
<1>1. N \in Nat
  BY FS_CardinalityType
<1>2. \E g : g = [n \in 0 .. N |-> IF n = 0 THEN TreeRoots(K)
             ELSE g[n-1] \cup Children(K, g[n-1])]
  <2>1. PICK g : Levels(K, N, g)
    BY <1>1, LevelsExist, Zenon
  <2> HIDE DEF N
  <2> QED BY <2>1, Zenon DEF Levels
<1>3. level = [n \in 0 .. N |-> IF n = 0 THEN TreeRoots(K)
          ELSE level[n-1] \cup Children(K, level[n-1])]
  <2> HIDE DEF N
  <2> QED BY <1>2, Zenon
<1>4. Shown(K) = level[N]
  BY Zenon DEF Shown
<1> HIDE DEF level
<1> QED BY <1>3, <1>4 DEF Levels

\* Level by level: the roots, then what is below the level before.
LEMMA LevelsAre ==
  ASSUME NEW K, NEW k \in Nat, NEW g, Levels(K, k, g)
  PROVE  /\ g[0] = TreeRoots(K)
         /\ \A n \in 0 .. k : n # 0 => g[n] = g[n-1] \cup Children(K, g[n-1])
<1> DEFINE next(n) == g[n-1] \cup Children(K, g[n-1])
           f == [n \in 0 .. k |-> IF n = 0 THEN TreeRoots(K) ELSE next(n)]
<1>1. g = f
  BY DEF Levels
<1>2. /\ f[0] = TreeRoots(K)
      /\ \A n \in 0 .. k : n # 0 => f[n] = next(n)
  <2> HIDE DEF next
  <2> QED OBVIOUS
<1> HIDE DEF f
<1> QED BY <1>1, <1>2

\* A level has rows of the table that are there.
LEMMA LevelsLive ==
  ASSUME NEW K, NEW k \in Nat, NEW g, Levels(K, k, g)
  PROVE  \A n \in 0 .. k : g[n] \subseteq {x \in K : Live(x)}
<1> DEFINE S == {x \in K : Live(x)}
           T == {n \in Nat : n <= k => g[n] \subseteq S}
<1>1. 0 \in T
  BY LevelsAre DEF TreeRoots
<1>2. ASSUME NEW n \in Nat, n \in T PROVE n + 1 \in T
  <2> SUFFICES ASSUME n + 1 <= k PROVE g[n+1] \subseteq S
    OBVIOUS
  <2>1. g[n] \subseteq S
    BY <1>2
  <2>2. n + 1 \in 0 .. k /\ n + 1 # 0 /\ (n + 1) - 1 = n
    OBVIOUS
  <2>3. g[n+1] = g[n] \cup Children(K, g[n])
    BY <2>2, LevelsAre
  <2> QED BY <2>1, <2>3 DEF Children
<1> HIDE DEF T
<1>3. Nat \subseteq T
  BY <1>1, <1>2, AllNumbers
<1> QED BY <1>3 DEF T

\* The roots are on every level.
LEMMA RootsShown ==
  ASSUME NEW K, NEW k \in Nat, NEW g, Levels(K, k, g)
  PROVE  TreeRoots(K) \subseteq g[k]
<1> DEFINE T == {n \in Nat : n <= k => TreeRoots(K) \subseteq g[n]}
<1>1. 0 \in T
  BY LevelsAre
<1>2. ASSUME NEW n \in Nat, n \in T PROVE n + 1 \in T
  <2> SUFFICES ASSUME n + 1 <= k PROVE TreeRoots(K) \subseteq g[n+1]
    OBVIOUS
  <2>1. TreeRoots(K) \subseteq g[n]
    BY <1>2
  <2>2. n + 1 \in 0 .. k /\ n + 1 # 0 /\ (n + 1) - 1 = n
    OBVIOUS
  <2>3. g[n+1] = g[n] \cup Children(K, g[n])
    BY <2>2, LevelsAre
  <2> QED BY <2>1, <2>3
<1> HIDE DEF T
<1>3. Nat \subseteq T
  BY <1>1, <1>2, AllNumbers
<1> QED BY <1>3 DEF T

\* A level that adds nothing is the last; one that adds something has more
\* rows than those above it.  So as many levels as rows are enough.
LEMMA LevelsEnd ==
  ASSUME NEW K, IsFiniteSet(K), NEW g, Levels(K, Cardinality(K), g)
  PROVE  Children(K, g[Cardinality(K)]) \subseteq g[Cardinality(K)]
<1> DEFINE N == Cardinality(K)
           Last(n) == Children(K, g[n]) \subseteq g[n]
           T == {n \in Nat : n <= N => Last(n) \/ Cardinality(g[n]) > n}
<1>0. N \in Nat
  BY FS_CardinalityType
<1> HIDE DEF N
<1>1. \A n \in 0 .. N : /\ IsFiniteSet(g[n]) /\ Cardinality(g[n]) \in Nat
                        /\ Cardinality(g[n]) <= N
  <2> TAKE n \in 0 .. N
  <2>1. g[n] \subseteq K
    BY <1>0, LevelsLive DEF N
  <2> QED BY <2>1, FS_Subset, FS_CardinalityType DEF N
<1>2. 0 \in T
  <2>1. CASE g[0] = {}
    BY <2>1 DEF Children
  <2>2. CASE g[0] # {}
    BY <1>0, <1>1, <2>2, FS_EmptySet
  <2> QED BY <2>1, <2>2
<1>3. ASSUME NEW n \in Nat, n \in T PROVE n + 1 \in T
  <2> SUFFICES ASSUME n + 1 <= N PROVE Last(n+1) \/ Cardinality(g[n+1]) > n + 1
    OBVIOUS
  <2>1. Last(n) \/ Cardinality(g[n]) > n
    BY <1>0, <1>3
  <2>2. n \in 0 .. N /\ n + 1 \in 0 .. N /\ n + 1 # 0 /\ (n + 1) - 1 = n
    BY <1>0
  <2>3. g[n+1] = g[n] \cup Children(K, g[n])
    BY <1>0, <2>2, LevelsAre DEF N
  <2>4. CASE Last(n)
    BY <2>3, <2>4
  <2>5. CASE ~Last(n)
    <3>1. g[n] \subseteq g[n+1] /\ g[n] # g[n+1]
      BY <2>3, <2>5
    <3>2. Cardinality(g[n]) < Cardinality(g[n+1])
      BY <1>1, <2>2, <3>1, FS_Subset
    <3> QED BY <1>1, <2>1, <2>2, <2>5, <3>2
  <2> QED BY <2>4, <2>5
<1> HIDE DEF T
<1>4. Nat \subseteq T
  BY <1>2, <1>3, AllNumbers
<1>5. Last(N) \/ Cardinality(g[N]) > N
  BY <1>0, <1>4 DEF T
<1>6. ~(Cardinality(g[N]) > N)
  BY <1>0, <1>1
<1> QED BY <1>5, <1>6 DEF N

\* No row refers to an id that never had one, and no handler that has checked
\* a parent is about to; a handler does not write a row as its own parent.
Known == \A x \in Id : Live(x) => \A p \in {row[x].parent} \ {None} :
           row[p] # NoRow
Sound(h) ==
  /\ h.pc \in {"insert", "update"} => \A y \in Holds(h) : row[y] # NoRow
  /\ h.pc \in WritePC /\ h.kind \in {Dept, Menu} /\ h.id # None =>
       h.parent # h.id

\* Rows that all have their parents among them.
Closed(S) == \A x \in S : row[x].parent \in S

\* One of them was moved below its own subtree.
Looped ==
  \A K \in {Dept, Menu} : \A S \in SUBSET {x \in K : Live(x)} :
    S # {} /\ Closed(S) => S \cap looped # {}

Moves == Known /\ Looped /\ \A q \in Request : Sound(req[q])

\* A request that begins does not ask for a row below itself.
LEMMA NotItself ==
  ASSUME Typed, NEW q \in Request, BeginStep(q)
  PROVE  LET h == req'[q] IN
         h.pc \in WritePC /\ h.kind \in {Dept, Menu} /\ h.id # None =>
           h.parent # h.id
<1>1. ASSUME NEW h, Begin(q, h) PROVE req'[q] = h
  BY <1>1 DEF Begin, Typed, HandlersTyped
<1>2. ASSUME NEW n, NEW on, NEW x, NEW p,
             WriteDept(q, x, n, p, on) \/ WriteMenu(q, x, n, p, on)
      PROVE  req'[q].id # None => req'[q].parent # req'[q].id
  BY <1>1, <1>2 DEF WriteDept, WriteMenu, BeginWrite
<1>3. ASSUME NEW K \in {Role, Scope, Rule, User}, NEW op, NEW n, NEW on, NEW x,
             NEW p, NEW L, NEW next, BeginWrite(q, op, K, x, n, p, on, L, next)
      PROVE  req'[q].kind \notin {Dept, Menu}
  <2>1. req'[q].kind = K
    BY <1>1, <1>3 DEF BeginWrite
  <2> QED BY <2>1, Apart
<1>4. ASSUME NEW K, NEW op, NEW x, NEW pc \in DropPC, BeginDrop(q, op, K, x, pc)
      PROVE  req'[q].pc \notin WritePC
  <2>1. req'[q].pc = pc
    BY <1>1, <1>4 DEF BeginDrop
  <2> QED BY <2>1, Distinct
<1>5. ASSUME NEW K \in {Role, Scope}, NEW op, NEW x, NEW T, NEW L,
             BeginLinks(q, op, K, x, T, L)
      PROVE  req'[q].kind \notin {Dept, Menu}
  <2>1. req'[q].kind = K
    BY <1>1, <1>5 DEF BeginLinks
  <2> QED BY <2>1, Apart
<1>6. CASE \E n \in area.names, on \in area.on :
             \/ \E x, p \in Of(Dept) \cup {None} : WriteDept(q, x, n, p, on)
             \/ \E x, p \in Of(Menu) \cup {None} : WriteMenu(q, x, n, p, on)
  BY <1>2, <1>6
<1>7. CASE \/ \E n \in area.names, on \in area.on :
                \/ \E x \in Of(Role) \cup {None} : WriteRole(q, x, n, on)
                \/ \E x \in Of(Scope) \cup {None} : WriteScope(q, x, n, on)
           \/ \E n \in area.names :
                \/ \E x \in Of(Rule) \cup {None} : WriteRule(q, x, n)
                \/ \E x \in Of(User) \cup {None}, d \in Of(Dept) \cup {None},
                      L \in SUBSET Of(Role) : WriteUser(q, x, n, d, L)
  BY <1>3, <1>7 DEF WriteRole, WriteScope, WriteRule, WriteUser
<1>8. CASE \/ \E x \in Of(Dept) : DropDept(q, x)
           \/ \E x \in Of(Menu) : DropMenu(q, x)
           \/ \E x \in Of(User) : DropUser(q, x)
  BY <1>4, <1>8 DEF DropDept, DropMenu, DropUser, DropPC
<1>9. CASE \/ \E x \in Of(Role), L \in SUBSET Of(Menu) : UpdateMenus(q, x, L)
           \/ \E x \in Of(Role), L \in SUBSET Of(Scope) : UpdateScopes(q, x, L)
           \/ \E x \in Of(Scope), L \in SUBSET Of(Rule) : UpdateRules(q, x, L)
  BY <1>5, <1>9 DEF UpdateMenus, UpdateScopes, UpdateRules
<1> QED BY <1>6, <1>7, <1>8, <1>9 DEF BeginStep

\* A step that changes no row and moves one handler.
LEMMA QuietTrees ==
  ASSUME Typed, Moves, NEW q \in Request, NEW h,
         \A p \in Request : req'[p] = IF p = q THEN h ELSE req[p],
         UNCHANGED <<row, looped>>, Sound(h)
  PROVE  Moves'
<1>1. Known' /\ Looped'
  BY DEF Moves, Known, Looped, Closed, Live
<1>2. ASSUME NEW p \in Request PROVE Sound(req[p])'
  BY DEF Moves, Sound
<1> QED BY <1>1, <1>2 DEF Moves

\* Rows that are written or deleted are not lost to the handlers: an id that
\* had a row keeps having had one.
LEMMA StaysSound ==
  ASSUME Typed, Moves, NEW q \in Request, Write(q),
         \A x \in Id : row[x] # NoRow => row'[x] # NoRow
  PROVE  \A p \in Request : Sound(req[p])'
<1> SUFFICES ASSUME NEW p \in Request PROVE Sound(req[p])'
  OBVIOUS
<1>1. req'[p] = Idle \/ req'[p] = req[p]
  BY WriteTyped
<1>2. CASE req'[p] = Idle
  BY <1>2, Distinct DEF Sound, WritePC
<1>3. CASE req'[p] = req[p]
  <2>1. req[p].pc \in {"insert", "update"} => Holds(req[p]) \subseteq Id
    BY AtWrite DEF Proper, Change, Holds, Id
  <2> QED BY <1>3, <2>1 DEF Moves, Sound
<1> QED BY <1>1, <1>2, <1>3

\* A new row closes no cycle: nothing that was there referred to its id, and
\* its parent was there.
LEMMA InsertTrees ==
  ASSUME Typed, Moves, NEW q \in Request, NEW x \in Id, InsertRow(q, x)
  PROVE  Moves'
<1> DEFINE h == req[q]
<1>1. /\ h.pc = "insert" /\ x \in h.kind /\ row[x] = NoRow
      /\ row' = [row EXCEPT ![x] = Written(h)] /\ Write(q) /\ looped' = looped
  BY DEF InsertRow
<1>2. /\ \A y \in Id : row'[y] = IF y = x THEN Written(h) ELSE row[y]
      /\ Written(h).parent = h.parent /\ Written(h) \in Row
      /\ h.parent \in Id \cup {None}
  <2>1. /\ Written(h).parent = h.parent /\ Written(h) \in Row
        /\ h.parent \in ParentOf(h.kind)
    BY <1>1, WrittenRow
  <2> QED BY <1>1, <2>1 DEF Typed, RowsTyped, ParentOf, Id
<1>3. h.parent # None => row[h.parent] # NoRow
  <2>1. h.parent # None => h.parent \in Holds(h)
    BY <1>1 DEF Holds, WritePC
  <2> QED BY <1>1, <2>1 DEF Moves, Sound
<1> HIDE DEF h
<1>4. \A y \in Id : row[y] # NoRow => row'[y] # NoRow
  BY <1>2, Distinct
<1>5. \A y \in Id : y # x /\ Live(y)' => Live(y) /\ row'[y] = row[y]
  BY <1>2 DEF Live
<1>6. \A y \in Id : Live(y) => row[y].parent # x
  BY <1>1, SetAssumption DEF Moves, Known
<1>7. Known'
  <2> SUFFICES ASSUME NEW y \in Id, Live(y)', row'[y].parent # None
               PROVE  row'[row'[y].parent] # NoRow
    BY DEF Known
  <2>1. CASE y = x
    BY <1>2, <1>3, <1>4, <2>1
  <2>2. CASE y # x
    <3>1. Live(y) /\ row'[y] = row[y] /\ row[y].parent \in Id
      BY <1>5, <2>2, ParentsAre DEF Id
    <3> QED BY <1>4, <3>1 DEF Moves, Known
  <2> QED BY <2>1, <2>2
<1>8. Looped'
  <2> SUFFICES ASSUME NEW K \in {Dept, Menu}, NEW S \in SUBSET {y \in K : Live(y)'},
                      S # {}, \A y \in S : row'[y].parent \in S
               PROVE  S \cap looped # {}
    BY <1>1 DEF Looped, Closed
  <2>1. K \subseteq Id
    BY DEF Id
  <2>2. S \ {x} \in SUBSET {y \in K : Live(y)}
    BY <1>5, <2>1
  <2>3. Closed(S \ {x})
    BY <1>5, <1>6, <2>1, <2>2 DEF Closed
  <2>4. S \ {x} # {}
    <3>1. x \in S => row'[x].parent = h.parent /\ h.parent # x
      BY <1>1, <1>2, <1>3, SetAssumption
    <3> QED BY <3>1
  <2>5. (S \ {x}) \cap looped # {}
    BY <2>2, <2>3, <2>4 DEF Moves, Looped
  <2> QED BY <2>5
<1>9. \A p \in Request : Sound(req[p])'
  BY <1>1, <1>4, StaysSound
<1> QED BY <1>7, <1>8, <1>9 DEF Moves

\* A move that is not below its own subtree closes no cycle: what would be a
\* cycle with it has one outside of that subtree without it.
LEMMA UpdateTrees ==
  ASSUME Typed, Moves, NEW q \in Request, UpdateRow(q)
  PROVE  Moves'
<1> DEFINE h == req[q]
           x == h.id
<1>1. /\ h.pc = "update" /\ Live(x) /\ Write(q)
      /\ row' = [row EXCEPT ![x] = Written(h)]
      /\ looped' = IF h.parent \in Subtree(h.kind, x) \ {x}
                   THEN looped \cup {x} ELSE looped \ {x}
  BY DEF UpdateRow
<1>2. x \in h.kind /\ h.kind \in Kinds /\ x \in Id /\ x # None
  BY <1>1, AtWrite, Apart DEF WritesRow, Proper, Change
<1>3. /\ \A y \in Id : row'[y] = IF y = x THEN Written(h) ELSE row[y]
      /\ Written(h).parent = h.parent /\ Written(h) \in Row
      /\ h.parent \in Id \cup {None}
  <2>1. /\ Written(h).parent = h.parent /\ Written(h) \in Row
        /\ h.parent \in ParentOf(h.kind)
    BY <1>1, WrittenRow
  <2> QED BY <1>1, <1>2, <2>1 DEF Typed, RowsTyped, ParentOf, Id
<1>4. h.parent # None => row[h.parent] # NoRow
  <2>1. h.parent # None => h.parent \in Holds(h)
    BY <1>1 DEF Holds, WritePC
  <2> QED BY <1>1, <2>1 DEF Moves, Sound
<1>5. h.kind \in {Dept, Menu} => h.parent # x
  <2>1. h.pc \in WritePC
    BY <1>1 DEF WritePC
  <2> QED BY <1>2, <2>1 DEF Moves, Sound
<1> HIDE DEF h, x
<1>6. \A y \in Id : row[y] # NoRow => row'[y] # NoRow
  BY <1>3, Distinct
<1>7. \A y \in Id : y # x /\ Live(y)' => Live(y) /\ row'[y] = row[y]
  BY <1>3 DEF Live
<1>8. Known'
  <2> SUFFICES ASSUME NEW y \in Id, Live(y)', row'[y].parent # None
               PROVE  row'[row'[y].parent] # NoRow
    BY DEF Known
  <2>1. CASE y = x
    BY <1>3, <1>4, <1>6, <2>1
  <2>2. CASE y # x
    <3>1. Live(y) /\ row'[y] = row[y] /\ row[y].parent \in Id
      BY <1>7, <2>2, ParentsAre DEF Id
    <3> QED BY <1>6, <3>1 DEF Moves, Known
  <2> QED BY <2>1, <2>2
<1>9. Looped'
  <2> SUFFICES ASSUME NEW K \in {Dept, Menu}, NEW S \in SUBSET {y \in K : Live(y)'},
                      S # {}, \A y \in S : row'[y].parent \in S, x \notin looped' \cap S
               PROVE  S \cap looped' # {}
    BY DEF Looped, Closed
  <2>1. K \subseteq Id /\ K \in Kinds
    BY DEF Id, Kinds
  <2>2. ASSUME NEW T \in SUBSET S, T # {}, x \notin T, Closed(T)
        PROVE  S \cap looped' # {}
    <3>1. T \in SUBSET {y \in K : Live(y)}
      BY <1>7, <2>1, <2>2
    <3>2. PICK z \in T : z \in looped
      BY <2>2, <3>1 DEF Moves, Looped
    <3> QED BY <1>1, <2>2, <3>2
  <2>3. CASE x \notin S
    <3>1. Closed(S)
      BY <1>7, <2>1, <2>3 DEF Closed
    <3> QED BY <2>2, <2>3, <3>1
  <2>4. CASE x \in S
    <3>1. h.kind = K /\ h.parent \in S /\ h.parent # x
      BY <1>2, <1>3, <1>5, <2>1, <2>4, Apart
    <3>2. h.parent \notin Subtree(K, x)
      BY <1>1, <2>4, <3>1
    <3>3. PICK T \in SUBSET K : x \in T /\ Children(K, T) \subseteq T /\ h.parent \notin T
      BY <3>1, <3>2 DEF Subtree
    <3>4. Closed(S \ T)
      <4> SUFFICES ASSUME NEW y \in S \ T PROVE row[y].parent \in S \ T
        BY DEF Closed
      <4>1. y # x /\ y \in K /\ Live(y) /\ row[y].parent \in S
        BY <1>7, <2>1, <3>3
      <4> QED BY <3>3, <4>1 DEF Children
    <3> QED BY <2>2, <3>1, <3>3, <3>4
  <2> QED BY <2>3, <2>4
<1>10. \A p \in Request : Sound(req[p])'
  BY <1>1, <1>6, StaysSound
<1> QED BY <1>8, <1>9, <1>10 DEF Moves

\* Rows that go close no cycle.
LEMMA DeleteTrees ==
  ASSUME Typed, Moves, NEW q \in Request, Write(q), looped' = looped,
         \A x \in Id : row'[x] = row[x] \/ row'[x] = Deleted
  PROVE  Moves'
<1>1. \A x \in Id : Live(x)' => Live(x) /\ row'[x] = row[x]
  BY DEF Live
<1>2. \A x \in Id : row[x] # NoRow => row'[x] # NoRow
  BY Distinct
<1>3. Known'
  <2> SUFFICES ASSUME NEW y \in Id, Live(y)', row'[y].parent # None
               PROVE  row'[row'[y].parent] # NoRow
    BY DEF Known
  <2>1. Live(y) /\ row'[y] = row[y] /\ row[y].parent \in Id
    BY <1>1, ParentsAre DEF Id
  <2> QED BY <1>2, <2>1 DEF Moves, Known
<1>4. Looped'
  <2> SUFFICES ASSUME NEW K \in {Dept, Menu}, NEW S \in SUBSET {y \in K : Live(y)'},
                      S # {}, \A y \in S : row'[y].parent \in S
               PROVE  S \cap looped # {}
    BY DEF Looped, Closed
  <2>1. K \subseteq Id
    BY DEF Id
  <2>2. S \in SUBSET {y \in K : Live(y)} /\ Closed(S)
    BY <1>1, <2>1 DEF Closed
  <2> QED BY <2>2 DEF Moves, Looped
<1> QED BY <1>2, <1>3, <1>4, StaysSound DEF Moves

\* Every step keeps it so.
LEMMA TreesStep ==
  ASSUME Typed, Moves, [Next]_vars
  PROVE  Moves'
<1>1. CASE UNCHANGED vars
  BY <1>1 DEF vars, Moves, Known, Looped, Closed, Sound, Live
<1>2. ASSUME NEW q \in Request, BeginStep(q)
      PROVE  Moves'
  <2>1. PICK h : Begin(q, h) /\ Proper(h) /\ Fresh(h)
    BY <1>2, Begins
  <2>2. /\ \A p \in Request : req'[p] = IF p = q THEN h ELSE req[p]
        /\ UNCHANGED <<row, looped>>
    BY <2>1, MoveTyped DEF Begin
  <2>3. Sound(h)
    BY <1>2, <2>1, <2>2, NotItself DEF Sound, Fresh
  <2> QED BY <2>2, <2>3, QuietTrees
<1>3. ASSUME NEW q \in Request, CheckStep(q)
      PROVE  Moves'
  <2>1. PICK h : /\ req' = [req EXCEPT ![q] = h]
                 /\ Proper(h) /\ Checked(q, h)
                 /\ UNCHANGED <<area, row, link, raced, disturbed>>
    BY <1>3, Checks
  <2>2. \A p \in Request : req'[p] = IF p = q THEN h ELSE req[p]
    BY <2>1, MoveTyped
  <2>3. looped' = looped
    BY <1>3 DEF CheckStep, FindName, FindParent, EnsureLinks, KnownLinks,
       FindUsers, FindChildren, Step
  <2>4. Sound(h)
    BY <2>1 DEF Checked, Moves, Sound, Live
  <2> QED BY <2>1, <2>2, <2>3, <2>4, QuietTrees
<1>4. ASSUME NEW q \in Request, LoginStep(q) \/ Abort(q)
      PROVE  Moves'
  <2>1. PICK h : /\ req' = [req EXCEPT ![q] = h] /\ (h = Idle \/ h \in Login)
                 /\ UNCHANGED row
    BY <1>4, LoginTyped DEF Abort, Return
  <2>2. \A p \in Request : req'[p] = IF p = q THEN h ELSE req[p]
    BY <2>1, MoveTyped
  <2>3. looped' = looped
    BY <1>4 DEF LoginStep, Step, BeginAuthenticate, EnsureUserDeptAllowed,
       UserRoles, RoleMenus, EnsureUserRolesAllowed, Abort
  <2>4. Sound(h)
    BY <2>1, Nothing DEF Sound, WritePC
  <2> QED BY <2>1, <2>2, <2>3, <2>4, QuietTrees
<1>5. ASSUME NEW q \in Request, ReplaceLinks(q)
      PROVE  Moves'
  BY <1>5, DeleteTrees DEF ReplaceLinks
<1>6. ASSUME NEW q \in Request, DeleteRow(q)
      PROVE  Moves'
  BY <1>6, DeleteTrees DEF DeleteRow, Typed, RowsTyped
<1>7. ASSUME NEW q \in Request, DeleteStep(q)
      PROVE  Moves'
  <2>1. \A x \in Id : row'[x] = row[x] \/ row'[x] = Deleted
    BY <1>7, Deletions
  <2>2. Write(q) /\ looped' = looped
    BY <1>7 DEF DeleteStep, DeleteRows
  <2> QED BY <2>1, <2>2, DeleteTrees
<1> QED
  BY <1>1, <1>2, <1>3, <1>4, <1>5, <1>6, <1>7, StepKinds, InsertTrees,
     UpdateTrees

\* A row that is not shown is in a set of rows that have their parents in it:
\* the rows that are not shown.
LEMMA HiddenClosed ==
  ASSUME Typed, NEW K \in {Dept, Menu}
  PROVE  \A x \in K : Live(x) /\ x \notin Shown(K) =>
           row[x].parent \in K /\ Live(row[x].parent)
             /\ row[x].parent \notin Shown(K)
<1> DEFINE N == Cardinality(K)
<1>1. K \in Kinds /\ K \subseteq Id /\ IsFiniteSet(K) /\ N \in Nat
  BY SetAssumption, FS_Subset, FS_CardinalityType DEF Kinds, Id
<1>2. PICK g : Levels(K, N, g) /\ Shown(K) = g[N]
  BY <1>1, ShownIs
<1>3. Children(K, Shown(K)) \subseteq Shown(K)
  BY <1>1, <1>2, LevelsEnd
<1>4. TreeRoots(K) \subseteq Shown(K)
  BY <1>1, <1>2, RootsShown
<1>5. \A x \in K : Live(x) => row[x].parent \in K \cup {None}
  BY <1>1 DEF Typed, RowsTyped, ParentOf
<1> HIDE DEF N
<1> SUFFICES ASSUME NEW x \in K, Live(x), x \notin Shown(K)
             PROVE  row[x].parent \in K /\ Live(row[x].parent)
                      /\ row[x].parent \notin Shown(K)
  OBVIOUS
<1>6. row[x].parent \in K /\ Live(row[x].parent)
  BY <1>4, <1>5 DEF TreeRoots
<1>7. row[x].parent \notin Shown(K)
  BY <1>3 DEF Children
<1> QED BY <1>6, <1>7

\* HiddenOnlyByMoves: a department or menu is missing from its tree only in
\* or below a row whose last move put it below a row of its own subtree.
THEOREM HiddenByMoves == Spec => []HiddenOnlyByMoves
<1>1. Init => Moves
  <2> SUFFICES ASSUME Init PROVE Moves
    OBVIOUS
  <2>1. \A x \in Id : Live(x) => row[x].parent = None
    BY DEF Init, Live
  <2>2. Known /\ Looped
    <3>1. \A K \in {Dept, Menu} : K \subseteq Id
      BY DEF Id
    <3>2. ASSUME NEW K \in {Dept, Menu}, NEW S \in SUBSET {x \in K : Live(x)},
                 NEW x \in S, Closed(S)
          PROVE  FALSE
      BY <2>1, <3>1, <3>2, SetAssumption DEF Closed
    <3> QED BY <2>1, <3>2 DEF Known, Looped
  <2>3. \A q \in Request : Sound(req[q])
    BY DEF Init, Idle, Sound, WritePC
  <2> QED BY <2>2, <2>3 DEF Moves
<1>2. ASSUME Typed, Moves PROVE HiddenOnlyByMoves
  <2> SUFFICES ASSUME NEW K \in {Dept, Menu}, NEW x \in K, Live(x),
                      x \notin Shown(K)
               PROVE  \E y \in looped \cap K : Live(y) /\ x \in Subtree(K, y)
    BY DEF HiddenOnlyByMoves
  <2> DEFINE S == {y \in K : Live(y) /\ y \notin Shown(K) /\ x \in Subtree(K, y)}
  <2>1. x \in S
    BY DEF Subtree
  <2>2. Closed(S)
    <3> SUFFICES ASSUME NEW y \in S PROVE row[y].parent \in S
      BY DEF Closed
    <3>1. /\ row[y].parent \in K /\ Live(row[y].parent)
          /\ row[y].parent \notin Shown(K)
      BY <1>2, HiddenClosed
    <3>2. x \in Subtree(K, row[y].parent)
      <4> SUFFICES ASSUME NEW T \in SUBSET K, row[y].parent \in T,
                          Children(K, T) \subseteq T
                   PROVE  x \in T
        BY DEF Subtree
      <4>1. y \in T
        BY DEF Children
      <4> QED BY <4>1 DEF Subtree
    <3> QED BY <3>1, <3>2
  <2>3. S \in SUBSET {y \in K : Live(y)}
    OBVIOUS
  <2>4. S \cap looped # {}
    <3> HIDE DEF S
    <3> QED BY <1>2, <2>1, <2>2, <2>3 DEF Moves, Looped
  <2> QED BY <2>4
<1> QED BY <1>1, <1>2, TypedInit, TypedStep, TreesStep, PTL DEF Spec
=============================================================================
