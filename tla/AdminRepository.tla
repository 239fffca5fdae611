---------------------------- MODULE AdminRepository ----------------------------
(***************************************************************************)
(* The admin plugin's repository in memory (Mem...) and in the database    *)
(* (Db...): internal/app/admin/repo.  Reads are operators, what the order  *)
(* of a list is is left out; writes give the store after them and what is  *)
(* answered.                                                               *)
(***************************************************************************)
EXTENDS TwoStores

-----------------------------------------------------------------------------
(* Links.                                                                  *)

\* hasUser, hasRole, hasDept and the others.
MemHas(m, K, id) == Has(m, K, id)

\* menusByIDs and the others: an id that has no row is passed over.
MemByIDs(m, K, L) == {r \in m.tab[K] : r.id \in Range(L)}
DbByIDs(d, K, S)  == {r \in d.tab[K] : r.id \in S}

\* What a read under a row answers: ErrNotFound when the row is not there.
Answered(found, rows) ==
  [found |-> found, rows |-> IF found THEN rows ELSE {}]

\* What a list has at these places, in its order.
Kept(L, At) ==
  [n \in 1 .. Cardinality(At) |->
     L[CHOOSE i \in At : Cardinality({j \in At : j <= i}) = n]]

\* filterKnownIDs: each known id once.
MemKnown(m, K, L) ==
  Kept(L, {i \in DOMAIN L :
             MemHas(m, K, L[i]) /\ \A j \in 1 .. i - 1 : L[j] # L[i]})
DbKnown(d, K, L) == {id \in Range(L) : Has(d, K, id)}

\* deleteInt, for every list of a table.
MemUnlink(m, K, S) ==
  [m EXCEPT !.link[K] =
     [x \in Ids |-> LET L == m.link[K][x] IN
                    Kept(L, {i \in DOMAIN L : L[i] \notin S})]]

\* The lists of S are forgotten.
Emptied(lists, S) == [x \in Ids |-> IF x \in S THEN <<>> ELSE lists[x]]

\* ensureRoles and ensureDataRules count the distinct ids.
DbEnsure(d, K, L) ==
  Cardinality({r \in d.tab[K] : r.id \in Range(L)}) = Cardinality(Range(L))

\* replaceUserRoles, replaceRoleMenus and the others delete the pairs of x
\* and insert one for each id: an id given twice meets the unique index.
DbReplaceLinks(d, K, x, L) ==
  IF Repeats(L) THEN Conflict(d)
  ELSE Ok([d EXCEPT !.link[K] =
             {l \in @ : l[1] # x} \cup {<<x, L[i]>> : i \in DOMAIN L}])

Linked(d, K, x) == {y \in Ids : <<x, y>> \in d.link[K]}

-----------------------------------------------------------------------------
(* Users.                                                                  *)

MemUsers(m) == {u \in m.tab["user"] : ~u.deleted}
DbUsers(d)  == {u \in d.tab["user"] : ~u.deleted}

MemCreateUser(m, v, dept, L) ==
  IF MemHas(m, "dept", dept) /\ \A r \in Range(L) : MemHas(m, "role", r)
  THEN Ok([Add(m, "user", NewRow(v, dept, TRUE)) EXCEPT
             !.link["userRole"][m.next["user"]] = L])
  ELSE NotFound(m)

DbCreateUser(d, v, dept, L) ==
  IF Has(d, "dept", dept) /\ DbEnsure(d, "role", L)
  THEN Tx(d, DbReplaceLinks(Add(d, "user", NewRow(v, dept, TRUE)), "userRole",
                            d.next["user"], L))
  ELSE NotFound(d)

MemUpdateUser(m, id, v, dept, L) ==
  IF /\ dept # 0 => MemHas(m, "dept", dept)
     /\ \A r \in Range(L) : MemHas(m, "role", r)
     /\ MemHas(m, "user", id)
  THEN Ok([Change(m, "user", Find(m, "user", {id}),
                  LAMBDA u : [u EXCEPT !.val = v, !.ref = dept])
           EXCEPT !.link["userRole"][id] = L])
  ELSE NotFound(m)

DbUpdateUser(d, id, v, dept, L) ==
  IF /\ dept # 0 => Has(d, "dept", dept)
     /\ DbEnsure(d, "role", L)
     /\ Has(d, "user", id)
  THEN Tx(d, DbReplaceLinks(
               Change(d, "user", Find(d, "user", {id}),
                      LAMBDA u : [u EXCEPT !.val = v, !.ref = dept]),
               "userRole", id, L))
  ELSE NotFound(d)

\* Nickname, avatar, email, login time and password.
MemUpdateUserColumns(m, id, v) ==
  IF MemHas(m, "user", id)
  THEN Ok(Change(m, "user", Find(m, "user", {id}),
                 LAMBDA u : [u EXCEPT !.val = v]))
  ELSE NotFound(m)

DbUpdateUserColumns(d, id, v) ==
  RowsError(Has(d, "user", id), d,
            Change(d, "user", Find(d, "user", {id}),
                   LAMBDA u : [u EXCEPT !.val = v]))

MemUpdateUserPermission(m, id) ==
  IF MemHas(m, "user", id)
  THEN Ok(Change(m, "user", Find(m, "user", {id}),
                 LAMBDA u : [u EXCEPT !.on = ~@]))
  ELSE NotFound(m)

\* The row is read, then what was read is written the other way round.
DbUpdateUserPermission(d, id) ==
  IF Has(d, "user", id)
  THEN Ok(Change(d, "user", Find(d, "user", {id}),
                 LAMBDA u : [u EXCEPT !.on = ~@]))
  ELSE NotFound(d)

MemDeleteUser(m, id) ==
  IF MemHas(m, "user", id)
  THEN Ok([Change(m, "user", Find(m, "user", {id}),
                  LAMBDA u : [u EXCEPT !.deleted = TRUE])
           EXCEPT !.link["userRole"][id] = <<>>])
  ELSE NotFound(m)

DbDeleteUser(d, id) ==
  LET s == [d EXCEPT !.link["userRole"] = {l \in @ : l[1] # id}]
  IN  RowsError(Has(d, "user", id), d,
                Change(s, "user", Find(s, "user", {id}),
                       LAMBDA u : [u EXCEPT !.deleted = TRUE]))

MemUserRoles(m, id) ==
  Answered(MemHas(m, "user", id), MemByIDs(m, "role", m.link["userRole"][id]))

DbUserRoles(d, id) ==
  Answered(Has(d, "user", id), DbByIDs(d, "role", Linked(d, "userRole", id)))

MemHistories(m, u) == {h \in m.tab["history"] : h.ref = u}
DbHistories(d, u)  == {h \in d.tab["history"] : h.ref = u}

MemCreateHistory(m, u) ==
  IF MemHas(m, "user", u) THEN Ok(Add(m, "history", NewRow(1, u, TRUE)))
  ELSE NotFound(m)

\* The database does not look for the user.
DbCreateHistory(d, u) == Ok(Add(d, "history", NewRow(1, u, TRUE)))

-----------------------------------------------------------------------------
(* Roles.                                                                  *)

MemRoles(m) == m.tab["role"]
DbRoles(d)  == d.tab["role"]

MemCreateRole(m, v) == Ok(Add(m, "role", NewRow(v, 0, TRUE)))
DbCreateRole(d, v)  == Ok(Add(d, "role", NewRow(v, 0, TRUE)))

MemUpdateRole(m, id, v) ==
  IF MemHas(m, "role", id)
  THEN Ok(Change(m, "role", Find(m, "role", {id}),
                 LAMBDA r : [r EXCEPT !.val = v]))
  ELSE NotFound(m)

DbUpdateRole(d, id, v) ==
  RowsError(Has(d, "role", id), d,
            Change(d, "role", Find(d, "role", {id}),
                   LAMBDA r : [r EXCEPT !.val = v]))

MemDeleteRoles(m, S) ==
  IF Find(m, "role", S) = {} THEN NotFound(m)
  ELSE Ok([MemUnlink(Without(m, "role", Find(m, "role", S)), "userRole", S)
           EXCEPT !.link["roleMenu"]  = Emptied(@, S),
                  !.link["roleScope"] = Emptied(@, S)])

\* Mutant: the users keep the roles.
DbDeleteRolesOnly(d, S) ==
  IF S = {} THEN Ok(d)
  ELSE RowsError(Find(d, "role", S) # {}, d,
         [Without(d, "role", Find(d, "role", S)) EXCEPT
            !.link["roleMenu"]  = {l \in @ : l[1] \notin S},
            !.link["roleScope"] = {l \in @ : l[1] \notin S}])

DbDeleteRoles(d, S) ==
  IF S = {} THEN Ok(d)
  ELSE RowsError(Find(d, "role", S) # {}, d,
         [Without(d, "role", Find(d, "role", S)) EXCEPT
            !.link["roleMenu"]  = {l \in @ : l[1] \notin S},
            !.link["roleScope"] = {l \in @ : l[1] \notin S},
            !.link["userRole"]  = {l \in @ : l[2] \notin S}])

MemRoleMenus(m, r) ==
  Answered(MemHas(m, "role", r), MemByIDs(m, "menu", m.link["roleMenu"][r]))
DbRoleMenus(d, r) ==
  Answered(Has(d, "role", r), DbByIDs(d, "menu", Linked(d, "roleMenu", r)))

MemUpdateRoleMenus(m, r, L) ==
  IF MemHas(m, "role", r)
  THEN Ok([m EXCEPT !.link["roleMenu"][r] = MemKnown(m, "menu", L)])
  ELSE NotFound(m)

DbUpdateRoleMenus(d, r, L) ==
  IF Has(d, "role", r)
  THEN Ok([d EXCEPT !.link["roleMenu"] =
             {l \in @ : l[1] # r} \cup ({r} \X DbKnown(d, "menu", L))])
  ELSE NotFound(d)

\* RoleScopeIDs gives the ids as they are, RoleScopes the rows they name.
MemRoleScopes(m, r) ==
  <<Answered(MemHas(m, "role", r), Range(m.link["roleScope"][r])),
    Answered(MemHas(m, "role", r),
             MemByIDs(m, "scope", m.link["roleScope"][r]))>>
DbRoleScopes(d, r) ==
  <<Answered(Has(d, "role", r), Linked(d, "roleScope", r)),
    Answered(Has(d, "role", r),
             DbByIDs(d, "scope", Linked(d, "roleScope", r)))>>

MemUpdateRoleScopes(m, r, L) ==
  IF MemHas(m, "role", r)
  THEN Ok([m EXCEPT !.link["roleScope"][r] = MemKnown(m, "scope", L)])
  ELSE NotFound(m)

DbUpdateRoleScopes(d, r, L) ==
  IF Has(d, "role", r)
  THEN Ok([d EXCEPT !.link["roleScope"] =
             {l \in @ : l[1] # r} \cup ({r} \X DbKnown(d, "scope", L))])
  ELSE NotFound(d)

-----------------------------------------------------------------------------
(* Menus and departments.                                                  *)

\* Val 2 stands for a button, which has no title of its own: it is found by
\* no title and not in the sidebar.
MemMenus(m) ==
  [all |-> m.tab["menu"],
   sidebar |-> {x \in m.tab["menu"] : x.val # 2}]
DbMenus(d) ==
  [all |-> d.tab["menu"],
   sidebar |-> {x \in d.tab["menu"] : x.val # 2}]

MemCreateMenu(m, v, p) == Ok(Add(m, "menu", NewRow(v, p, TRUE)))
DbCreateMenu(d, v, p)  == Ok(Add(d, "menu", NewRow(v, p, TRUE)))

MemUpdateMenu(m, id, v, p) ==
  IF MemHas(m, "menu", id)
  THEN Ok(Change(m, "menu", Find(m, "menu", {id}),
                 LAMBDA x : [x EXCEPT !.val = v, !.ref = p]))
  ELSE NotFound(m)

DbUpdateMenu(d, id, v, p) ==
  RowsError(Has(d, "menu", id), d,
            Change(d, "menu", Find(d, "menu", {id}),
                   LAMBDA x : [x EXCEPT !.val = v, !.ref = p]))

MemDeleteMenu(m, id) ==
  IF MemHas(m, "menu", id)
  THEN Ok(MemUnlink(Without(m, "menu", Find(m, "menu", {id})),
                    "roleMenu", {id}))
  ELSE NotFound(m)

DbDeleteMenu(d, id) ==
  RowsError(Has(d, "menu", id), d,
            [Without(d, "menu", Find(d, "menu", {id})) EXCEPT
               !.link["roleMenu"] = {l \in @ : l[2] # id}])

MemMenuHasChildren(m, id) == \E x \in m.tab["menu"] : x.ref = id
DbMenuHasChildren(d, id)  == \E x \in d.tab["menu"] : x.ref = id

MemDepts(m) == {x \in m.tab["dept"] : ~x.deleted}

DbDepts(d) == {x \in d.tab["dept"] : ~x.deleted}

MemCreateDept(m, v, p) == Ok(Add(m, "dept", NewRow(v, p, TRUE)))
DbCreateDept(d, v, p)  == Ok(Add(d, "dept", NewRow(v, p, TRUE)))

\* The memory does not look at the mark, but has no row that is marked.
MemUpdateDept(m, id, v, p) ==
  IF \E x \in m.tab["dept"] : x.id = id
  THEN Ok(Change(m, "dept", {x \in m.tab["dept"] : x.id = id},
                 LAMBDA x : [x EXCEPT !.val = v, !.ref = p]))
  ELSE NotFound(m)

DbUpdateDept(d, id, v, p) ==
  RowsError(Has(d, "dept", id), d,
            Change(d, "dept", Find(d, "dept", {id}),
                   LAMBDA x : [x EXCEPT !.val = v, !.ref = p]))

\* The memory forgets the row, the database marks it.
MemDeleteDept(m, id) ==
  IF MemHas(m, "dept", id) THEN Ok(Without(m, "dept", Find(m, "dept", {id})))
  ELSE NotFound(m)

DbDeleteDept(d, id) ==
  RowsError(Has(d, "dept", id), d,
            Change(d, "dept", Find(d, "dept", {id}),
                   LAMBDA x : [x EXCEPT !.deleted = TRUE]))

MemDeptHasChildren(m, id) ==
  \E x \in m.tab["dept"] : ~x.deleted /\ x.ref = id
DbDeptHasChildren(d, id) ==
  \E x \in d.tab["dept"] : ~x.deleted /\ x.ref = id

MemDeptHasUsers(m, id) == \E u \in m.tab["user"] : ~u.deleted /\ u.ref = id
DbDeptHasUsers(d, id)  == \E u \in d.tab["user"] : ~u.deleted /\ u.ref = id

-----------------------------------------------------------------------------
(* Data rules and scopes.                                                  *)

MemDataRules(m) == m.tab["rule"]
DbDataRules(d)  == d.tab["rule"]

MemCreateDataRule(m, v) == Ok(Add(m, "rule", NewRow(v, 0, TRUE)))
DbCreateDataRule(d, v)  == Ok(Add(d, "rule", NewRow(v, 0, TRUE)))

MemUpdateDataRule(m, id, v) ==
  IF MemHas(m, "rule", id)
  THEN Ok(Change(m, "rule", Find(m, "rule", {id}),
                 LAMBDA r : [r EXCEPT !.val = v]))
  ELSE NotFound(m)

DbUpdateDataRule(d, id, v) ==
  RowsError(Has(d, "rule", id), d,
            Change(d, "rule", Find(d, "rule", {id}),
                   LAMBDA r : [r EXCEPT !.val = v]))

\* The memory leaves the rules in the lists of the scopes.
MemDeleteDataRules(m, S) ==
  IF Find(m, "rule", S) = {} THEN NotFound(m)
  ELSE Ok(Without(m, "rule", Find(m, "rule", S)))

DbDeleteDataRules(d, S) ==
  IF S = {} THEN Ok(d)
  ELSE RowsError(Find(d, "rule", S) # {}, d,
         [Without(d, "rule", Find(d, "rule", S)) EXCEPT
            !.link["scopeRule"] = {l \in @ : l[2] \notin S}])

MemDataScopes(m) == m.tab["scope"]
DbDataScopes(d)  == d.tab["scope"]

MemDataScopeRules(m, id) ==
  Answered(MemHas(m, "scope", id),
           MemByIDs(m, "rule", m.link["scopeRule"][id]))
DbDataScopeRules(d, id) ==
  Answered(Has(d, "scope", id), DbByIDs(d, "rule", Linked(d, "scopeRule", id)))

MemCreateDataScope(m, v) == Ok(Add(m, "scope", NewRow(v, 0, TRUE)))
DbCreateDataScope(d, v)  == Ok(Add(d, "scope", NewRow(v, 0, TRUE)))

MemUpdateDataScope(m, id, v) ==
  IF MemHas(m, "scope", id)
  THEN Ok(Change(m, "scope", Find(m, "scope", {id}),
                 LAMBDA r : [r EXCEPT !.val = v]))
  ELSE NotFound(m)

DbUpdateDataScope(d, id, v) ==
  RowsError(Has(d, "scope", id), d,
            Change(d, "scope", Find(d, "scope", {id}),
                   LAMBDA r : [r EXCEPT !.val = v]))

MemUpdateDataScopeRules(m, id, L) ==
  IF MemHas(m, "scope", id) /\ \A r \in Range(L) : MemHas(m, "rule", r)
  THEN Ok([m EXCEPT !.link["scopeRule"][id] = L])
  ELSE NotFound(m)

DbUpdateDataScopeRules(d, id, L) ==
  IF Has(d, "scope", id) /\ DbEnsure(d, "rule", L)
  THEN Tx(d, DbReplaceLinks(d, "scopeRule", id, L))
  ELSE NotFound(d)

MemDeleteDataScopes(m, S) ==
  IF Find(m, "scope", S) = {} THEN NotFound(m)
  ELSE Ok([MemUnlink(Without(m, "scope", Find(m, "scope", S)), "roleScope", S)
           EXCEPT !.link["scopeRule"] = Emptied(@, S)])

DbDeleteDataScopes(d, S) ==
  IF S = {} THEN Ok(d)
  ELSE RowsError(Find(d, "scope", S) # {}, d,
         [Without(d, "scope", Find(d, "scope", S)) EXCEPT
            !.link["scopeRule"] = {l \in @ : l[1] \notin S},
            !.link["roleScope"] = {l \in @ : l[2] \notin S}])

-----------------------------------------------------------------------------
(* Plugins, whose id is their name; the first is built in.                 *)

MemPlugins(m) == <<m.tab["plugin"], m.changed>>
DbPlugins(d)  == <<d.tab["plugin"], d.changed>>

BuiltIn(id) == id = 1

\* An installed plugin is enabled and otherwise kept.
MemInstallPlugin(m, id) ==
  IF MemHas(m, "plugin", id)
  THEN Ok([Change(m, "plugin", Find(m, "plugin", {id}),
                  LAMBDA p : [p EXCEPT !.on = TRUE]) EXCEPT !.changed = TRUE])
  ELSE Ok([m EXCEPT !.tab["plugin"] = @ \cup {WithId(id, NewRow(1, 0, TRUE))},
                    !.changed = TRUE])

DbInstallPlugin(d, id) ==
  LET s == IF Has(d, "plugin", id)
           THEN Change(d, "plugin", Find(d, "plugin", {id}),
                       LAMBDA p : [p EXCEPT !.on = TRUE])
           ELSE [d EXCEPT !.tab["plugin"] =
                            @ \cup {WithId(id, NewRow(1, 0, TRUE))}]
  IN  Ok([s EXCEPT !.changed = TRUE])

\* A built-in plugin stays, and is said to be uninstalled.
MemUninstallPlugin(m, id) ==
  IF ~MemHas(m, "plugin", id) THEN NotFound(m)
  ELSE Ok([IF BuiltIn(id) THEN m
           ELSE Without(m, "plugin", Find(m, "plugin", {id}))
           EXCEPT !.changed = TRUE])

DbUninstallPlugin(d, id) ==
  IF ~Has(d, "plugin", id) THEN NotFound(d)
  ELSE Ok([IF BuiltIn(id) THEN d
           ELSE Without(d, "plugin", Find(d, "plugin", {id}))
           EXCEPT !.changed = TRUE])

MemTogglePluginStatus(m, id) ==
  IF ~MemHas(m, "plugin", id) THEN NotFound(m)
  ELSE Ok([Change(m, "plugin", Find(m, "plugin", {id}),
                  LAMBDA p : [p EXCEPT !.on = ~@]) EXCEPT !.changed = TRUE])

DbTogglePluginStatus(d, id) ==
  IF ~Has(d, "plugin", id) THEN NotFound(d)
  ELSE Ok([Change(d, "plugin", Find(d, "plugin", {id}),
                  LAMBDA p : [p EXCEPT !.on = ~@]) EXCEPT !.changed = TRUE])

-----------------------------------------------------------------------------
(* Login and operation logs, sessions.                                     *)

MemLoginLogs(m) == m.tab["loginLog"]
DbLoginLogs(d)  == d.tab["loginLog"]

\* The callers give no id.
MemCreateLoginLog(m, v) == Ok(Add(m, "loginLog", NewRow(v, 0, TRUE)))
DbCreateLoginLog(d, v)  == Ok(Add(d, "loginLog", NewRow(v, 0, TRUE)))

\* Nobody minds if there is nothing to delete: the number is answered.
MemDeleteLoginLogs(m, S) ==
  Counted(Without(m, "loginLog", Find(m, "loginLog", S)),
          Cardinality(Find(m, "loginLog", S)))
DbDeleteLoginLogs(d, S) ==
  IF S = {} THEN Counted(d, 0)
  ELSE Counted(Without(d, "loginLog", Find(d, "loginLog", S)),
               Cardinality(Find(d, "loginLog", S)))

MemDeleteAllLoginLogs(m) == Ok([m EXCEPT !.tab["loginLog"] = {}])
DbDeleteAllLoginLogs(d)  == Ok([d EXCEPT !.tab["loginLog"] = {}])

MemOperaLogs(m) == m.tab["operaLog"]
DbOperaLogs(d)  == d.tab["operaLog"]

MemCreateOperaLog(m, v) == Ok(Add(m, "operaLog", NewRow(v, 0, TRUE)))
DbCreateOperaLog(d, v)  == Ok(Add(d, "operaLog", NewRow(v, 0, TRUE)))

MemDeleteOperaLogs(m, S) ==
  Counted(Without(m, "operaLog", Find(m, "operaLog", S)),
          Cardinality(Find(m, "operaLog", S)))
DbDeleteOperaLogs(d, S) ==
  IF S = {} THEN Counted(d, 0)
  ELSE Counted(Without(d, "operaLog", Find(d, "operaLog", S)),
               Cardinality(Find(d, "operaLog", S)))

MemDeleteAllOperaLogs(m) == Ok([m EXCEPT !.tab["operaLog"] = {}])
DbDeleteAllOperaLogs(d)  == Ok([d EXCEPT !.tab["operaLog"] = {}])

\* A session's key is its user and its uuid, together the id here.
MemSessions(m) == m.tab["session"]
DbSessions(d)  == d.tab["session"]

MemUpsertSession(m, id, v) ==
  Ok([m EXCEPT !.tab["session"] =
        (@ \ Find(m, "session", {id})) \cup {WithId(id, NewRow(v, 0, TRUE))}])
DbUpsertSession(d, id, v) ==
  Ok([d EXCEPT !.tab["session"] =
        (@ \ Find(d, "session", {id})) \cup {WithId(id, NewRow(v, 0, TRUE))}])

\* Deleting a session that is not there is fine.
MemDeleteSession(m, id) == Ok(Without(m, "session", Find(m, "session", {id})))

\* Mutant: the database minds, as it does for the other tables.
DbDeleteSessionStrict(d, id) ==
  RowsError(Has(d, "session", id), d,
            Without(d, "session", Find(d, "session", {id})))

DbDeleteSession(d, id)  == Ok(Without(d, "session", Find(d, "session", {id})))

-----------------------------------------------------------------------------
(* The calls.                                                              *)

\* Lists of ids as a request may give them, once a table is in use.
Lists(K) ==
  IF K \in area.tables THEN UNION {[1 .. n -> Ids] : n \in 0 .. 2} ELSE {<<>>}

Depts == IF "dept" \in area.tables \cup area.seeded THEN 0 .. MaxId ELSE {0}

UserCalls ==
  \/ /\ CanAdd("user")
     /\ \E v \in Val, dept \in Depts \ {0}, L \in Lists("role") :
          Both({"user"}, MemCreateUser(mem, v, dept, L),
               DbCreateUser(db, v, dept, L), Repeats(L))
  \/ \E id \in Ids :
       \/ \E v \in Val, dept \in Depts, L \in Lists("role") :
            Both({"user"}, MemUpdateUser(mem, id, v, dept, L),
                 DbUpdateUser(db, id, v, dept, L), Repeats(L))
       \/ \E v \in Val :
            Both({"user"}, MemUpdateUserColumns(mem, id, v),
                 DbUpdateUserColumns(db, id, v), FALSE)
       \/ Both({"user"}, MemUpdateUserPermission(mem, id),
               DbUpdateUserPermission(db, id), FALSE)
       \/ Both({"user"}, MemDeleteUser(mem, id), DbDeleteUser(db, id), FALSE)
       \/ /\ CanAdd("history")
          /\ Both({"user", "history"}, MemCreateHistory(mem, id),
                  DbCreateHistory(db, id), ~Has(db, "user", id))

RoleCalls ==
  \/ /\ CanAdd("role")
     /\ \E v \in Val :
          Both({"role"}, MemCreateRole(mem, v), DbCreateRole(db, v), FALSE)
  \/ \E id \in Ids :
       \/ \E v \in Val :
            Both({"role"}, MemUpdateRole(mem, id, v), DbUpdateRole(db, id, v),
                 FALSE)
       \/ \E L \in Lists("menu") :
            Both({"role", "menu"}, MemUpdateRoleMenus(mem, id, L),
                 DbUpdateRoleMenus(db, id, L), FALSE)
       \/ \E L \in Lists("scope") :
            Both({"role", "scope"}, MemUpdateRoleScopes(mem, id, L),
                 DbUpdateRoleScopes(db, id, L), FALSE)
  \/ \E S \in SUBSET Ids :
       Both({"role"}, MemDeleteRoles(mem, S), DbDeleteRoles(db, S), S = {})

TreeCalls ==
  \E v \in Val, p \in 0 .. MaxId :
    \/ CanAdd("menu") /\ Both({"menu"}, MemCreateMenu(mem, v, p),
                              DbCreateMenu(db, v, p), FALSE)
    \/ CanAdd("dept") /\ Both({"dept"}, MemCreateDept(mem, v, p),
                              DbCreateDept(db, v, p), FALSE)
    \/ \E id \in Ids :
         \/ Both({"menu"}, MemUpdateMenu(mem, id, v, p),
                 DbUpdateMenu(db, id, v, p), FALSE)
         \/ Both({"dept"}, MemUpdateDept(mem, id, v, p),
                 DbUpdateDept(db, id, v, p), FALSE)
         \/ Both({"menu"}, MemDeleteMenu(mem, id), DbDeleteMenu(db, id), FALSE)
         \/ Both({"dept"}, MemDeleteDept(mem, id), DbDeleteDept(db, id), FALSE)

DataCalls ==
  \/ \E v \in Val :
       \/ CanAdd("rule") /\ Both({"rule"}, MemCreateDataRule(mem, v),
                                 DbCreateDataRule(db, v), FALSE)
       \/ CanAdd("scope") /\ Both({"scope"}, MemCreateDataScope(mem, v),
                                  DbCreateDataScope(db, v), FALSE)
       \/ \E id \in Ids :
            \/ Both({"rule"}, MemUpdateDataRule(mem, id, v),
                    DbUpdateDataRule(db, id, v), FALSE)
            \/ Both({"scope"}, MemUpdateDataScope(mem, id, v),
                    DbUpdateDataScope(db, id, v), FALSE)
  \/ \E id \in Ids, L \in Lists("rule") :
       Both({"scope", "rule"}, MemUpdateDataScopeRules(mem, id, L),
            DbUpdateDataScopeRules(db, id, L), Repeats(L))
  \/ \E S \in SUBSET Ids :
       \/ Both({"rule"}, MemDeleteDataRules(mem, S), DbDeleteDataRules(db, S),
               S = {})
       \/ Both({"scope"}, MemDeleteDataScopes(mem, S),
               DbDeleteDataScopes(db, S), S = {})

PluginCalls ==
  \E id \in Ids :
    \/ Both({"plugin"}, MemInstallPlugin(mem, id), DbInstallPlugin(db, id),
            FALSE)
    \/ Both({"plugin"}, MemUninstallPlugin(mem, id), DbUninstallPlugin(db, id),
            FALSE)
    \/ Both({"plugin"}, MemTogglePluginStatus(mem, id),
            DbTogglePluginStatus(db, id), FALSE)

LogCalls ==
  \/ \E v \in Val :
       \/ CanAdd("loginLog") /\ Both({"loginLog"}, MemCreateLoginLog(mem, v),
                                     DbCreateLoginLog(db, v), FALSE)
       \/ CanAdd("operaLog") /\ Both({"operaLog"}, MemCreateOperaLog(mem, v),
                                     DbCreateOperaLog(db, v), FALSE)
       \/ \E id \in Ids :
            Both({"session"}, MemUpsertSession(mem, id, v),
                 DbUpsertSession(db, id, v), FALSE)
  \/ \E S \in SUBSET Ids :
       \/ Both({"loginLog"}, MemDeleteLoginLogs(mem, S),
               DbDeleteLoginLogs(db, S), FALSE)
       \/ Both({"operaLog"}, MemDeleteOperaLogs(mem, S),
               DbDeleteOperaLogs(db, S), FALSE)
  \/ Both({"loginLog"}, MemDeleteAllLoginLogs(mem), DbDeleteAllLoginLogs(db),
          FALSE)
  \/ Both({"operaLog"}, MemDeleteAllOperaLogs(mem), DbDeleteAllOperaLogs(db),
          FALSE)
  \/ \E id \in Ids :
       Both({"session"}, MemDeleteSession(mem, id), DbDeleteSession(db, id),
            FALSE)

AdminNext ==
  UserCalls \/ RoleCalls \/ TreeCalls \/ DataCalls \/ PluginCalls \/ LogCalls

\* Every read of the admin plugin gives the same in both.
SameAdminReads ==
  /\ MemUsers(mem) = DbUsers(db)
  /\ MemRoles(mem) = DbRoles(db)
  /\ MemMenus(mem) = DbMenus(db)
  /\ MemDepts(mem) = DbDepts(db)
  /\ MemDataRules(mem) = DbDataRules(db)
  /\ MemDataScopes(mem) = DbDataScopes(db)
  /\ MemPlugins(mem) = DbPlugins(db)
  /\ MemLoginLogs(mem) = DbLoginLogs(db)
  /\ MemOperaLogs(mem) = DbOperaLogs(db)
  /\ MemSessions(mem) = DbSessions(db)
  /\ \A id \in Ids :
       /\ MemUserRoles(mem, id) = DbUserRoles(db, id)
       /\ MemHistories(mem, id) = DbHistories(db, id)
       /\ MemRoleMenus(mem, id) = DbRoleMenus(db, id)
       /\ MemRoleScopes(mem, id) = DbRoleScopes(db, id)
       /\ MemDataScopeRules(mem, id) = DbDataScopeRules(db, id)
       /\ MemMenuHasChildren(mem, id) = DbMenuHasChildren(db, id)
       /\ MemDeptHasChildren(mem, id) = DbDeptHasChildren(db, id)
       /\ MemDeptHasUsers(mem, id) = DbDeptHasUsers(db, id)
=============================================================================
