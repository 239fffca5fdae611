---------------------------- MODULE MCOrganization ----------------------------
(* Small instances of Organization for TLC.                                  *)
EXTENDS Organization, TLC

CONSTANTS d1, d2, d3, m1, m2, r1, r2, s1, k1, u1, n1, n2

\* Rows of one table are interchangeable, and so are names and handlers.
Symmetry ==
  Permutations(Dept) \cup Permutations(Name) \cup Permutations(Request)

AreaOf(ops, ids, there, names, on) ==
  [ops |-> ops, ids |-> ids, names |-> names, there |-> there, on |-> on]

\* Departments that are moved, and deleted; their users; menus and the roles
\* that link to them; data scopes, rules and roles; roles of users and what
\* they allow.
MCAreas ==
  {AreaOf({"deptWrite"}, Dept, {d1}, {n1, n2}, {TRUE}),
   AreaOf({"deptWrite", "deptDelete"}, {d1, d2}, {}, {n1, n2}, {TRUE}),
   AreaOf({"authenticate", "deptDelete", "userWrite", "userDelete"},
          {d1, d2, u1}, {d1, d2}, {n1, n2}, {TRUE}),
   AreaOf({"menuWrite", "menuDelete", "roleMenus"}, {m1, m2, r1}, {r1},
          {n1}, {TRUE}),
   AreaOf({"roleWrite", "rolesDelete", "userWrite"}, {r1, r2, u1, d1}, {d1},
          {n1}, {TRUE}),
   AreaOf({"scopeWrite", "ruleWrite", "roleScopes", "scopeRules",
           "rolesDelete", "scopesDelete", "rulesDelete"},
          {r1, s1, k1}, {r1}, {n1}, {TRUE}),
   AreaOf({"authenticate", "roleMenus", "rolesDelete"},
          {r1, r2, m1, u1}, {r1, r2, m1, u1}, {n1, n2}, BOOLEAN)}
=============================================================================
