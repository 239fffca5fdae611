---------------------------- MODULE MCRepositories ----------------------------
(* Small instances of Repositories for TLC.                                  *)
EXTENDS Repositories

AreaOf(tables, seeded) == [tables |-> tables, seeded |-> seeded]

\* Tables that refer to each other are compared together.
MCAreas ==
  {AreaOf({"user", "role"}, {"dept", "role"}),
   AreaOf({"user", "dept"}, {"dept"}),
   AreaOf({"user", "history"}, {"user", "dept"}),
   AreaOf({"role", "menu"}, {"role"}),
   AreaOf({"role", "scope"}, {"role"}),
   AreaOf({"scope", "rule"}, {"scope"}),
   AreaOf({"plugin"}, {"plugin"}),
   AreaOf({"loginLog", "session"}, {"session"}),
   AreaOf({"operaLog"}, {"operaLog"}),
   AreaOf({"dictType", "dictData"}, {"dictType"}),
   AreaOf({"config"}, {"config"}),
   AreaOf({"notice"}, {"notice"}),
   AreaOf({"scheduler", "result"}, {"scheduler", "result"}),
   AreaOf({"scene", "storage"}, {"scene", "storage"})}
=============================================================================
