-------------------------- MODULE PluginRepositories --------------------------
(***************************************************************************)
(* The repositories of the dictionary, configuration, notice, task and     *)
(* upload plugins (its scenes and storages), in memory (Mem...) and in the *)
(* database (Db...), in the manner of AdminRepository.                     *)
(***************************************************************************)
EXTENDS TwoStores

\* Plain tables: a row is updated or taken away by its id.
Updated(s, K, id, f(_)) ==
  RowsError(Has(s, K, id), s, Change(s, K, Find(s, K, {id}), f))
Deleted(s, K, S) ==
  RowsError(Find(s, K, S) # {}, s, Without(s, K, Find(s, K, S)))

\* A name that is unique in the database and in use by another row.
Taken(s, K, v, id) == \E r \in s.tab[K] : r.val = v /\ r.id # id /\ ~r.deleted

-----------------------------------------------------------------------------
(* Dictionary: "val" is the code of a type, and the copy of it that the    *)
(* data of the type keep; "on" is the status.                              *)

MemTypes(m) == m.tab["dictType"]
DbTypes(d)  == d.tab["dictType"]

\* Types and data have their ids from one counter.
MemNextDict(m) ==
  IF m.next["dictType"] > m.next["dictData"] THEN m.next["dictType"]
  ELSE m.next["dictData"]

MemAddDict(m, K, r) ==
  [m EXCEPT !.tab[K] = @ \cup {WithId(MemNextDict(m), r)},
            !.next[K] = MemNextDict(m) + 1]

MemCreateType(m, v) == Ok(MemAddDict(m, "dictType", NewRow(v, 0, TRUE)))
DbCreateType(d, v)  == Ok(Add(d, "dictType", NewRow(v, 0, TRUE)))

\* The data of the type keep the code they have.
MemUpdateType(m, id, v) ==
  Updated(m, "dictType", id, LAMBDA r : [r EXCEPT !.val = v])
DbUpdateType(d, id, v) ==
  Updated(d, "dictType", id, LAMBDA r : [r EXCEPT !.val = v])

\* And they stay when it is deleted.
MemDeleteTypes(m, S) == Deleted(m, "dictType", S)
DbDeleteTypes(d, S)  == Deleted(d, "dictType", S)

MemData(m) == m.tab["dictData"]
DbData(d)  == d.tab["dictData"]

MemDataByTypeCode(m, v) == {r \in m.tab["dictData"] : r.val = v /\ r.on}
DbDataByTypeCode(d, v)  == {r \in d.tab["dictData"] : r.val = v /\ r.on}

CodeOf(s, t) == (CHOOSE r \in s.tab["dictType"] : r.id = t).val

MemCreateData(m, t, on) ==
  IF Has(m, "dictType", t)
  THEN Ok(MemAddDict(m, "dictData", NewRow(CodeOf(m, t), t, on)))
  ELSE NotFound(m)
DbCreateData(d, t, on) ==
  IF Has(d, "dictType", t)
  THEN Ok(Add(d, "dictData", NewRow(CodeOf(d, t), t, on)))
  ELSE NotFound(d)

MemUpdateData(m, id, t, on) ==
  IF Has(m, "dictType", t)
  THEN Updated(m, "dictData", id, LAMBDA r :
         [r EXCEPT !.val = CodeOf(m, t), !.ref = t, !.on = on])
  ELSE NotFound(m)
DbUpdateData(d, id, t, on) ==
  IF Has(d, "dictType", t)
  THEN Updated(d, "dictData", id, LAMBDA r :
         [r EXCEPT !.val = CodeOf(d, t), !.ref = t, !.on = on])
  ELSE NotFound(d)

MemDeleteData(m, S) == Deleted(m, "dictData", S)
DbDeleteData(d, S)  == Deleted(d, "dictData", S)

-----------------------------------------------------------------------------
(* Configuration: "val" is the key, "on" the value.  The database has an   *)
(* index on key and mark, with the id as the mark of a deleted row.        *)

MemConfigs(m) == {c \in m.tab["config"] : ~c.deleted}
DbConfigs(d)  == {c \in d.tab["config"] : ~c.deleted}

MemCreateConfig(m, v, on) == Ok(Add(m, "config", NewRow(v, 0, on)))
DbCreateConfig(d, v, on) ==
  IF Taken(d, "config", v, 0) THEN Conflict(d)
  ELSE Ok(Add(d, "config", NewRow(v, 0, on)))

MemUpdateConfig(m, id, v, on) ==
  Updated(m, "config", id, LAMBDA c : [c EXCEPT !.val = v, !.on = on])
DbUpdateConfig(d, id, v, on) ==
  IF Has(d, "config", id) /\ Taken(d, "config", v, id) THEN Conflict(d)
  ELSE Updated(d, "config", id, LAMBDA c : [c EXCEPT !.val = v, !.on = on])

\* One after the other, until one fails.
MemBulkUpdate(m, ps) ==
  LET after[n \in 0 .. Len(ps)] ==
        IF n = 0 THEN Ok(m)
        ELSE IF after[n-1].said # <<"ok", 0>> THEN after[n-1]
        ELSE MemUpdateConfig(after[n-1].store, ps[n].id, ps[n].val, ps[n].on)
  IN  after[Len(ps)]

\* The same, all of them or none.
DbBulkUpdate(d, ps) ==
  LET after[n \in 0 .. Len(ps)] ==
        IF n = 0 THEN Ok(d)
        ELSE IF after[n-1].said # <<"ok", 0>> THEN after[n-1]
        ELSE DbUpdateConfig(after[n-1].store, ps[n].id, ps[n].val, ps[n].on)
  IN  Tx(d, after[Len(ps)])

MarkConfigs(s, S) ==
  RowsError(Find(s, "config", S) # {}, s,
            Change(s, "config", Find(s, "config", S),
                   LAMBDA c : [c EXCEPT !.deleted = TRUE]))
MemDeleteConfigs(m, S) == MarkConfigs(m, S)
DbDeleteConfigs(d, S)  == MarkConfigs(d, S)

-----------------------------------------------------------------------------
(* Notices.                                                                *)

MemNotices(m) == m.tab["notice"]
DbNotices(d)  == d.tab["notice"]

MemCreateNotice(m, v) == Ok(Add(m, "notice", NewRow(v, 0, TRUE)))
DbCreateNotice(d, v)  == Ok(Add(d, "notice", NewRow(v, 0, TRUE)))

MemUpdateNotice(m, id, v) ==
  Updated(m, "notice", id, LAMBDA r : [r EXCEPT !.val = v])
DbUpdateNotice(d, id, v) ==
  Updated(d, "notice", id, LAMBDA r : [r EXCEPT !.val = v])

MemDeleteNotices(m, S) == Deleted(m, "notice", S)
DbDeleteNotices(d, S)  == Deleted(d, "notice", S)

-----------------------------------------------------------------------------
(* Task schedulers, with a name that is unique in the database, and the    *)
(* results that the executor has left.                                     *)

MemSchedulers(m) == m.tab["scheduler"]
DbSchedulers(d)  == d.tab["scheduler"]

\* A new scheduler is enabled.
MemCreateScheduler(m, v) == Ok(Add(m, "scheduler", NewRow(v, 0, TRUE)))
DbCreateScheduler(d, v) ==
  IF Taken(d, "scheduler", v, 0) THEN Conflict(d)
  ELSE Ok(Add(d, "scheduler", NewRow(v, 0, TRUE)))

\* Whether it is enabled is not up to an update.
MemUpdateScheduler(m, id, v) ==
  Updated(m, "scheduler", id, LAMBDA r : [r EXCEPT !.val = v])
DbUpdateScheduler(d, id, v) ==
  IF Has(d, "scheduler", id) /\ Taken(d, "scheduler", v, id) THEN Conflict(d)
  ELSE Updated(d, "scheduler", id, LAMBDA r : [r EXCEPT !.val = v])

MemToggleSchedulerStatus(m, id) ==
  Updated(m, "scheduler", id, LAMBDA r : [r EXCEPT !.on = ~@])
DbToggleSchedulerStatus(d, id) ==
  Updated(d, "scheduler", id, LAMBDA r : [r EXCEPT !.on = ~@])

MemDeleteScheduler(m, id) == Deleted(m, "scheduler", {id})
DbDeleteScheduler(d, id)  == Deleted(d, "scheduler", {id})

MemResults(m) == m.tab["result"]
DbResults(d)  == d.tab["result"]

MemDeleteTaskResults(m, S) == Deleted(m, "result", S)
DbDeleteTaskResults(d, S)  == Deleted(d, "result", S)

-----------------------------------------------------------------------------
(* Scenes and storages of the upload plugin, found by their code, "val":   *)
(* nobody asks for their id.  A scene's "ref" is the code of its storage,  *)
(* "on" whether it is enabled; a storage's "ref" is 1 if it is enabled,    *)
(* "on" whether it is the default.                                         *)

ByCode(s, K, c) == {r \in s.tab[K] : r.val = c}
Coded(S) == {[code |-> r.val, ref |-> r.ref, on |-> r.on] : r \in S}

\* In memory the next id is the largest in use and one.
MemAddLast(m, K, r) ==
  LET used == {x.id : x \in m.tab[K]}
      next == CHOOSE n \in 1 .. MaxId + 1 :
                /\ \A x \in used : x < n
                /\ n = 1 \/ n - 1 \in used
  IN  [m EXCEPT !.tab[K] = @ \cup {WithId(next, r)}]

MemScenes(m) == Coded(m.tab["scene"])
DbScenes(d)  == Coded(d.tab["scene"])

MemCreateScene(m, c, st, on) == Ok(MemAddLast(m, "scene", NewRow(c, st, on)))
DbCreateScene(d, c, st, on) ==
  IF ByCode(d, "scene", c) # {} THEN Conflict(d)
  ELSE Ok(Add(d, "scene", NewRow(c, st, on)))

MemUpdateScene(m, c, e, st, on) ==
  RowsError(ByCode(m, "scene", c) # {}, m,
            Change(m, "scene", ByCode(m, "scene", c), LAMBDA r :
              [r EXCEPT !.val = e, !.ref = st, !.on = on]))
DbUpdateScene(d, c, e, st, on) ==
  IF ByCode(d, "scene", c) # {} /\ e # c /\ ByCode(d, "scene", e) # {}
  THEN Conflict(d)
  ELSE RowsError(ByCode(d, "scene", c) # {}, d,
                 Change(d, "scene", ByCode(d, "scene", c), LAMBDA r :
                   [r EXCEPT !.val = e, !.ref = st, !.on = on]))

MemDeleteScene(m, c) ==
  RowsError(ByCode(m, "scene", c) # {}, m,
            Without(m, "scene", ByCode(m, "scene", c)))
DbDeleteScene(d, c) ==
  RowsError(ByCode(d, "scene", c) # {}, d,
            Without(d, "scene", ByCode(d, "scene", c)))

MemStorages(m) == Coded(m.tab["storage"])
DbStorages(d)  == Coded(d.tab["storage"])

MemDefaultStorages(m) == {r \in MemStorages(m) : r.on /\ r.ref = 1}
DbDefaultStorages(d)  == {r \in DbStorages(d) : r.on /\ r.ref = 1}

MemUnsetDefault(m) ==
  Change(m, "storage", m.tab["storage"], LAMBDA r : [r EXCEPT !.on = FALSE])

MemCreateStorage(m, c, enabled, default) ==
  Ok(MemAddLast(IF default THEN MemUnsetDefault(m) ELSE m, "storage",
                NewRow(c, enabled, default)))

DbUnsetDefault(d) ==
  Change(d, "storage", {r \in d.tab["storage"] : r.on},
         LAMBDA r : [r EXCEPT !.on = FALSE])

DbCreateStorage(d, c, enabled, default) ==
  IF ByCode(d, "storage", c) # {} THEN Conflict(d)
  ELSE Ok(Add(IF default THEN DbUnsetDefault(d) ELSE d, "storage",
              NewRow(c, enabled, default)))

Storage(s, c, e, enabled, default) ==
  Change(s, "storage", ByCode(s, "storage", c), LAMBDA r :
    [r EXCEPT !.val = e, !.ref = enabled, !.on = default])

\* Mutant: the other default stays.
MemUpdateStorageOnly(m, c, e, enabled, default) ==
  RowsError(ByCode(m, "storage", c) # {}, m, Storage(m, c, e, enabled, default))

MemUpdateStorage(m, c, e, enabled, default) ==
  RowsError(ByCode(m, "storage", c) # {}, m,
            Storage(IF default THEN MemUnsetDefault(m) ELSE m,
                    c, e, enabled, default))

\* The default of the others is unset first, and set again if this fails.
DbUpdateStorage(d, c, e, enabled, default) ==
  IF ByCode(d, "storage", c) # {} /\ e # c /\ ByCode(d, "storage", e) # {}
  THEN Conflict(d)
  ELSE RowsError(ByCode(d, "storage", c) # {}, d,
                 Storage(IF default THEN DbUnsetDefault(d) ELSE d,
                         c, e, enabled, default))

MemDeleteStorage(m, c) ==
  RowsError(ByCode(m, "storage", c) # {}, m,
            Without(m, "storage", ByCode(m, "storage", c)))
DbDeleteStorage(d, c) ==
  RowsError(ByCode(d, "storage", c) # {}, d,
            Without(d, "storage", ByCode(d, "storage", c)))

MemScenesOf(m, st) == {r \in m.tab["scene"] : r.ref = st}
DbScenesOf(d, st)  == {r \in d.tab["scene"] : r.ref = st}

-----------------------------------------------------------------------------
(* The calls.                                                              *)

\* In the database the two tables count for themselves.
DictIdsDiffer(K) == MemNextDict(mem) # db.next[K]

DictCalls ==
  \/ \E v \in Val :
       \/ /\ CanAdd("dictType") /\ CanAdd("dictData")
          /\ Both({"dictType"}, MemCreateType(mem, v), DbCreateType(db, v),
                  DictIdsDiffer("dictType"))
       \/ \E id \in Ids :
            Both({"dictType"}, MemUpdateType(mem, id, v),
                 DbUpdateType(db, id, v), FALSE)
  \/ \E t \in Ids, on \in BOOLEAN :
       \/ /\ CanAdd("dictType") /\ CanAdd("dictData")
          /\ Both({"dictData"}, MemCreateData(mem, t, on),
                  DbCreateData(db, t, on), DictIdsDiffer("dictData"))
       \/ \E id \in Ids :
            Both({"dictData"}, MemUpdateData(mem, id, t, on),
                 DbUpdateData(db, id, t, on), FALSE)
  \/ \E S \in SUBSET Ids :
       \/ Both({"dictType"}, MemDeleteTypes(mem, S), DbDeleteTypes(db, S),
               FALSE)
       \/ Both({"dictData"}, MemDeleteData(mem, S), DbDeleteData(db, S), FALSE)

Params == UNION {[1 .. n -> [id: Ids, val: Val, on: BOOLEAN]] : n \in 1 .. 2}

\* A batch that the database refuses.
Refused(ps) == DbBulkUpdate(db, ps).said # <<"ok", 0>>

ConfigCalls ==
  \/ \E v \in Val, on \in BOOLEAN :
       \/ /\ CanAdd("config")
          /\ Both({"config"}, MemCreateConfig(mem, v, on),
                  DbCreateConfig(db, v, on), Taken(db, "config", v, 0))
       \/ \E id \in Ids :
            Both({"config"}, MemUpdateConfig(mem, id, v, on),
                 DbUpdateConfig(db, id, v, on), Taken(db, "config", v, id))
  \/ \E ps \in Params :
       Both({"config"}, MemBulkUpdate(mem, ps), DbBulkUpdate(db, ps),
            Refused(ps))
  \/ \E S \in SUBSET Ids :
       Both({"config"}, MemDeleteConfigs(mem, S), DbDeleteConfigs(db, S), FALSE)

NoticeCalls ==
  \/ \E v \in Val :
       \/ CanAdd("notice") /\ Both({"notice"}, MemCreateNotice(mem, v),
                                   DbCreateNotice(db, v), FALSE)
       \/ \E id \in Ids :
            Both({"notice"}, MemUpdateNotice(mem, id, v),
                 DbUpdateNotice(db, id, v), FALSE)
  \/ \E S \in SUBSET Ids :
       Both({"notice"}, MemDeleteNotices(mem, S), DbDeleteNotices(db, S), FALSE)

TaskCalls ==
  \/ \E v \in Val :
       \/ /\ CanAdd("scheduler")
          /\ Both({"scheduler"}, MemCreateScheduler(mem, v),
                  DbCreateScheduler(db, v), Taken(db, "scheduler", v, 0))
       \/ \E id \in Ids :
            Both({"scheduler"}, MemUpdateScheduler(mem, id, v),
                 DbUpdateScheduler(db, id, v), Taken(db, "scheduler", v, id))
  \/ \E id \in Ids :
       \/ Both({"scheduler"}, MemToggleSchedulerStatus(mem, id),
               DbToggleSchedulerStatus(db, id), FALSE)
       \/ Both({"scheduler"}, MemDeleteScheduler(mem, id),
               DbDeleteScheduler(db, id), FALSE)
  \/ \E S \in SUBSET Ids :
       Both({"result"}, MemDeleteTaskResults(mem, S),
            DbDeleteTaskResults(db, S), FALSE)

CatalogCalls ==
  \E c \in Val, on \in BOOLEAN :
    \/ \E st \in {0} \cup Val :
         \/ /\ CanAdd("scene")
            /\ Both({"scene"}, MemCreateScene(mem, c, st, on),
                    DbCreateScene(db, c, st, on), ByCode(db, "scene", c) # {})
         \/ \E e \in Val :
              Both({"scene"}, MemUpdateScene(mem, c, e, st, on),
                   DbUpdateScene(db, c, e, st, on),
                   e # c /\ ByCode(db, "scene", e) # {})
    \/ \E enabled \in {0, 1} :
         \/ /\ CanAdd("storage")
            /\ Both({"storage"}, MemCreateStorage(mem, c, enabled, on),
                    DbCreateStorage(db, c, enabled, on),
                    ByCode(db, "storage", c) # {})
         \/ \E e \in Val :
              Both({"storage"}, MemUpdateStorage(mem, c, e, enabled, on),
                   DbUpdateStorage(db, c, e, enabled, on),
                   e # c /\ ByCode(db, "storage", e) # {})
    \/ Both({"scene"}, MemDeleteScene(mem, c), DbDeleteScene(db, c), FALSE)
    \/ Both({"storage"}, MemDeleteStorage(mem, c), DbDeleteStorage(db, c),
            FALSE)

PluginsNext ==
  DictCalls \/ ConfigCalls \/ NoticeCalls \/ TaskCalls \/ CatalogCalls

\* Every read of these plugins gives the same in both.
SamePluginReads ==
  /\ MemTypes(mem) = DbTypes(db)
  /\ MemData(mem) = DbData(db)
  /\ \A v \in Val : MemDataByTypeCode(mem, v) = DbDataByTypeCode(db, v)
  /\ MemConfigs(mem) = DbConfigs(db)
  /\ MemNotices(mem) = DbNotices(db)
  /\ MemSchedulers(mem) = DbSchedulers(db)
  /\ MemResults(mem) = DbResults(db)
  /\ MemScenes(mem) = DbScenes(db)
  /\ MemStorages(mem) = DbStorages(db)
  /\ MemDefaultStorages(mem) = DbDefaultStorages(db)
  /\ \A st \in Val : MemScenesOf(mem, st) = {} <=> DbScenesOf(db, st) = {}
=============================================================================
