---------------------------- MODULE UploadCatalog ----------------------------
(***************************************************************************)
(* The scenes and storages of the upload plugin, and the uploads that look *)
(* them up: plugins/uploadfile/service/service.go over repo/gorm.go.       *)
(*                                                                         *)
(* Files keep the code of their storage, references the code of their      *)
(* scene and scenes the code of their storage; there are no foreign keys.  *)
(* The services count what uses a row, then delete it, and read a row,     *)
(* merge the request into it, then write it.                               *)
(***************************************************************************)
EXTENDS Naturals, FiniteSets

CONSTANTS
  StorageCode,    \* codes of storages
  SceneCode,      \* codes of scenes
  NoCode,         \* no storage given; also: a row that is new
  Keep,           \* a field that a request does not give
  LocalStorage,   \* the storage that is there from the start
  SeedScene,      \* the scene that is there from the start
  File,           \* objects, each with one reference
  CatalogRequest, \* request handlers that may run at the same time
  MaxRows,        \* bound: storages and scenes created over time
  CatalogAreas    \* what runs together: the operations called, how many of
                  \* them, the flags that requests give, and the rows that
                  \* are there at the start

ASSUME CatalogAssumption ==
  /\ LocalStorage \in StorageCode /\ SeedScene \in SceneCode
  /\ {NoCode, Keep} \cap (StorageCode \cup SceneCode) = {}
  /\ Keep \notin BOOLEAN
  /\ MaxRows \in Nat \ {0, 1}

CatalogOp == {"createScene", "updateScene", "deleteScene", "createStorage",
              "updateStorage", "deleteStorage", "upload"}

ASSUME CatalogAreaAssumption ==
  /\ CatalogAreas \subseteq [ops: SUBSET CatalogOp, calls: Nat,
                             flags: SUBSET BOOLEAN,
                             there: SUBSET (StorageCode \cup SceneCode)]
  /\ \A p \in CatalogAreas :
       IsFiniteSet(p.there) /\ Cardinality(p.there) <= MaxRows

VARIABLES
  plot,      \* what runs together, from the start
  calls,     \* requests so far
  storages,  \* rows by code: "row" numbers storages and scenes as created
  scenes,    \* rows by code
  files,     \* objects, with the state of their reference
  catalog,   \* where each request handler is, with its local variables
  rows,      \* rows created so far
  recoded,   \* history: rows whose code was changed
  raced,     \* history: rows that were about to be deleted while something
             \* was about to refer to them
  crossed,   \* history: two writes of a default storage have overlapped
  undone,    \* history: storages of which an update changed more than it was
             \* asked to
  outdated   \* history: storages updated from a row that had changed

catalogVars == <<plot, calls, storages, scenes, files, catalog, rows, recoded,
                 raced, crossed, undone, outdated>>

-----------------------------------------------------------------------------
(* Rows and local states.                                                  *)

NoRow   == [row |-> 0]
Storage == [row: 1 .. MaxRows, enabled: BOOLEAN, default: BOOLEAN]
Scene   == [row: 1 .. MaxRows, enabled: BOOLEAN,
            storage: StorageCode \cup {NoCode}, of: 0 .. MaxRows]

\* "of" and "under" are history: the rows that the codes stand for.
NoFile == [ref |-> "none"]
Object == [storage: StorageCode, of: 1 .. MaxRows, scene: SceneCode,
           under: 1 .. MaxRows, ref: {"due", "live", "deleted"}]

Given   == BOOLEAN \cup {Keep}
CatalogIdle == [pc |-> "idle"]

CatalogHandler ==
  [pc: {"sceneStorage", "sceneWrite"}, from: SceneCode \cup {NoCode},
   code: SceneCode, storage: StorageCode \cup {NoCode}, of: 0 .. MaxRows,
   enabled: BOOLEAN]
    \cup [pc: {"sceneRefs", "sceneDelete"}, code: SceneCode]
    \cup [pc: {"storageUnset", "storageWrite"}, from: StorageCode \cup {NoCode},
          code: StorageCode, enabled: BOOLEAN, default: BOOLEAN,
          given: {<<>>} \cup (Given \X Given), old: {NoRow} \cup Storage,
          seen: SUBSET StorageCode]
    \cup [pc: {"storageObjects", "storageScenes", "storageDelete"},
          code: StorageCode]
    \cup [pc: {"uploadBackend", "uploadObject", "uploadRef"}, file: File,
          scene: SceneCode, under: 1 .. MaxRows,
          storage: StorageCode \cup {NoCode}, of: 0 .. MaxRows]

CatalogTables == <<storages, scenes, files, rows, recoded, undone, outdated>>

CatalogGoto(q, pc) == catalog' = [catalog EXCEPT ![q].pc = pc]
CatalogReturn(q)   == catalog' = [catalog EXCEPT ![q] = CatalogIdle]
CatalogStart(q, h) ==
  /\ catalog[q] = CatalogIdle
  /\ calls < plot.calls
  /\ catalog' = [catalog EXCEPT ![q] = h]
At(q, pc) == catalog[q].pc = pc

Or(given, current) == IF given = Keep THEN current ELSE given

\* Rows that a handler is going to refer to, and those it is going to delete.
Refers(h) ==
  CASE h.pc = "sceneWrite"                      -> {h.of}
    [] h.pc \in {"uploadBackend", "uploadRef"}  -> {h.under}
    [] h.pc = "uploadObject"                    -> {h.of, h.under}
    [] OTHER                                    -> {}
Drops(h) ==
  CASE h.pc \in {"storageObjects", "storageScenes", "storageDelete"}
              -> {storages[h.code].row}
    [] h.pc \in {"sceneRefs", "sceneDelete"} -> {scenes[h.code].row}
    [] OTHER  -> {}

-----------------------------------------------------------------------------
CatalogInit ==
  /\ plot \in CatalogAreas
  /\ calls = 0
  /\ rows = Cardinality(plot.there)
  /\ LET n == CHOOSE n \in [plot.there -> 1 .. rows] :
                \A c, d \in plot.there : n[c] = n[d] => c = d
     IN
       /\ storages = [c \in StorageCode |->
            IF c \in plot.there
            THEN [row |-> n[c], enabled |-> TRUE, default |-> c = LocalStorage]
            ELSE NoRow]
       /\ scenes = [c \in SceneCode |->
            IF c \in plot.there
            THEN [row |-> n[c], enabled |-> TRUE, storage |-> NoCode, of |-> 0]
            ELSE NoRow]
  /\ files = [f \in File |-> NoFile]
  /\ catalog = [q \in CatalogRequest |-> CatalogIdle]
  /\ recoded = {} /\ raced = {} /\ undone = {} /\ outdated = {}
  /\ crossed = FALSE

-----------------------------------------------------------------------------
(* Scenes.                                                                 *)

CreateScene(q) ==
  \E c \in SceneCode, st \in StorageCode \cup {NoCode}, on \in plot.flags :
    /\ "createScene" \in plot.ops
    /\ CatalogStart(q, [pc |-> "sceneStorage", from |-> NoCode, code |-> c,
                        storage |-> st, of |-> 0, enabled |-> on])
    /\ UNCHANGED CatalogTables

\* The row is read, and what the request does not give is taken from it; an
\* empty code is given, and leaves the scene without a storage.
UpdateScene(q) ==
  \E c, e \in SceneCode, st \in StorageCode \cup {NoCode, Keep},
     on \in plot.flags \cup {Keep} :
    /\ "updateScene" \in plot.ops
    /\ scenes[c] # NoRow
    /\ CatalogStart(q, [pc |-> "sceneStorage", from |-> c, code |-> e,
                        storage |-> Or(st, scenes[c].storage), of |-> 0,
                        enabled |-> Or(on, scenes[c].enabled)])
    /\ UNCHANGED CatalogTables

\* sceneParamForCreate, which sceneParamForUpdate ends with.
SceneStorage(q) ==
  LET st == catalog[q].storage IN
  /\ At(q, "sceneStorage")
  /\ IF st = NoCode THEN CatalogGoto(q, "sceneWrite")
     ELSE IF storages[st] = NoRow THEN CatalogReturn(q)
     ELSE catalog' = [catalog EXCEPT ![q].pc = "sceneWrite",
                                     ![q].of = storages[st].row]
  /\ UNCHANGED CatalogTables

SceneWrite(q) ==
  LET h == catalog[q]
      Row(n) == [row |-> n, enabled |-> h.enabled, storage |-> h.storage,
                 of |-> h.of]
  IN
  /\ At(q, "sceneWrite")
  /\ IF h.from = NoCode
     THEN IF scenes[h.code] # NoRow THEN UNCHANGED <<scenes, rows, recoded>>
          ELSE /\ rows < MaxRows
               /\ rows' = rows + 1
               /\ scenes' = [scenes EXCEPT ![h.code] = Row(rows + 1)]
               /\ UNCHANGED recoded
     ELSE /\ UNCHANGED rows
          /\ IF scenes[h.from] = NoRow
                \/ (h.code # h.from /\ scenes[h.code] # NoRow)
             THEN UNCHANGED <<scenes, recoded>>
             ELSE /\ scenes' = [scenes EXCEPT
                       ![h.from] = NoRow,
                       ![h.code] = Row(scenes[h.from].row)]
                  /\ recoded' = IF h.code = h.from THEN recoded
                             ELSE recoded \cup {scenes[h.from].row}
  /\ CatalogReturn(q)
  /\ UNCHANGED <<storages, files, undone, outdated>>

DeleteScene(q) ==
  \E c \in SceneCode \ {SeedScene} :
    /\ "deleteScene" \in plot.ops
    /\ CatalogStart(q, [pc |-> "sceneRefs", code |-> c])
    /\ UNCHANGED CatalogTables

\* Mutant: references that are due count, but not those that are live.
CountRefsBySceneDue(c) ==
  {f \in File : files[f].ref = "due" /\ files[f].scene = c} # {}

CountRefsByScene(c) ==
  {f \in File : files[f].ref = "live" /\ files[f].scene = c} # {}

SceneRefs(q) ==
  /\ At(q, "sceneRefs")
  /\ IF CountRefsByScene(catalog[q].code) THEN CatalogReturn(q)
     ELSE CatalogGoto(q, "sceneDelete")
  /\ UNCHANGED CatalogTables

SceneDelete(q) ==
  /\ At(q, "sceneDelete")
  /\ scenes' = [scenes EXCEPT ![catalog[q].code] = NoRow]
  /\ CatalogReturn(q)
  /\ UNCHANGED <<storages, files, rows, recoded, undone, outdated>>

-----------------------------------------------------------------------------
(* Storages.                                                               *)

CreateStorage(q) ==
  \E c \in StorageCode, on, default \in plot.flags :
    /\ "createStorage" \in plot.ops
    /\ CatalogStart(q, [pc |-> "storageUnset", from |-> NoCode, code |-> c,
                        enabled |-> on, default |-> default, given |-> <<>>,
                        old |-> NoRow, seen |-> {}])
    /\ UNCHANGED CatalogTables

\* Mutant: a storage is enabled unless the request says it is not.
StorageParamForUpdateAnew(current, on, default) ==
  [enabled |-> Or(on, TRUE), default |-> Or(default, current.default)]

StorageParamForUpdate(current, on, default) ==
  [enabled |-> Or(on, current.enabled),
   default |-> Or(default, current.default)]

UpdateStorage(q) ==
  \E c, e \in StorageCode, on, default \in plot.flags \cup {Keep} :
    /\ "updateStorage" \in plot.ops
    /\ storages[c] # NoRow
    /\ LET p == StorageParamForUpdate(storages[c], on, default) IN
       CatalogStart(q, [pc |-> "storageUnset", from |-> c, code |-> e,
                        enabled |-> p.enabled, default |-> p.default,
                        given |-> <<on, default>>, old |-> storages[c],
                        seen |-> {}])
    /\ UNCHANGED CatalogTables

Defaults == {c \in StorageCode : storages[c] # NoRow /\ storages[c].default}

\* Mutant: a storage that becomes the default leaves the other one so.
UnsetNone(q) == {}

\* The transaction's first statement, if the storage is to be the default.
\* It sees what is committed; the row of a concurrent one is not among them.
Unset(q) == IF catalog[q].default THEN Defaults ELSE {}

StorageUnset(q) ==
  /\ At(q, "storageUnset")
  /\ catalog' = [catalog EXCEPT ![q].pc = "storageWrite", ![q].seen = Unset(q)]
  /\ UNCHANGED CatalogTables

\* The rest of the transaction; one that fails leaves nothing.
StorageWrite(q) ==
  LET h == catalog[q]
      old == IF h.from = NoCode THEN NoRow ELSE storages[h.from]
      Row(n) == [row |-> n, enabled |-> h.enabled, default |-> h.default]
      unset == [c \in StorageCode |->
                  IF c \in h.seen /\ storages[c] # NoRow
                  THEN [storages[c] EXCEPT !.default = FALSE] ELSE storages[c]]
      asked == [row |-> old.row, enabled |-> Or(h.given[1], old.enabled),
                default |-> Or(h.given[2], old.default)]
  IN
  /\ At(q, "storageWrite")
  /\ IF h.from = NoCode
     THEN /\ UNCHANGED <<recoded, undone, outdated>>
          /\ IF storages[h.code] # NoRow THEN UNCHANGED <<storages, rows>>
             ELSE /\ rows < MaxRows
                  /\ rows' = rows + 1
                  /\ storages' = [unset EXCEPT ![h.code] = Row(rows + 1)]
     ELSE /\ UNCHANGED rows
          /\ IF old = NoRow \/ (h.code # h.from /\ storages[h.code] # NoRow)
             THEN UNCHANGED <<storages, recoded, undone, outdated>>
             ELSE /\ storages' = [unset EXCEPT ![h.from] = NoRow,
                                               ![h.code] = Row(old.row)]
                  /\ recoded' = IF h.code = h.from THEN recoded
                             ELSE recoded \cup {old.row}
                  /\ undone' = IF Row(old.row) = asked THEN undone
                               ELSE undone \cup {old.row}
                  /\ outdated' = IF old = h.old THEN outdated
                                 ELSE outdated \cup {old.row}
  /\ CatalogReturn(q)
  /\ UNCHANGED <<scenes, files>>

DeleteStorage(q) ==
  \E c \in StorageCode \ {LocalStorage} :
    /\ "deleteStorage" \in plot.ops
    /\ CatalogStart(q, [pc |-> "storageObjects", code |-> c])
    /\ UNCHANGED CatalogTables

\* Files without a reference are counted, those reclaimed are not.
CountObjectsByStorage(c) ==
  {f \in File : files[f] # NoFile /\ files[f].storage = c} # {}

CountScenesByStorage(c) ==
  {s \in SceneCode : scenes[s] # NoRow /\ scenes[s].storage = c} # {}

StorageObjects(q) ==
  /\ At(q, "storageObjects")
  /\ IF CountObjectsByStorage(catalog[q].code) THEN CatalogReturn(q)
     ELSE CatalogGoto(q, "storageScenes")
  /\ UNCHANGED CatalogTables

StorageScenes(q) ==
  /\ At(q, "storageScenes")
  /\ IF CountScenesByStorage(catalog[q].code) THEN CatalogReturn(q)
     ELSE CatalogGoto(q, "storageDelete")
  /\ UNCHANGED CatalogTables

StorageDelete(q) ==
  /\ At(q, "storageDelete")
  /\ storages' = [storages EXCEPT ![catalog[q].code] = NoRow]
  /\ CatalogReturn(q)
  /\ UNCHANGED <<scenes, files, rows, recoded, undone, outdated>>

-----------------------------------------------------------------------------
(* Uploads and their end.                                                  *)

\* A file is named for the handler that creates it.
Free(f) == files[f] = NoFile /\ \A q \in CatalogRequest :
             catalog[q].pc \in {"uploadBackend", "uploadObject"}
               => catalog[q].file # f

Upload(q) ==
  \E f \in File, s \in SceneCode :
    /\ "upload" \in plot.ops
    /\ Free(f)
    /\ scenes[s] # NoRow /\ scenes[s].enabled
    /\ CatalogStart(q, [pc |-> "uploadBackend", file |-> f, scene |-> s,
                        under |-> scenes[s].row,
                        storage |-> scenes[s].storage, of |-> 0])
    /\ UNCHANGED CatalogTables

Usable(c) == storages[c] # NoRow /\ storages[c].enabled

\* The scene's storage, or a default that is enabled.
Backend(code) ==
  IF code # NoCode THEN {code}
  ELSE {c \in Defaults : Usable(c)}

UploadBackend(q) ==
  LET st == Backend(catalog[q].storage) IN
  /\ At(q, "uploadBackend")
  /\ \/ /\ \A c \in st : ~Usable(c)
        /\ CatalogReturn(q)
     \/ \E c \in st :
          /\ Usable(c)
          /\ catalog' = [catalog EXCEPT ![q].pc = "uploadObject",
                           ![q].storage = c, ![q].of = storages[c].row]
  /\ UNCHANGED CatalogTables

\* The backend takes the file before its object is created.
UploadObject(q) ==
  LET h == catalog[q] IN
  /\ At(q, "uploadObject")
  /\ files' = [files EXCEPT ![h.file] =
       [storage |-> h.storage, of |-> h.of, scene |-> h.scene,
        under |-> h.under, ref |-> "due"]]
  /\ CatalogGoto(q, "uploadRef")
  /\ UNCHANGED <<storages, scenes, rows, recoded, undone, outdated>>

UploadRef(q) ==
  /\ At(q, "uploadRef")
  /\ files' = [files EXCEPT ![catalog[q].file].ref = "live"]
  /\ CatalogReturn(q)
  /\ UNCHANGED <<storages, scenes, rows, recoded, undone, outdated>>

\* The reference is deleted, or has expired.
ReleaseRef(f) ==
  /\ files[f].ref = "live"
  /\ files' = [files EXCEPT ![f].ref = "deleted"]
  /\ UNCHANGED <<storages, scenes, catalog, rows, recoded, undone, outdated>>

\* The cleanup needs the storage to delete the file from.
Reclaim(f) ==
  /\ files[f].ref = "deleted"
  /\ storages[files[f].storage] # NoRow
  /\ files' = [files EXCEPT ![f] = NoFile]
  /\ UNCHANGED <<storages, scenes, catalog, rows, recoded, undone, outdated>>

-----------------------------------------------------------------------------
SceneStep(q) ==
  \/ CreateScene(q) \/ UpdateScene(q) \/ SceneStorage(q) \/ SceneWrite(q)
  \/ DeleteScene(q) \/ SceneRefs(q) \/ SceneDelete(q)
StorageStep(q) ==
  \/ CreateStorage(q) \/ UpdateStorage(q) \/ StorageUnset(q) \/ StorageWrite(q)
  \/ DeleteStorage(q) \/ StorageObjects(q) \/ StorageScenes(q)
  \/ StorageDelete(q)
UploadStep(q) ==
  Upload(q) \/ UploadBackend(q) \/ UploadObject(q) \/ UploadRef(q)

\* A row that is about to be deleted while it is about to be referred to.
Endangered ==
  UNION {Refers(catalog[q]) \cap Drops(catalog[p]) :
           q, p \in CatalogRequest}

Crossing ==
  \E q, p \in CatalogRequest :
    /\ q # p /\ At(q, "storageWrite") /\ At(p, "storageWrite")
    /\ catalog[q].default /\ catalog[p].default

\* Histories that a step does not set itself are taken from its outcome.
CatalogNext ==
  /\ \/ \E q \in CatalogRequest :
          SceneStep(q) \/ StorageStep(q) \/ UploadStep(q)
     \/ \E f \in File : ReleaseRef(f) \/ Reclaim(f)
  /\ raced' = raced \cup (Endangered' \ {0})
  /\ crossed' = (crossed \/ Crossing')
  /\ calls' = calls + Cardinality({q \in CatalogRequest :
                        catalog[q] = CatalogIdle /\ catalog'[q] # CatalogIdle})
  /\ UNCHANGED plot

-----------------------------------------------------------------------------
CatalogTypeOK ==
  /\ \A c \in StorageCode : storages[c] = NoRow \/ storages[c] \in Storage
  /\ \A s \in SceneCode : scenes[s] = NoRow \/ scenes[s] \in Scene
  /\ \A f \in File : files[f] = NoFile \/ files[f] \in Object
  /\ \A q \in CatalogRequest :
       catalog[q] = CatalogIdle \/ catalog[q] \in CatalogHandler
  /\ rows \in 0 .. MaxRows
  /\ recoded \subseteq 1 .. MaxRows /\ raced \subseteq 1 .. MaxRows
  /\ undone \subseteq 1 .. MaxRows /\ outdated \subseteq 1 .. MaxRows
  /\ crossed \in BOOLEAN

\* The code that a file, a reference or a scene keeps stands for the row it
\* stood for when it was looked up, so the file is found where it was put.
\* It does not if that row's code was changed (UpdateStorage and UpdateScene
\* do not follow it), or if its deletion overlapped with what refers to it:
\* the counts of DeleteStorage and DeleteScene are taken before.
CodesKeepTheirRow ==
  LET May(n) == n \in recoded \cup raced IN
  /\ \A f \in File : files[f] # NoFile =>
       /\ storages[files[f].storage].row = files[f].of \/ May(files[f].of)
       /\ files[f].ref # "deleted" =>
            scenes[files[f].scene].row = files[f].under \/ May(files[f].under)
  /\ \A s \in SceneCode : scenes[s] # NoRow /\ scenes[s].storage # NoCode =>
       \/ storages[scenes[s].storage].row = scenes[s].of
       \/ May(scenes[s].of)

\* At most one storage is the default, unless two transactions that make one
\* so have overlapped: each unsets the others it sees.
DefaultIsSingle == Cardinality(Defaults) <= 1 \/ crossed

\* An update of a storage changes what it was asked to and nothing else,
\* unless the row has changed since it was read: then what it does not give
\* is set back.
UndoneOnlyIfOutdated == undone \subseteq outdated
=============================================================================
