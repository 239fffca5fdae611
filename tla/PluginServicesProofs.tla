------------------------- MODULE PluginServicesProofs -------------------------
(***************************************************************************)
(* Proofs about the plugins' services: the catalogue of the uploads, the   *)
(* schedulers of the tasks and the settings.  Each part has its inductive  *)
(* invariant, and its steps, its start and its meaning as lemmas; the      *)
(* theorems of PluginServices are at the end.                              *)
(***************************************************************************)
EXTENDS PluginServices, FiniteSetTheorems, TLAPS

-----------------------------------------------------------------------------
(* The catalogue of the uploads.                                           *)

CatalogTyped ==
  /\ plot \in CatalogAreas
  /\ storages \in [StorageCode -> {NoRow} \cup Storage]
  /\ scenes \in [SceneCode -> {NoRow} \cup Scene]
  /\ files \in [File -> {NoFile} \cup Object]
  /\ catalog \in [CatalogRequest -> {CatalogIdle} \cup CatalogHandler]
  /\ rows \in 0 .. MaxRows
  /\ recoded \subseteq 1 .. MaxRows /\ raced \subseteq 1 .. MaxRows
  /\ undone \subseteq 1 .. MaxRows /\ outdated \subseteq 1 .. MaxRows
  /\ crossed \in BOOLEAN

UploadPC == {"uploadBackend", "uploadObject", "uploadRef"}

\* An upload owns its file: there is none until it puts it there, and then
\* only the upload makes its reference live.
OwnFile(q) ==
  /\ catalog[q].pc \in {"uploadBackend", "uploadObject"} =>
       files[catalog[q].file] = NoFile
  /\ catalog[q].pc = "uploadObject" =>
       catalog[q].storage \in StorageCode /\ catalog[q].of # 0
  /\ catalog[q].pc = "uploadRef" =>
       /\ files[catalog[q].file] # NoFile
       /\ files[catalog[q].file].ref = "due"
       /\ files[catalog[q].file].scene = catalog[q].scene
       /\ files[catalog[q].file].under = catalog[q].under

UploadsApart ==
  \A q, p \in CatalogRequest :
    /\ q # p
    /\ catalog[q].pc \in UploadPC
    /\ catalog[p].pc \in UploadPC
    => catalog[q].file # catalog[p].file

Uploads == (\A q \in CatalogRequest : OwnFile(q)) /\ UploadsApart

CatalogFits == CatalogTyped /\ Uploads

\* The row of a code is the one that was meant, or it may have strayed.
MayStray(n)         == n \in recoded \cup raced
StorageStands(c, n) == storages[c].row = n \/ MayStray(n)
SceneStands(s, n)   == scenes[s].row = n \/ MayStray(n)

\* A file's codes stand for its rows, and its reference is due only while its
\* upload is under way.
FileStands(f) ==
  files[f] # NoFile =>
    /\ StorageStands(files[f].storage, files[f].of)
    /\ files[f].ref # "deleted" => SceneStands(files[f].scene, files[f].under)
    /\ files[f].ref = "due" =>
         \E q \in CatalogRequest :
           catalog[q].pc = "uploadRef" /\ catalog[q].file = f

SceneRowStands(s) ==
  scenes[s] # NoRow /\ scenes[s].storage # NoCode =>
    scenes[s].of # 0 /\ StorageStands(scenes[s].storage, scenes[s].of)

\* What a handler has looked up stands; what it has counted is not there, or
\* may have strayed.
HandlerStands(h) ==
  /\ h.pc = "sceneWrite" /\ h.storage # NoCode =>
       h.of # 0 /\ StorageStands(h.storage, h.of)
  /\ h.pc = "uploadObject" => StorageStands(h.storage, h.of)
  /\ h.pc \in UploadPC => SceneStands(h.scene, h.under)
  /\ h.pc \in {"storageScenes", "storageDelete"} =>
       \A f \in File : files[f] # NoFile /\ files[f].storage = h.code =>
         MayStray(files[f].of)
  /\ h.pc = "storageDelete" =>
       \A s \in SceneCode : scenes[s] # NoRow /\ scenes[s].storage = h.code =>
         MayStray(scenes[s].of)
  /\ h.pc = "sceneDelete" =>
       \A f \in File :
         /\ files[f] # NoFile
         /\ files[f].scene = h.code
         /\ files[f].ref # "deleted"
         => MayStray(files[f].under)

\* The inductive invariant of CodesKeepTheirRow.
Standing ==
  /\ Endangered \ {0} \subseteq raced
  /\ \A f \in File : FileStands(f)
  /\ \A s \in SceneCode : SceneRowStands(s)
  /\ \A q \in CatalogRequest : HandlerStands(catalog[q])

\* A handler about to write a default has unset all that are there, unless
\* two have overlapped.
SingleDefault ==
  crossed \/
    /\ ~Crossing
    /\ \A c, d \in Defaults : c = d
    /\ \A q \in CatalogRequest :
         catalog[q].pc = "storageWrite" /\ catalog[q].default =>
           Defaults \subseteq catalog[q].seen

\* What an update is going to write is what it was asked to, given the row it
\* has read.
Asked(h) ==
  h.pc \in {"storageUnset", "storageWrite"} /\ h.from # NoCode =>
    /\ h.old # NoRow /\ h.given # <<>>
    /\ h.enabled = Or(h.given[1], h.old.enabled)
    /\ h.default = Or(h.given[2], h.old.default)

UpdatesAsAsked ==
  undone \subseteq outdated /\ \A q \in CatalogRequest : Asked(catalog[q])

-----------------------------------------------------------------------------
SceneWriting ==
  [pc: {"sceneStorage", "sceneWrite"}, from: SceneCode \cup {NoCode},
   code: SceneCode, storage: StorageCode \cup {NoCode}, of: 0 .. MaxRows,
   enabled: BOOLEAN]
SceneDeleting == [pc: {"sceneRefs", "sceneDelete"}, code: SceneCode]
StorageWriting ==
  [pc: {"storageUnset", "storageWrite"}, from: StorageCode \cup {NoCode},
   code: StorageCode, enabled: BOOLEAN, default: BOOLEAN,
   given: {<<>>} \cup (Given \X Given), old: {NoRow} \cup Storage,
   seen: SUBSET StorageCode]
StorageDeleting ==
  [pc: {"storageObjects", "storageScenes", "storageDelete"},
   code: StorageCode]
Uploading ==
  [pc: UploadPC, file: File, scene: SceneCode, under: 1 .. MaxRows,
   storage: StorageCode \cup {NoCode}, of: 0 .. MaxRows]

\* What a handler is, by where it is.
LEMMA CatalogVariants ==
  ASSUME NEW h \in {CatalogIdle} \cup CatalogHandler
  PROVE  /\ h.pc \in {"sceneStorage", "sceneWrite"} => h \in SceneWriting
         /\ h.pc \in {"sceneRefs", "sceneDelete"} => h \in SceneDeleting
         /\ h.pc \in {"storageUnset", "storageWrite"} => h \in StorageWriting
         /\ h.pc \in {"storageObjects", "storageScenes", "storageDelete"} =>
              h \in StorageDeleting
         /\ h.pc \in UploadPC => h \in Uploading
         /\ h.pc = "idle" => h = CatalogIdle
BY DEF CatalogHandler, CatalogIdle, SceneWriting, SceneDeleting,
       StorageWriting, StorageDeleting, Uploading, UploadPC

\* Each of these is a handler.
LEMMA CatalogHandlers ==
  SceneWriting \cup SceneDeleting \cup StorageWriting \cup StorageDeleting
    \cup Uploading \cup {CatalogIdle}
  \subseteq {CatalogIdle} \cup CatalogHandler
BY DEF CatalogHandler, SceneWriting, SceneDeleting, StorageWriting,
       StorageDeleting, Uploading, UploadPC

TablesTyped ==
  /\ storages \in [StorageCode -> {NoRow} \cup Storage]
  /\ scenes \in [SceneCode -> {NoRow} \cup Scene]
  /\ files \in [File -> {NoFile} \cup Object]
  /\ rows \in 0 .. MaxRows
  /\ recoded \subseteq 1 .. MaxRows
  /\ undone \subseteq 1 .. MaxRows /\ outdated \subseteq 1 .. MaxRows

Lands(q, h) == catalog' = [catalog EXCEPT ![q] = h]

\* A handler moves alone.
LEMMA Landing ==
  ASSUME CatalogTyped, NEW q \in CatalogRequest,
         NEW h \in {CatalogIdle} \cup CatalogHandler, Lands(q, h)
  PROVE  /\ catalog' \in [CatalogRequest -> {CatalogIdle} \cup CatalogHandler]
         /\ catalog'[q] = h
         /\ \A p \in CatalogRequest \ {q} : catalog'[p] = catalog[p]
BY DEF CatalogTyped, Lands

\* A handler that does not upload, and changes no file, leaves the uploads be.
LEMMA UploadsStay ==
  ASSUME CatalogFits, NEW q \in CatalogRequest,
         NEW h \in {CatalogIdle} \cup CatalogHandler, h.pc \notin UploadPC,
         Lands(q, h), UNCHANGED files
  PROVE  Uploads'
<1>1. /\ catalog'[q] = h
      /\ \A p \in CatalogRequest \ {q} : catalog'[p] = catalog[p]
  BY Landing DEF CatalogFits
<1>2. \A p \in CatalogRequest : OwnFile(p)'
  BY <1>1 DEF CatalogFits, Uploads, OwnFile, UploadPC
<1>3. UploadsApart'
  BY <1>1 DEF CatalogFits, Uploads, UploadsApart
<1> QED BY <1>2, <1>3 DEF Uploads

\* A step of a handler on a scene lands it on a handler of its kind.
LEMMA SceneStepFits ==
  ASSUME CatalogFits, NEW q \in CatalogRequest, SceneStep(q)
  PROVE  TablesTyped' /\ UNCHANGED files
         /\ \E h \in {CatalogIdle} \cup SceneWriting \cup SceneDeleting :
              Lands(q, h)
<1>0. /\ TablesTyped
      /\ plot \in CatalogAreas /\ plot.flags \subseteq BOOLEAN
      /\ catalog[q] \in {CatalogIdle} \cup CatalogHandler
  BY CatalogAreaAssumption DEF CatalogFits, CatalogTyped, TablesTyped
<1>1. CASE CreateScene(q)
  <2>1. PICK c \in SceneCode, st \in StorageCode \cup {NoCode},
             on \in plot.flags :
          CatalogStart(q, [pc |-> "sceneStorage", from |-> NoCode, code |-> c,
                           storage |-> st, of |-> 0, enabled |-> on])
    BY <1>1 DEF CreateScene
  <2>2. UNCHANGED CatalogTables
    BY <1>1 DEF CreateScene
  <2>3. [pc |-> "sceneStorage", from |-> NoCode, code |-> c,
         storage |-> st, of |-> 0, enabled |-> on] \in SceneWriting
    BY <1>0, CatalogAssumption DEF SceneWriting
  <2> QED BY <1>0, <2>1, <2>2, <2>3
          DEF CatalogStart, Lands, CatalogTables, TablesTyped
<1>2. CASE UpdateScene(q)
  <2>1. PICK c \in SceneCode, e \in SceneCode,
             st \in StorageCode \cup {NoCode, Keep},
             on \in plot.flags \cup {Keep} :
          /\ scenes[c] # NoRow
          /\ CatalogStart(q, [pc |-> "sceneStorage", from |-> c, code |-> e,
                              storage |-> Or(st, scenes[c].storage), of |-> 0,
                              enabled |-> Or(on, scenes[c].enabled)])
    BY <1>2 DEF UpdateScene
  <2>2. UNCHANGED CatalogTables
    BY <1>2 DEF UpdateScene
  <2>3. scenes[c] \in Scene
    BY <1>0, <2>1 DEF TablesTyped
  <2>4. /\ Or(st, scenes[c].storage) \in StorageCode \cup {NoCode}
        /\ Or(on, scenes[c].enabled) \in BOOLEAN
    BY <1>0, <2>3 DEF Or, Scene
  <2>5. [pc |-> "sceneStorage", from |-> c, code |-> e,
         storage |-> Or(st, scenes[c].storage), of |-> 0,
         enabled |-> Or(on, scenes[c].enabled)] \in SceneWriting
    BY <2>4, CatalogAssumption DEF SceneWriting
  <2> QED BY <1>0, <2>1, <2>2, <2>5
          DEF CatalogStart, Lands, CatalogTables, TablesTyped
<1>3. CASE SceneStorage(q)
  <2>1. catalog[q] \in SceneWriting
    BY <1>0, <1>3, CatalogVariants DEF SceneStorage, At
  <2>2. UNCHANGED CatalogTables
    BY <1>3 DEF SceneStorage
  <2>3. \E h \in {CatalogIdle} \cup SceneWriting : Lands(q, h)
    <3>1. CASE catalog' = [catalog EXCEPT ![q].pc = "sceneWrite"]
      <4>1. [catalog[q] EXCEPT !.pc = "sceneWrite"] \in SceneWriting
        BY <2>1 DEF SceneWriting
      <4> QED BY <3>1, <4>1 DEF Lands
    <3>2. CASE CatalogReturn(q)
      BY <3>2 DEF CatalogReturn, Lands
    <3>3. CASE /\ catalog[q].storage # NoCode
               /\ storages[catalog[q].storage] # NoRow
               /\ catalog' = [catalog EXCEPT ![q].pc = "sceneWrite",
                     ![q].of = storages[catalog[q].storage].row]
      <4>1. storages[catalog[q].storage].row \in 0 .. MaxRows
        BY <1>0, <2>1, <3>3 DEF TablesTyped, SceneWriting, Storage
      <4>2. [catalog[q] EXCEPT !.pc = "sceneWrite",
               !.of = storages[catalog[q].storage].row] \in SceneWriting
        BY <2>1, <4>1 DEF SceneWriting
      <4>3. Lands(q, [catalog[q] EXCEPT !.pc = "sceneWrite",
                        !.of = storages[catalog[q].storage].row])
        BY <3>3, <1>0 DEF Lands, CatalogFits, CatalogTyped
      <4> QED BY <4>2, <4>3
    <3> QED BY <1>3, <3>1, <3>2, <3>3 DEF SceneStorage, CatalogGoto
  <2> QED BY <1>0, <2>2, <2>3 DEF CatalogTables, TablesTyped
<1>4. CASE SceneWrite(q)
  <2>1. catalog[q] \in SceneWriting
    BY <1>0, <1>4, CatalogVariants DEF SceneWrite, At
  <2>2. \A n \in 1 .. MaxRows :
          [row |-> n, enabled |-> catalog[q].enabled,
           storage |-> catalog[q].storage, of |-> catalog[q].of] \in Scene
    BY <2>1 DEF SceneWriting, Scene
  <2>3. /\ scenes' \in [SceneCode -> {NoRow} \cup Scene]
        /\ rows' \in 0 .. MaxRows /\ recoded' \subseteq 1 .. MaxRows
    <3>1. CASE UNCHANGED <<scenes, rows, recoded>>
      BY <1>0, <3>1 DEF TablesTyped
    <3>2. CASE /\ rows < MaxRows /\ rows' = rows + 1 /\ UNCHANGED recoded
               /\ scenes' = [scenes EXCEPT ![catalog[q].code] =
                    [row |-> rows + 1, enabled |-> catalog[q].enabled,
                     storage |-> catalog[q].storage, of |-> catalog[q].of]]
      <4>1. rows' \in 1 .. MaxRows
        BY <1>0, <3>2, CatalogAssumption DEF TablesTyped
      <4>2. [row |-> rows + 1, enabled |-> catalog[q].enabled,
             storage |-> catalog[q].storage, of |-> catalog[q].of] \in Scene
        BY <2>2, <3>2, <4>1
      <4> QED BY <1>0, <2>1, <3>2, <4>1, <4>2 DEF TablesTyped, SceneWriting
    <3>3. CASE /\ UNCHANGED rows /\ catalog[q].from # NoCode
               /\ scenes[catalog[q].from] # NoRow
               /\ scenes' = [scenes EXCEPT
                    ![catalog[q].from] = NoRow,
                    ![catalog[q].code] =
                      [row |-> scenes[catalog[q].from].row,
                       enabled |-> catalog[q].enabled,
                       storage |-> catalog[q].storage,
                       of |-> catalog[q].of]]
               /\ recoded' = IF catalog[q].code = catalog[q].from THEN recoded
                             ELSE recoded \cup {scenes[catalog[q].from].row}
      <4>1. scenes[catalog[q].from].row \in 1 .. MaxRows
        BY <1>0, <2>1, <3>3 DEF TablesTyped, SceneWriting, Scene
      <4>2. [row |-> scenes[catalog[q].from].row,
             enabled |-> catalog[q].enabled,
             storage |-> catalog[q].storage, of |-> catalog[q].of] \in Scene
        BY <2>2, <4>1
      <4> QED BY <1>0, <2>1, <3>3, <4>1, <4>2 DEF TablesTyped, SceneWriting
    <3> QED BY <1>4, <3>1, <3>2, <3>3 DEF SceneWrite
  <2> QED BY <1>0, <1>4, <2>3 DEF SceneWrite, CatalogReturn, Lands, TablesTyped
<1>5. CASE DeleteScene(q)
  <2>1. PICK c \in SceneCode : CatalogStart(q, [pc |-> "sceneRefs", code |-> c])
    BY <1>5 DEF DeleteScene
  <2>2. [pc |-> "sceneRefs", code |-> c] \in SceneDeleting
    BY DEF SceneDeleting
  <2> QED BY <1>0, <1>5, <2>1, <2>2
          DEF DeleteScene, CatalogStart, Lands, CatalogTables, TablesTyped
<1>6. CASE SceneRefs(q)
  <2>1. catalog[q] \in SceneDeleting
    BY <1>0, <1>6, CatalogVariants DEF SceneRefs, At
  <2>2. [catalog[q] EXCEPT !.pc = "sceneDelete"] \in SceneDeleting
    BY <2>1 DEF SceneDeleting
  <2> QED BY <1>0, <1>6, <2>2
          DEF SceneRefs, CatalogGoto, CatalogReturn, Lands, CatalogTables,
              TablesTyped
<1>7. CASE SceneDelete(q)
  BY <1>0, <1>7 DEF SceneDelete, CatalogReturn, Lands, TablesTyped
<1> QED BY <1>1, <1>2, <1>3, <1>4, <1>5, <1>6, <1>7 DEF SceneStep

\* A step of a handler on a storage lands it on a handler of its kind.
LEMMA StorageStepFits ==
  ASSUME CatalogFits, NEW q \in CatalogRequest, StorageStep(q)
  PROVE  TablesTyped' /\ UNCHANGED files
         /\ \E h \in {CatalogIdle} \cup StorageWriting \cup StorageDeleting :
              Lands(q, h)
<1>0. /\ TablesTyped
      /\ plot \in CatalogAreas /\ plot.flags \subseteq BOOLEAN
      /\ catalog[q] \in {CatalogIdle} \cup CatalogHandler
  BY CatalogAreaAssumption DEF CatalogFits, CatalogTyped, TablesTyped
<1>1. CASE CreateStorage(q)
  <2>1. PICK c \in StorageCode, on \in plot.flags, default \in plot.flags :
          CatalogStart(q, [pc |-> "storageUnset", from |-> NoCode, code |-> c,
                           enabled |-> on, default |-> default,
                           given |-> <<>>, old |-> NoRow, seen |-> {}])
    BY <1>1 DEF CreateStorage
  <2>2. [pc |-> "storageUnset", from |-> NoCode, code |-> c, enabled |-> on,
         default |-> default, given |-> <<>>, old |-> NoRow, seen |-> {}]
          \in StorageWriting
    BY <1>0, CatalogAssumption DEF StorageWriting
  <2> QED BY <1>0, <1>1, <2>1, <2>2
          DEF CreateStorage, CatalogStart, Lands, CatalogTables, TablesTyped
<1>2. CASE UpdateStorage(q)
  <2>1. PICK c \in StorageCode, e \in StorageCode,
             on \in plot.flags \cup {Keep}, default \in plot.flags \cup {Keep} :
          /\ storages[c] # NoRow
          /\ CatalogStart(q,
               [pc |-> "storageUnset", from |-> c, code |-> e,
                enabled |-> Or(on, storages[c].enabled),
                default |-> Or(default, storages[c].default),
                given |-> <<on, default>>, old |-> storages[c], seen |-> {}])
    BY <1>2 DEF UpdateStorage, StorageParamForUpdate
  <2>2. storages[c] \in Storage
    BY <1>0, <2>1 DEF TablesTyped
  <2>3. /\ Or(on, storages[c].enabled) \in BOOLEAN
        /\ Or(default, storages[c].default) \in BOOLEAN
    BY <1>0, <2>2 DEF Or, Storage
  <2>4. <<on, default>> \in Given \X Given
    BY <1>0 DEF Given
  <2>5. [pc |-> "storageUnset", from |-> c, code |-> e,
         enabled |-> Or(on, storages[c].enabled),
         default |-> Or(default, storages[c].default),
         given |-> <<on, default>>, old |-> storages[c], seen |-> {}]
          \in StorageWriting
    BY <2>2, <2>3, <2>4 DEF StorageWriting
  <2> QED BY <1>0, <1>2, <2>1, <2>5
          DEF UpdateStorage, CatalogStart, Lands, CatalogTables, TablesTyped
<1>3. CASE StorageUnset(q)
  <2>1. catalog[q] \in StorageWriting
    BY <1>0, <1>3, CatalogVariants DEF StorageUnset, At
  <2>2. Unset(q) \subseteq StorageCode
    BY DEF Unset, Defaults
  <2>3. [catalog[q] EXCEPT !.pc = "storageWrite", !.seen = Unset(q)]
          \in StorageWriting
    BY <2>1, <2>2 DEF StorageWriting
  <2>4. Lands(q, [catalog[q] EXCEPT !.pc = "storageWrite", !.seen = Unset(q)])
    BY <1>3 DEF StorageUnset, Lands, CatalogFits, CatalogTyped
  <2> QED BY <1>0, <1>3, <2>3, <2>4
          DEF StorageUnset, CatalogTables, TablesTyped
<1>4. CASE StorageWrite(q)
  <2> DEFINE h == catalog[q]
             unset == [c \in StorageCode |->
                         IF c \in h.seen /\ storages[c] # NoRow
                         THEN [storages[c] EXCEPT !.default = FALSE]
                         ELSE storages[c]]
  <2>1. h \in StorageWriting
    BY <1>0, <1>4, CatalogVariants DEF StorageWrite, At
  <2>2. unset \in [StorageCode -> {NoRow} \cup Storage]
    <3>1. \A c \in StorageCode : storages[c] # NoRow =>
            [storages[c] EXCEPT !.default = FALSE] \in Storage
      BY <1>0 DEF TablesTyped, Storage
    <3> QED BY <1>0, <3>1 DEF TablesTyped
  <2>3. \A n \in 1 .. MaxRows :
          [row |-> n, enabled |-> h.enabled, default |-> h.default] \in Storage
    BY <2>1 DEF StorageWriting, Storage
  <2>4. /\ storages' \in [StorageCode -> {NoRow} \cup Storage]
        /\ rows' \in 0 .. MaxRows /\ recoded' \subseteq 1 .. MaxRows
        /\ undone' \subseteq 1 .. MaxRows /\ outdated' \subseteq 1 .. MaxRows
    <3>1. CASE UNCHANGED <<storages, rows, recoded, undone, outdated>>
      BY <1>0, <3>1 DEF TablesTyped
    <3>2. CASE /\ rows < MaxRows /\ rows' = rows + 1
               /\ UNCHANGED <<recoded, undone, outdated>>
               /\ storages' = [unset EXCEPT ![h.code] =
                    [row |-> rows + 1, enabled |-> h.enabled,
                     default |-> h.default]]
      <4>1. rows' \in 1 .. MaxRows
        BY <1>0, <3>2, CatalogAssumption DEF TablesTyped
      <4>2. [row |-> rows + 1, enabled |-> h.enabled, default |-> h.default]
              \in Storage
        BY <2>3, <3>2, <4>1
      <4> HIDE DEF unset
      <4> QED BY <1>0, <2>1, <2>2, <3>2, <4>1, <4>2
              DEF TablesTyped, StorageWriting
    <3>3. CASE /\ UNCHANGED rows /\ h.from # NoCode /\ storages[h.from] # NoRow
               /\ storages' = [unset EXCEPT
                    ![h.from] = NoRow,
                    ![h.code] = [row |-> storages[h.from].row,
                                 enabled |-> h.enabled, default |-> h.default]]
               /\ recoded' \in {recoded, recoded \cup {storages[h.from].row}}
               /\ undone' \in {undone, undone \cup {storages[h.from].row}}
               /\ outdated' \in {outdated, outdated \cup {storages[h.from].row}}
      <4>1. storages[h.from].row \in 1 .. MaxRows
        BY <1>0, <2>1, <3>3 DEF TablesTyped, StorageWriting, Storage
      <4>2. [row |-> storages[h.from].row, enabled |-> h.enabled,
             default |-> h.default] \in Storage
        BY <2>3, <4>1
      <4> HIDE DEF unset
      <4> QED BY <1>0, <2>1, <2>2, <3>3, <4>1, <4>2
              DEF TablesTyped, StorageWriting
    <3> QED BY <1>4, <3>1, <3>2, <3>3 DEF StorageWrite
  <2> QED BY <1>0, <1>4, <2>4 DEF StorageWrite, CatalogReturn, Lands, TablesTyped
<1>5. CASE DeleteStorage(q)
  <2>1. PICK c \in StorageCode :
          CatalogStart(q, [pc |-> "storageObjects", code |-> c])
    BY <1>5 DEF DeleteStorage
  <2>2. [pc |-> "storageObjects", code |-> c] \in StorageDeleting
    BY DEF StorageDeleting
  <2> QED BY <1>0, <1>5, <2>1, <2>2
          DEF DeleteStorage, CatalogStart, Lands, CatalogTables, TablesTyped
<1>6. CASE StorageObjects(q) \/ StorageScenes(q)
  <2>1. catalog[q] \in StorageDeleting
    BY <1>0, <1>6, CatalogVariants DEF StorageObjects, StorageScenes, At
  <2>2. \A pc \in {"storageScenes", "storageDelete"} :
          [catalog[q] EXCEPT !.pc = pc] \in StorageDeleting
    BY <2>1 DEF StorageDeleting
  <2>3. UNCHANGED CatalogTables
        /\ \/ CatalogReturn(q)
           \/ \E pc \in {"storageScenes", "storageDelete"} : CatalogGoto(q, pc)
    BY <1>6 DEF StorageObjects, StorageScenes
  <2> QED BY <1>0, <2>2, <2>3
          DEF CatalogGoto, CatalogReturn, Lands, CatalogTables, TablesTyped
<1>7. CASE StorageDelete(q)
  BY <1>0, <1>7 DEF StorageDelete, CatalogReturn, Lands, TablesTyped
<1> QED BY <1>1, <1>2, <1>3, <1>4, <1>5, <1>6, <1>7 DEF StorageStep

\* A step of an upload keeps the files and the uploads fitting.
LEMMA UploadStepFits ==
  ASSUME CatalogFits, NEW q \in CatalogRequest, UploadStep(q)
  PROVE  /\ TablesTyped' /\ Uploads'
         /\ \E h \in {CatalogIdle} \cup Uploading : Lands(q, h)
<1>0. /\ TablesTyped /\ Uploads /\ OwnFile(q)
      /\ catalog[q] \in {CatalogIdle} \cup CatalogHandler
  BY DEF CatalogFits, CatalogTyped, TablesTyped, Uploads
<1>1. CASE Upload(q)
  <2>1. PICK f \in File, s \in SceneCode :
          /\ Free(f) /\ scenes[s] # NoRow
          /\ CatalogStart(q, [pc |-> "uploadBackend", file |-> f, scene |-> s,
                              under |-> scenes[s].row,
                              storage |-> scenes[s].storage, of |-> 0])
    BY <1>1 DEF Upload
  <2> DEFINE h == [pc |-> "uploadBackend", file |-> f, scene |-> s,
                   under |-> scenes[s].row, storage |-> scenes[s].storage,
                   of |-> 0]
  <2>2. scenes[s] \in Scene
    BY <1>0, <2>1 DEF TablesTyped
  <2>3. h \in Uploading /\ h.pc = "uploadBackend" /\ h.file = f
    BY <2>2, CatalogAssumption DEF Uploading, UploadPC, Scene
  <2>4. Lands(q, h)
    BY <2>1 DEF CatalogStart, Lands
  <2>5. TablesTyped' /\ UNCHANGED files
    BY <1>0, <1>1 DEF Upload, CatalogTables, TablesTyped
  <2> HIDE DEF h
  <2>6. /\ catalog'[q] = h
        /\ \A p \in CatalogRequest \ {q} : catalog'[p] = catalog[p]
    BY <2>3, <2>4, Landing, CatalogHandlers DEF CatalogFits
  <2>7. \A p \in CatalogRequest : catalog[p].pc \in UploadPC =>
                                    catalog[p].file # f
    <3>1. SUFFICES ASSUME NEW p \in CatalogRequest, catalog[p].pc \in UploadPC
                   PROVE  catalog[p].file # f
      OBVIOUS
    <3>2. CASE catalog[p].pc = "uploadRef"
      BY <1>0, <2>1, <3>2 DEF Uploads, OwnFile, Free
    <3> QED BY <2>1, <3>1, <3>2 DEF Free, UploadPC
  <2>8. UploadsApart'
    BY <1>0, <2>3, <2>6, <2>7 DEF Uploads, UploadsApart
  <2>9. OwnFile(q)'
    BY <2>1, <2>3, <2>5, <2>6 DEF OwnFile, Free
  <2>10. \A p \in CatalogRequest \ {q} : OwnFile(p)'
    BY <1>0, <2>5, <2>6 DEF Uploads, OwnFile
  <2> QED BY <2>3, <2>4, <2>5, <2>8, <2>9, <2>10 DEF Uploads
<1>2. CASE UploadBackend(q)
  <2>1. catalog[q] \in Uploading
    BY <1>0, <1>2, CatalogVariants DEF UploadBackend, At, UploadPC
  <2>2. TablesTyped' /\ UNCHANGED files
    BY <1>0, <1>2 DEF UploadBackend, CatalogTables, TablesTyped
  <2>3. CASE CatalogReturn(q)
    <3>1. Lands(q, CatalogIdle) /\ CatalogIdle.pc \notin UploadPC
      BY <2>3 DEF CatalogReturn, Lands, CatalogIdle, UploadPC
    <3> QED BY <2>2, <3>1, UploadsStay
  <2>4. CASE \E c \in Backend(catalog[q].storage) :
               /\ Usable(c)
               /\ catalog' = [catalog EXCEPT ![q].pc = "uploadObject",
                                ![q].storage = c, ![q].of = storages[c].row]
    <3>1. PICK c \in Backend(catalog[q].storage) :
               /\ Usable(c)
               /\ catalog' = [catalog EXCEPT ![q].pc = "uploadObject",
                                ![q].storage = c, ![q].of = storages[c].row]
      BY <2>4
    <3>2. c \in StorageCode
      BY <2>1 DEF Backend, Uploading, Defaults
    <3> DEFINE n == storages[c].row
    <3>3. n \in 1 .. MaxRows
      BY <1>0, <3>1, <3>2 DEF Usable, TablesTyped, Storage
    <3> DEFINE g == [catalog[q] EXCEPT !.pc = "uploadObject"]
               k == [g EXCEPT !.storage = c]
               h == [k EXCEPT !.of = n]
    <3>4. Lands(q, h)
      BY <1>0, <3>1 DEF Lands, CatalogFits, CatalogTyped
    <3> HIDE DEF n
    <3>5. /\ h \in Uploading /\ h.pc = "uploadObject" /\ h.storage = c
          /\ h.of = n /\ h.file = catalog[q].file
      <4>1. g \in Uploading /\ g.pc = "uploadObject" /\ g.file = catalog[q].file
        BY <2>1 DEF Uploading, UploadPC
      <4> HIDE DEF g
      <4>2. /\ k \in Uploading /\ k.pc = g.pc /\ k.storage = c
            /\ k.file = g.file
        BY <3>2, <4>1 DEF Uploading
      <4> HIDE DEF k
      <4> QED BY <3>3, <4>1, <4>2 DEF Uploading
    <3> HIDE DEF g, k, h
    <3>6. /\ catalog'[q] = h
          /\ \A p \in CatalogRequest \ {q} : catalog'[p] = catalog[p]
      BY <3>4, <3>5, Landing, CatalogHandlers DEF CatalogFits
    <3>7. At(q, "uploadBackend")
      BY <1>2 DEF UploadBackend
    <3>8. UploadsApart'
      BY <1>0, <3>5, <3>6, <3>7 DEF Uploads, UploadsApart, UploadPC, At
    <3>9. OwnFile(q)'
      BY <1>0, <2>2, <3>2, <3>3, <3>5, <3>6, <3>7 DEF OwnFile, At
    <3>10. \A p \in CatalogRequest \ {q} : OwnFile(p)'
      BY <1>0, <2>2, <3>6 DEF Uploads, OwnFile
    <3> QED BY <2>2, <3>4, <3>5, <3>8, <3>9, <3>10 DEF Uploads
  <2> QED BY <1>2, <2>3, <2>4 DEF UploadBackend
<1>3. CASE UploadObject(q)
  <2> DEFINE h == catalog[q]
             o == [storage |-> h.storage, of |-> h.of, scene |-> h.scene,
                   under |-> h.under, ref |-> "due"]
             g == [h EXCEPT !.pc = "uploadRef"]
  <2>1. h \in Uploading /\ h.pc = "uploadObject"
    BY <1>0, <1>3, CatalogVariants DEF UploadObject, At, UploadPC
  <2>2. h.storage \in StorageCode /\ h.of \in 1 .. MaxRows
    BY <1>0, <2>1 DEF OwnFile, Uploading
  <2>3. o \in Object /\ o.ref = "due" /\ o.scene = h.scene /\ o.under = h.under
    BY <2>1, <2>2 DEF Uploading, Object
  <2>4. files' = [files EXCEPT ![h.file] = o] /\ Lands(q, g)
    BY <1>3 DEF UploadObject, CatalogGoto, Lands
  <2>5. /\ g \in Uploading /\ g.pc = "uploadRef" /\ g.file = h.file
        /\ g.scene = h.scene /\ g.under = h.under
    BY <2>1 DEF Uploading, UploadPC
  <2> HIDE DEF o, g
  <2>6. h.file \in File /\ files[h.file] = NoFile
    BY <1>0, <2>1 DEF OwnFile, Uploading
  <2>7. TablesTyped'
    BY <1>0, <1>3, <2>3, <2>4, <2>6 DEF UploadObject, TablesTyped
  <2>8. /\ catalog'[q] = g
        /\ \A p \in CatalogRequest \ {q} : catalog'[p] = catalog[p]
    BY <2>4, <2>5, Landing, CatalogHandlers DEF CatalogFits
  <2>9. UploadsApart'
    BY <1>0, <2>1, <2>5, <2>8 DEF Uploads, UploadsApart, UploadPC
  <2>10. OwnFile(q)'
    <3>1. files'[h.file] = o /\ o # NoFile
      BY <1>0, <2>3, <2>4, <2>6 DEF TablesTyped, NoFile
    <3> QED BY <2>3, <2>5, <2>8, <3>1 DEF OwnFile
  <2>11. ASSUME NEW p \in CatalogRequest \ {q}
         PROVE  OwnFile(p)'
    <3>1. OwnFile(p)
      BY <1>0 DEF Uploads
    <3>2. CASE catalog[p].pc \in UploadPC
      <4>1. catalog[p].file # h.file
        BY <1>0, <2>1, <3>2 DEF Uploads, UploadsApart, UploadPC
      <4>2. files'[catalog[p].file] = files[catalog[p].file]
        BY <1>0, <2>4, <4>1 DEF TablesTyped
      <4> QED BY <2>8, <3>1, <4>2 DEF OwnFile
    <3> QED BY <2>8, <3>2 DEF OwnFile, UploadPC
  <2> QED BY <2>4, <2>5, <2>7, <2>9, <2>10, <2>11 DEF Uploads
<1>4. CASE UploadRef(q)
  <2> DEFINE f == catalog[q].file
  <2>1. catalog[q] \in Uploading /\ catalog[q].pc = "uploadRef"
    BY <1>0, <1>4, CatalogVariants DEF UploadRef, At, UploadPC
  <2>2. f \in File /\ files[f] \in Object
    BY <1>0, <2>1 DEF Uploading, OwnFile, TablesTyped
  <2>3. files' = [files EXCEPT ![f].ref = "live"] /\ Lands(q, CatalogIdle)
    BY <1>4 DEF UploadRef, CatalogReturn, Lands
  <2>4. [files[f] EXCEPT !.ref = "live"] \in Object
    BY <2>2 DEF Object
  <2>5. TablesTyped'
    BY <1>0, <1>4, <2>2, <2>3, <2>4 DEF UploadRef, TablesTyped
  <2>6. /\ catalog'[q] = CatalogIdle
        /\ \A p \in CatalogRequest \ {q} : catalog'[p] = catalog[p]
    BY <2>3, Landing DEF CatalogFits
  <2>7. CatalogIdle.pc = "idle"
    BY DEF CatalogIdle
  <2>8. UploadsApart'
    BY <1>0, <2>6, <2>7 DEF Uploads, UploadsApart, UploadPC
  <2>9. OwnFile(q)'
    BY <2>6, <2>7 DEF OwnFile
  <2>10. ASSUME NEW p \in CatalogRequest \ {q}
         PROVE  OwnFile(p)'
    <3>1. OwnFile(p)
      BY <1>0 DEF Uploads
    <3>2. CASE catalog[p].pc \in UploadPC
      <4>1. catalog[p].file # f
        BY <1>0, <2>1, <3>2 DEF Uploads, UploadsApart, UploadPC
      <4>2. files'[catalog[p].file] = files[catalog[p].file]
        BY <1>0, <2>3, <4>1 DEF TablesTyped
      <4> QED BY <2>6, <3>1, <4>2 DEF OwnFile
    <3> QED BY <2>6, <3>2 DEF OwnFile, UploadPC
  <2> QED BY <2>3, <2>5, <2>8, <2>9, <2>10 DEF Uploads
<1> QED BY <1>1, <1>2, <1>3, <1>4 DEF UploadStep

\* So does a file that ends: its reference was live, then deleted.
LEMMA FileEndFits ==
  ASSUME CatalogFits, NEW f \in File, ReleaseRef(f) \/ Reclaim(f)
  PROVE  TablesTyped' /\ Uploads' /\ UNCHANGED catalog
<1>0. TablesTyped /\ Uploads
  BY DEF CatalogFits, CatalogTyped, TablesTyped
<1>1. files[f] \in Object /\ files[f].ref # "due" /\ files[f] # NoFile
  BY <1>0 DEF ReleaseRef, Reclaim, TablesTyped, NoFile, Object
<1>2. [files[f] EXCEPT !.ref = "deleted"] \in Object
  BY <1>1 DEF Object
<1>3. TablesTyped' /\ UNCHANGED catalog
  BY <1>0, <1>2 DEF ReleaseRef, Reclaim, TablesTyped
<1>4. \A g \in File \ {f} : files'[g] = files[g]
  BY <1>0 DEF ReleaseRef, Reclaim, TablesTyped
<1>5. UploadsApart'
  BY <1>0, <1>3 DEF Uploads, UploadsApart
<1>6. ASSUME NEW p \in CatalogRequest
      PROVE  OwnFile(p)'
  <2>1. OwnFile(p)
    BY <1>0 DEF Uploads
  <2>2. CASE catalog[p].pc \in UploadPC
    <3>1. catalog[p] \in Uploading
      BY <2>2, CatalogVariants DEF CatalogFits, CatalogTyped
    <3>2. catalog[p].file \in File \ {f}
      BY <1>1, <2>1, <2>2, <3>1 DEF OwnFile, Uploading, UploadPC
    <3> QED BY <1>3, <1>4, <2>1, <3>2 DEF OwnFile
  <2> QED BY <1>3, <2>2 DEF OwnFile, UploadPC
<1> QED BY <1>3, <1>5, <1>6 DEF Uploads

\* What a handler is going to refer to is a row, or none.
LEMMA RefersToRows ==
  ASSUME NEW h \in {CatalogIdle} \cup CatalogHandler
  PROVE  Refers(h) \subseteq 0 .. MaxRows
<1>1. CASE h.pc = "sceneWrite"
  BY <1>1, CatalogVariants DEF Refers, SceneWriting
<1>2. CASE h.pc \in UploadPC
  <2>1. h.of \in 0 .. MaxRows /\ h.under \in 0 .. MaxRows
    BY <1>2, CatalogVariants, CatalogAssumption DEF Uploading
  <2> QED BY <1>2, <2>1 DEF Refers, UploadPC
<1>3. CASE h.pc \notin {"sceneWrite"} \cup UploadPC
  BY <1>3 DEF Refers, UploadPC
<1> QED BY <1>1, <1>2, <1>3

\* A step of the catalogue keeps it fitting.
LEMMA CatalogStepFits ==
  ASSUME CatalogFits, CatalogNext
  PROVE  CatalogFits'
<1> DEFINE Kept ==
        /\ TablesTyped' /\ Uploads'
        /\ catalog' \in [CatalogRequest -> {CatalogIdle} \cup CatalogHandler]
<1>1. Kept
  <2>1. ASSUME NEW q \in CatalogRequest, SceneStep(q)
        PROVE  Kept
    <3>1. PICK h \in {CatalogIdle} \cup SceneWriting \cup SceneDeleting :
            Lands(q, h)
      BY <2>1, SceneStepFits
    <3>2. TablesTyped' /\ UNCHANGED files
      BY <2>1, SceneStepFits
    <3>3. h \in {CatalogIdle} \cup CatalogHandler /\ h.pc \notin UploadPC
      BY CatalogHandlers
         DEF CatalogIdle, SceneWriting, SceneDeleting, UploadPC
    <3> QED BY <3>1, <3>2, <3>3, UploadsStay, Landing DEF CatalogFits
  <2>2. ASSUME NEW q \in CatalogRequest, StorageStep(q)
        PROVE  Kept
    <3>1. PICK h \in {CatalogIdle} \cup StorageWriting \cup StorageDeleting :
            Lands(q, h)
      BY <2>2, StorageStepFits
    <3>2. TablesTyped' /\ UNCHANGED files
      BY <2>2, StorageStepFits
    <3>3. h \in {CatalogIdle} \cup CatalogHandler /\ h.pc \notin UploadPC
      BY CatalogHandlers
         DEF CatalogIdle, StorageWriting, StorageDeleting, UploadPC
    <3> QED BY <3>1, <3>2, <3>3, UploadsStay, Landing DEF CatalogFits
  <2>3. ASSUME NEW q \in CatalogRequest, UploadStep(q)
        PROVE  Kept
    <3>1. PICK h \in {CatalogIdle} \cup Uploading : Lands(q, h)
      BY <2>3, UploadStepFits
    <3> QED BY <2>3, <3>1, UploadStepFits, Landing, CatalogHandlers
            DEF CatalogFits
  <2>4. CASE \E f \in File : ReleaseRef(f) \/ Reclaim(f)
    BY <2>4, FileEndFits DEF CatalogFits, CatalogTyped
  <2> QED BY <2>1, <2>2, <2>3, <2>4 DEF CatalogNext
<1>2. Endangered' \subseteq 0 .. MaxRows
  BY <1>1, RefersToRows DEF Endangered
<1>3. raced' \subseteq 1 .. MaxRows
  BY <1>2 DEF CatalogNext, CatalogFits, CatalogTyped
<1>4. crossed' \in BOOLEAN /\ UNCHANGED plot
  BY DEF CatalogNext, CatalogFits, CatalogTyped, Crossing
<1> QED BY <1>1, <1>3, <1>4 DEF CatalogFits, CatalogTyped, TablesTyped

\* The catalogue starts with rows that are numbered.
LEMMA CatalogInitFits ==
  ASSUME CatalogInit
  PROVE  CatalogFits /\ Defaults \subseteq {LocalStorage}
<1> DEFINE P(n) == \A c, d \in plot.there : n[c] = n[d] => c = d
           n == CHOOSE n \in [plot.there -> 1 .. rows] : P(n)
<1>1. /\ plot \in CatalogAreas /\ IsFiniteSet(plot.there)
      /\ rows = Cardinality(plot.there) /\ rows \in 0 .. MaxRows
  <2>1. plot \in CatalogAreas /\ rows = Cardinality(plot.there)
    BY DEF CatalogInit
  <2>2. IsFiniteSet(plot.there) /\ Cardinality(plot.there) <= MaxRows
    BY <2>1, CatalogAreaAssumption
  <2> QED BY <2>1, <2>2, FS_CardinalityType, CatalogAssumption
<1>2. \E m \in [plot.there -> 1 .. rows] : P(m)
  <2>1. Cardinality(1 .. rows) = rows /\ IsFiniteSet(1 .. rows)
    BY <1>1, FS_Interval
  <2>2. ExistsBijection(plot.there, 1 .. rows)
    BY <1>1, <2>1, FS_SameCardinalityBij
  <2> QED BY <2>2 DEF ExistsBijection, Bijection, Injection, IsInjective
<1>3. n \in [plot.there -> 1 .. rows]
  BY <1>2
<1>4. /\ storages = [c \in StorageCode |->
           IF c \in plot.there
           THEN [row |-> n[c], enabled |-> TRUE, default |-> c = LocalStorage]
           ELSE NoRow]
      /\ scenes = [c \in SceneCode |->
           IF c \in plot.there
           THEN [row |-> n[c], enabled |-> TRUE, storage |-> NoCode, of |-> 0]
           ELSE NoRow]
  BY DEF CatalogInit
<1> HIDE DEF n
<1>5. \A c \in plot.there : n[c] \in 1 .. MaxRows
  BY <1>1, <1>3, CatalogAssumption
<1>6. storages \in [StorageCode -> {NoRow} \cup Storage]
  BY <1>4, <1>5 DEF Storage
<1>7. scenes \in [SceneCode -> {NoRow} \cup Scene]
  <2>1. 0 \in 0 .. MaxRows
    BY CatalogAssumption
  <2> QED BY <1>4, <1>5, <2>1 DEF Scene
<1>8. Defaults \subseteq {LocalStorage}
  BY <1>4 DEF Defaults
<1>9. CatalogTyped
  BY <1>1, <1>6, <1>7 DEF CatalogInit, CatalogTyped
<1>10. Uploads
  BY DEF CatalogInit, Uploads, UploadsApart, OwnFile, CatalogIdle, UploadPC
<1> QED BY <1>8, <1>9, <1>10 DEF CatalogFits

-----------------------------------------------------------------------------
(* Codes keep their row.                                                   *)

RowsMove ==
  /\ recoded \subseteq recoded' /\ raced \subseteq raced'
  /\ \A c \in StorageCode :
       \/ storages'[c].row = storages[c].row
       \/ storages[c].row \in {0} \cup recoded'
       \/ \E q \in CatalogRequest :
            catalog[q].pc = "storageDelete" /\ catalog[q].code = c
  /\ \A s \in SceneCode :
       \/ scenes'[s].row = scenes[s].row
       \/ scenes[s].row \in {0} \cup recoded'
       \/ \E q \in CatalogRequest :
            catalog[q].pc = "sceneDelete" /\ catalog[q].code = s

FilesMove ==
  \A f \in File : files'[f] # NoFile =>
    \/ /\ files[f] # NoFile
       /\ files'[f].storage = files[f].storage /\ files'[f].of = files[f].of
       /\ files'[f].scene = files[f].scene /\ files'[f].under = files[f].under
       /\ files'[f].ref # "deleted" => files[f].ref # "deleted"
    \/ \E q \in CatalogRequest :
         /\ catalog[q].pc = "uploadObject"
         /\ files'[f].storage = catalog[q].storage
         /\ files'[f].of = catalog[q].of
         /\ files'[f].scene = catalog[q].scene
         /\ files'[f].under = catalog[q].under

ScenesMove ==
  \A s \in SceneCode : scenes'[s] # NoRow =>
    \/ scenes'[s] = scenes[s]
    \/ \E q \in CatalogRequest :
         /\ catalog[q].pc = "sceneWrite"
         /\ scenes'[s].storage = catalog[q].storage
         /\ scenes'[s].of = catalog[q].of

TablesMove == RowsMove /\ FilesMove /\ ScenesMove

\* Every step moves the tables in these ways.
LEMMA TablesMoveSo ==
  ASSUME CatalogFits, CatalogNext
  PROVE  TablesMove
<1>0. TablesTyped
  BY DEF CatalogFits, CatalogTyped, TablesTyped
<1>1. raced \subseteq raced'
  BY DEF CatalogNext
<1>2. CASE UNCHANGED <<storages, scenes, files, recoded>>
  BY <1>1, <1>2 DEF TablesMove, RowsMove, FilesMove, ScenesMove
<1>3. ASSUME NEW q \in CatalogRequest, SceneWrite(q)
      PROVE  TablesMove
  <2>1. catalog[q] \in SceneWriting /\ catalog[q].pc = "sceneWrite"
    BY <1>3, CatalogVariants DEF CatalogFits, CatalogTyped, SceneWrite, At
  <2>2. UNCHANGED <<storages, files>>
    BY <1>3 DEF SceneWrite
  <2> DEFINE h == catalog[q]
  <2>3. CASE UNCHANGED <<scenes, recoded>>
    BY <1>2, <2>2, <2>3
  <2>4. CASE /\ scenes[h.code] = NoRow /\ UNCHANGED recoded
             /\ scenes' = [scenes EXCEPT ![h.code] =
                  [row |-> rows + 1, enabled |-> h.enabled,
                   storage |-> h.storage, of |-> h.of]]
    <3>1. /\ \A s \in SceneCode \ {h.code} : scenes'[s] = scenes[s]
          /\ scenes'[h.code].storage = h.storage /\ scenes'[h.code].of = h.of
      BY <1>0, <2>1, <2>4 DEF TablesTyped, SceneWriting
    <3>2. scenes[h.code].row = 0
      BY <2>4 DEF NoRow
    <3> QED BY <1>1, <2>1, <2>2, <2>4, <3>1, <3>2
            DEF TablesMove, RowsMove, FilesMove, ScenesMove
  <2>5. CASE /\ h.from # NoCode /\ scenes[h.from] # NoRow
             /\ h.code = h.from \/ scenes[h.code] = NoRow
             /\ scenes' = [scenes EXCEPT
                  ![h.from] = NoRow,
                  ![h.code] =
                    [row |-> scenes[h.from].row, enabled |-> h.enabled,
                     storage |-> h.storage, of |-> h.of]]
             /\ recoded' = IF h.code = h.from THEN recoded
                           ELSE recoded \cup {scenes[h.from].row}
    <3>1. /\ \A s \in SceneCode \ {h.code, h.from} : scenes'[s] = scenes[s]
          /\ scenes'[h.code].storage = h.storage /\ scenes'[h.code].of = h.of
          /\ scenes'[h.code].row = scenes[h.from].row
          /\ h.code # h.from => scenes'[h.from] = NoRow
      BY <1>0, <2>1, <2>5 DEF TablesTyped, SceneWriting
    <3>2. /\ h.code = h.from \/ scenes[h.code].row = 0
          /\ h.code # h.from => scenes[h.from].row \in recoded'
      BY <2>5 DEF NoRow
    <3>3. ScenesMove
      BY <2>1, <3>1 DEF ScenesMove
    <3>4. RowsMove
      BY <1>1, <2>2, <2>5, <3>1, <3>2 DEF RowsMove
    <3> QED BY <2>2, <3>3, <3>4 DEF TablesMove, FilesMove
  <2> QED BY <1>3, <2>3, <2>4, <2>5 DEF SceneWrite
<1>4. ASSUME NEW q \in CatalogRequest, SceneDelete(q)
      PROVE  TablesMove
  <2>1. catalog[q] \in SceneDeleting /\ catalog[q].pc = "sceneDelete"
    BY <1>4, CatalogVariants DEF CatalogFits, CatalogTyped, SceneDelete, At
  <2>2. /\ \A s \in SceneCode \ {catalog[q].code} : scenes'[s] = scenes[s]
        /\ scenes'[catalog[q].code] = NoRow
    BY <1>0, <1>4, <2>1 DEF SceneDelete, TablesTyped, SceneDeleting
  <2>3. UNCHANGED <<storages, files, recoded>>
    BY <1>4 DEF SceneDelete
  <2> QED BY <1>1, <2>1, <2>2, <2>3
          DEF TablesMove, RowsMove, FilesMove, ScenesMove
<1>5. ASSUME NEW q \in CatalogRequest, StorageWrite(q)
      PROVE  TablesMove
  <2> DEFINE h == catalog[q]
             unset == [c \in StorageCode |->
                         IF c \in h.seen /\ storages[c] # NoRow
                         THEN [storages[c] EXCEPT !.default = FALSE]
                         ELSE storages[c]]
  <2>1. h \in StorageWriting
    BY <1>5, CatalogVariants DEF CatalogFits, CatalogTyped, StorageWrite, At
  <2>2. UNCHANGED <<scenes, files>>
    BY <1>5 DEF StorageWrite
  <2>3. \A c \in StorageCode : unset[c].row = storages[c].row
    BY <1>0 DEF TablesTyped, Storage
  <2>4. CASE UNCHANGED <<storages, recoded>>
    BY <1>2, <2>2, <2>4
  <2>5. CASE /\ storages[h.code] = NoRow /\ UNCHANGED recoded
             /\ storages' = [unset EXCEPT ![h.code] =
                  [row |-> rows + 1, enabled |-> h.enabled,
                   default |-> h.default]]
    <3>1. storages[h.code].row = 0
      BY <2>5 DEF NoRow
    <3>2. \A c \in StorageCode \ {h.code} : storages'[c] = unset[c]
      BY <2>5
    <3> HIDE DEF unset
    <3> QED BY <1>1, <2>2, <2>3, <2>5, <3>1, <3>2
            DEF TablesMove, RowsMove, FilesMove, ScenesMove
  <2>6. CASE /\ h.from # NoCode /\ storages[h.from] # NoRow
             /\ h.code = h.from \/ storages[h.code] = NoRow
             /\ storages' = [unset EXCEPT
                  ![h.from] = NoRow,
                  ![h.code] = [row |-> storages[h.from].row,
                               enabled |-> h.enabled, default |-> h.default]]
             /\ recoded' = IF h.code = h.from THEN recoded
                           ELSE recoded \cup {storages[h.from].row}
    <3>1. /\ h.code = h.from \/ storages[h.code].row = 0
          /\ h.code # h.from => storages[h.from].row \in recoded'
      BY <2>6 DEF NoRow
    <3>2. unset \in [StorageCode -> {unset[c] : c \in StorageCode}]
      OBVIOUS
    <3> HIDE DEF unset
    <3>3. /\ \A c \in StorageCode \ {h.code, h.from} : storages'[c] = unset[c]
          /\ h.code = h.from => storages'[h.code].row = storages[h.code].row
      BY <2>1, <2>6, <3>2 DEF StorageWriting
    <3>4. RowsMove
      BY <1>1, <2>2, <2>3, <2>6, <3>1, <3>3 DEF RowsMove
    <3> QED BY <2>2, <3>4 DEF TablesMove, FilesMove, ScenesMove
  <2> QED BY <1>5, <2>4, <2>5, <2>6 DEF StorageWrite
<1>6. ASSUME NEW q \in CatalogRequest, StorageDelete(q)
      PROVE  TablesMove
  <2>1. catalog[q] \in StorageDeleting /\ catalog[q].pc = "storageDelete"
    BY <1>6, CatalogVariants DEF CatalogFits, CatalogTyped, StorageDelete, At
  <2>2. \A c \in StorageCode \ {catalog[q].code} : storages'[c] = storages[c]
    BY <1>0, <1>6, <2>1 DEF StorageDelete, TablesTyped, StorageDeleting
  <2>3. UNCHANGED <<scenes, files, recoded>>
    BY <1>6 DEF StorageDelete
  <2> QED BY <1>1, <2>1, <2>2, <2>3
          DEF TablesMove, RowsMove, FilesMove, ScenesMove
<1>7. ASSUME NEW q \in CatalogRequest, UploadObject(q) \/ UploadRef(q)
      PROVE  TablesMove
  <2> DEFINE f == catalog[q].file
  <2>1. /\ catalog[q] \in Uploading /\ f \in File
        /\ catalog[q].pc = "uploadRef" => files[f] \in Object
    BY <1>0, <1>7, CatalogVariants
       DEF CatalogFits, CatalogTyped, UploadObject, UploadRef, At, UploadPC,
           Uploading, Uploads, OwnFile, TablesTyped
  <2>2. UNCHANGED <<storages, scenes, recoded>>
    BY <1>7 DEF UploadObject, UploadRef
  <2>3. \A g \in File \ {f} : files'[g] = files[g]
    BY <1>0, <1>7, <2>1 DEF UploadObject, UploadRef, TablesTyped
  <2>4. CASE UploadObject(q)
    <3>1. /\ catalog[q].pc = "uploadObject"
          /\ files'[f].storage = catalog[q].storage
          /\ files'[f].of = catalog[q].of
          /\ files'[f].scene = catalog[q].scene
          /\ files'[f].under = catalog[q].under
      BY <1>0, <2>1, <2>4 DEF UploadObject, At, TablesTyped
    <3> QED BY <1>1, <2>2, <2>3, <3>1
            DEF TablesMove, RowsMove, FilesMove, ScenesMove
  <2>5. CASE UploadRef(q)
    <3>1. files[f] \in Object /\ files[f].ref = "due"
      BY <2>1, <2>5 DEF UploadRef, At, CatalogFits, Uploads, OwnFile
    <3>2. files'[f] = [files[f] EXCEPT !.ref = "live"]
      BY <1>0, <2>1, <2>5 DEF UploadRef, TablesTyped
    <3>3. /\ files[f] # NoFile
          /\ files'[f].storage = files[f].storage /\ files'[f].of = files[f].of
          /\ files'[f].scene = files[f].scene
          /\ files'[f].under = files[f].under
          /\ files[f].ref # "deleted"
      BY <3>1, <3>2 DEF Object, NoFile
    <3> QED BY <1>1, <2>2, <2>3, <3>3
            DEF TablesMove, RowsMove, FilesMove, ScenesMove
  <2> QED BY <1>7, <2>4, <2>5
<1>8. ASSUME NEW f \in File, ReleaseRef(f) \/ Reclaim(f)
      PROVE  TablesMove
  <2>1. files[f] \in Object /\ files[f] # NoFile
    BY <1>0, <1>8 DEF ReleaseRef, Reclaim, TablesTyped, NoFile, Object
  <2>2. UNCHANGED <<storages, scenes, recoded>>
    BY <1>8 DEF ReleaseRef, Reclaim
  <2>3. \A g \in File \ {f} : files'[g] = files[g]
    BY <1>0, <1>8 DEF ReleaseRef, Reclaim, TablesTyped
  <2>4. files'[f] \in {NoFile, [files[f] EXCEPT !.ref = "deleted"]}
    BY <1>0, <1>8 DEF ReleaseRef, Reclaim, TablesTyped
  <2>5. files'[f] # NoFile =>
          /\ files'[f].storage = files[f].storage /\ files'[f].of = files[f].of
          /\ files'[f].scene = files[f].scene
          /\ files'[f].under = files[f].under
          /\ files'[f].ref = "deleted"
    BY <2>1, <2>4 DEF Object
  <2> QED BY <1>1, <2>1, <2>2, <2>3, <2>5
          DEF TablesMove, RowsMove, FilesMove, ScenesMove
<1> QED
  <2>1. ASSUME NEW q \in CatalogRequest,
               \/ CreateScene(q) \/ UpdateScene(q) \/ SceneStorage(q)
               \/ DeleteScene(q) \/ SceneRefs(q)
               \/ CreateStorage(q) \/ UpdateStorage(q) \/ StorageUnset(q)
               \/ DeleteStorage(q) \/ StorageObjects(q) \/ StorageScenes(q)
               \/ Upload(q) \/ UploadBackend(q)
        PROVE  TablesMove
    <3>1. UNCHANGED CatalogTables
      BY <2>1 DEF CreateScene, UpdateScene, SceneStorage, DeleteScene,
             SceneRefs, CreateStorage, UpdateStorage, StorageUnset,
             DeleteStorage, StorageObjects, StorageScenes, Upload,
             UploadBackend
    <3> QED BY <1>2, <3>1 DEF CatalogTables
  <2> QED BY <1>3, <1>4, <1>5, <1>6, <1>7, <1>8, <2>1
          DEF CatalogNext, SceneStep, StorageStep, UploadStep

\* What is about to be referred to while its storage is about to be deleted
\* may stray.
LEMMA StorageRaced ==
  ASSUME Standing, NEW p \in CatalogRequest, NEW q \in CatalogRequest,
         catalog[q].pc \in {"storageObjects", "storageScenes", "storageDelete"},
         NEW n \in Refers(catalog[p]), n # 0,
         StorageStands(catalog[q].code, n)
  PROVE  MayStray(n)
<1>1. CASE storages[catalog[q].code].row = n
  <2>1. Drops(catalog[q]) = {n}
    BY <1>1 DEF Drops
  <2>2. n \in Endangered
    BY <2>1 DEF Endangered
  <2> QED BY <2>2 DEF Standing, MayStray
<1> QED BY <1>1 DEF StorageStands

\* So it is with a scene.
LEMMA SceneRaced ==
  ASSUME Standing, NEW p \in CatalogRequest, NEW q \in CatalogRequest,
         catalog[q].pc \in {"sceneRefs", "sceneDelete"},
         NEW n \in Refers(catalog[p]), n # 0,
         SceneStands(catalog[q].code, n)
  PROVE  MayStray(n)
<1>1. CASE scenes[catalog[q].code].row = n
  <2>1. Drops(catalog[q]) = {n}
    BY <1>1 DEF Drops
  <2>2. n \in Endangered
    BY <2>1 DEF Endangered
  <2> QED BY <2>2 DEF Standing, MayStray
<1> QED BY <1>1 DEF SceneStands

\* Rows that may stray go on doing so.
LEMMA StrayStays ==
  ASSUME TablesMove, NEW n, MayStray(n)
  PROVE  MayStray(n)'
BY DEF TablesMove, RowsMove, MayStray

\* A code goes on standing for its row, unless the storage is deleted.
LEMMA StorageStays ==
  ASSUME TablesMove, NEW c \in StorageCode, NEW n, n # 0, StorageStands(c, n),
         \A q \in CatalogRequest :
           catalog[q].pc = "storageDelete" /\ catalog[q].code = c => MayStray(n)
  PROVE  StorageStands(c, n)'
BY DEF TablesMove, RowsMove, StorageStands, MayStray

\* So it is with a scene.
LEMMA SceneStays ==
  ASSUME TablesMove, NEW s \in SceneCode, NEW n, n # 0, SceneStands(s, n),
         \A q \in CatalogRequest :
           catalog[q].pc = "sceneDelete" /\ catalog[q].code = s => MayStray(n)
  PROVE  SceneStands(s, n)'
BY DEF TablesMove, RowsMove, SceneStands, MayStray

\* What an upload is about to write stands, before and after any step.
LEMMA UploadStands ==
  ASSUME CatalogFits, Standing, TablesMove, NEW q \in CatalogRequest
  PROVE  /\ catalog[q].pc \in UploadPC =>
              /\ catalog[q].scene \in SceneCode /\ catalog[q].under # 0
              /\ catalog[q].under \in Refers(catalog[q])
              /\ SceneStands(catalog[q].scene, catalog[q].under)
              /\ \/ scenes'[catalog[q].scene].row = catalog[q].under
                 \/ catalog[q].under \in recoded' \cup raced'
         /\ catalog[q].pc = "uploadObject" =>
              /\ catalog[q].storage \in StorageCode /\ catalog[q].of # 0
              /\ catalog[q].of \in Refers(catalog[q])
              /\ StorageStands(catalog[q].storage, catalog[q].of)
              /\ \/ storages'[catalog[q].storage].row = catalog[q].of
                 \/ catalog[q].of \in recoded' \cup raced'
         /\ catalog[q].pc = "sceneWrite" /\ catalog[q].storage # NoCode =>
              /\ catalog[q].storage \in StorageCode /\ catalog[q].of # 0
              /\ catalog[q].of \in Refers(catalog[q])
              /\ StorageStands(catalog[q].storage, catalog[q].of)
              /\ \/ storages'[catalog[q].storage].row = catalog[q].of
                 \/ catalog[q].of \in recoded' \cup raced'
<1>1. PICK h : h = catalog[q]
  OBVIOUS
<1>2. h \in {CatalogIdle} \cup CatalogHandler
  BY <1>1 DEF CatalogFits, CatalogTyped
<1>3. HandlerStands(h) /\ OwnFile(q)
  BY <1>1 DEF Standing, CatalogFits, Uploads
<1>4. ASSUME h.pc \in UploadPC
      PROVE  /\ h.scene \in SceneCode /\ h.under # 0
             /\ h.under \in Refers(h)
             /\ SceneStands(h.scene, h.under)
             /\ SceneStands(h.scene, h.under)'
  <2>1. h.scene \in SceneCode /\ h.under # 0 /\ SceneStands(h.scene, h.under)
    BY <1>2, <1>3, <1>4, CatalogVariants DEF HandlerStands, Uploading
  <2>2. h.under \in Refers(h)
    BY <1>4 DEF Refers, UploadPC
  <2> QED BY <1>1, <2>1, <2>2, SceneRaced, SceneStays
<1>5. ASSUME h.pc = "uploadObject" \/ (h.pc = "sceneWrite" /\ h.storage # NoCode)
      PROVE  /\ h.storage \in StorageCode /\ h.of # 0
             /\ h.of \in Refers(h)
             /\ StorageStands(h.storage, h.of)
             /\ StorageStands(h.storage, h.of)'
  <2>1. /\ h.storage \in StorageCode /\ h.of # 0
        /\ StorageStands(h.storage, h.of)
    BY <1>1, <1>2, <1>3, <1>5, CatalogVariants
       DEF HandlerStands, SceneWriting, OwnFile
  <2>2. h.of \in Refers(h)
    BY <1>5 DEF Refers
  <2> QED BY <1>1, <2>1, <2>2, StorageRaced, StorageStays
<1> QED BY <1>1, <1>4, <1>5 DEF SceneStands, StorageStands, MayStray

\* A handler that does not move goes on standing.
LEMMA OldHandlerStands ==
  ASSUME CatalogFits, Standing, TablesMove, NEW p \in CatalogRequest,
         catalog'[p] = catalog[p]
  PROVE  HandlerStands(catalog[p])'
<1>1. PICK h : h = catalog[p]
  OBVIOUS
<1>2. HandlerStands(h)
  BY <1>1 DEF Standing
<1>3. /\ h.pc = "sceneWrite" /\ h.storage # NoCode =>
           h.of # 0 /\ StorageStands(h.storage, h.of)'
      /\ h.pc = "uploadObject" => StorageStands(h.storage, h.of)'
      /\ h.pc \in UploadPC => SceneStands(h.scene, h.under)'
  BY <1>1, UploadStands DEF StorageStands, SceneStands, MayStray
<1>4. ASSUME h.pc \in {"storageScenes", "storageDelete"}, NEW f \in File,
             files'[f] # NoFile, files'[f].storage = h.code
      PROVE  files'[f].of \in recoded' \cup raced'
  <2>1. CASE /\ files[f] # NoFile /\ files'[f].storage = files[f].storage
             /\ files'[f].of = files[f].of
    BY <1>2, <1>4, <2>1, StrayStays DEF HandlerStands, MayStray
  <2>2. ASSUME NEW q \in CatalogRequest, catalog[q].pc = "uploadObject",
               files'[f].storage = catalog[q].storage,
               files'[f].of = catalog[q].of
        PROVE  files'[f].of \in recoded' \cup raced'
    <3>1. MayStray(catalog[q].of)
      BY <1>1, <1>4, <2>2, UploadStands, StorageRaced
    <3> QED BY <2>2, <3>1, StrayStays DEF MayStray
  <2> QED BY <1>4, <2>1, <2>2 DEF TablesMove, FilesMove
<1>5. ASSUME h.pc = "storageDelete", NEW s \in SceneCode,
             scenes'[s] # NoRow, scenes'[s].storage = h.code
      PROVE  scenes'[s].of \in recoded' \cup raced'
  <2>1. CASE scenes'[s] = scenes[s]
    BY <1>2, <1>5, <2>1, StrayStays DEF HandlerStands, MayStray
  <2>2. ASSUME NEW q \in CatalogRequest, catalog[q].pc = "sceneWrite",
               scenes'[s].storage = catalog[q].storage,
               scenes'[s].of = catalog[q].of
        PROVE  scenes'[s].of \in recoded' \cup raced'
    <3>1. h.code # NoCode
      BY <1>1, <1>5, CatalogVariants, CatalogAssumption
         DEF CatalogFits, CatalogTyped, StorageDeleting
    <3>2. MayStray(catalog[q].of)
      BY <1>1, <1>5, <2>2, <3>1, UploadStands, StorageRaced
    <3> QED BY <2>2, <3>2, StrayStays DEF MayStray
  <2> QED BY <1>5, <2>1, <2>2 DEF TablesMove, ScenesMove
<1>6. ASSUME h.pc = "sceneDelete", NEW f \in File, files'[f] # NoFile,
             files'[f].scene = h.code, files'[f].ref # "deleted"
      PROVE  files'[f].under \in recoded' \cup raced'
  <2>1. CASE /\ files[f] # NoFile /\ files'[f].scene = files[f].scene
             /\ files'[f].under = files[f].under /\ files[f].ref # "deleted"
    BY <1>2, <1>6, <2>1, StrayStays DEF HandlerStands, MayStray
  <2>2. ASSUME NEW q \in CatalogRequest, catalog[q].pc = "uploadObject",
               files'[f].scene = catalog[q].scene,
               files'[f].under = catalog[q].under
        PROVE  files'[f].under \in recoded' \cup raced'
    <3>1. MayStray(catalog[q].under)
      BY <1>1, <1>6, <2>2, UploadStands, SceneRaced DEF UploadPC
    <3> QED BY <2>2, <3>1, StrayStays DEF MayStray
  <2> QED BY <1>6, <2>1, <2>2 DEF TablesMove, FilesMove
<1>7. HandlerStands(h)'
  BY <1>3, <1>4, <1>5, <1>6 DEF HandlerStands, MayStray
<1> QED BY <1>1, <1>7 DEF HandlerStands

\* A reference that is due has its upload.
LEMMA DueStays ==
  ASSUME CatalogFits, Standing, CatalogNext, NEW f \in File,
         files'[f] # NoFile, files'[f].ref = "due"
  PROVE  \E q \in CatalogRequest :
           catalog'[q].pc = "uploadRef" /\ catalog'[q].file = f
<1>0. TablesTyped /\ Uploads
  BY DEF CatalogFits, CatalogTyped, TablesTyped
<1>1. ASSUME NEW q \in CatalogRequest, catalog[q].pc # "uploadRef",
             NEW h \in {CatalogIdle} \cup CatalogHandler, Lands(q, h),
             files'[f] = files[f]
      PROVE  \E p \in CatalogRequest :
               catalog'[p].pc = "uploadRef" /\ catalog'[p].file = f
  <2>1. PICK p \in CatalogRequest :
               catalog[p].pc = "uploadRef" /\ catalog[p].file = f
    BY <1>1 DEF Standing, FileStands
  <2> QED BY <1>1, <2>1, Landing DEF CatalogFits
<1>2. ASSUME NEW q \in CatalogRequest, SceneStep(q)
      PROVE  \E p \in CatalogRequest :
               catalog'[p].pc = "uploadRef" /\ catalog'[p].file = f
  <2>1. catalog[q].pc # "uploadRef"
    BY <1>2 DEF SceneStep, CreateScene, UpdateScene, SceneStorage, SceneWrite,
           DeleteScene, SceneRefs, SceneDelete, At, CatalogStart, CatalogIdle
  <2> QED BY <1>1, <1>2, <2>1, SceneStepFits, CatalogHandlers
<1>3. ASSUME NEW q \in CatalogRequest, StorageStep(q)
      PROVE  \E p \in CatalogRequest :
               catalog'[p].pc = "uploadRef" /\ catalog'[p].file = f
  <2>1. catalog[q].pc # "uploadRef"
    BY <1>3 DEF StorageStep, CreateStorage, UpdateStorage, StorageUnset,
           StorageWrite, DeleteStorage, StorageObjects, StorageScenes,
           StorageDelete, At, CatalogStart, CatalogIdle
  <2> QED BY <1>1, <1>3, <2>1, StorageStepFits, CatalogHandlers
<1>4. ASSUME NEW q \in CatalogRequest, UploadStep(q)
      PROVE  \E p \in CatalogRequest :
               catalog'[p].pc = "uploadRef" /\ catalog'[p].file = f
  <2>1. PICK h \in {CatalogIdle} \cup CatalogHandler : Lands(q, h)
    BY <1>4, UploadStepFits, CatalogHandlers
  <2>2. CASE Upload(q) \/ UploadBackend(q)
    <3>1. UNCHANGED files
      BY <2>2 DEF Upload, UploadBackend, CatalogTables
    <3>2. CASE Upload(q)
      <4>1. catalog[q] = CatalogIdle
        BY <3>2 DEF Upload, CatalogStart
      <4> QED BY <1>1, <2>1, <3>1, <4>1 DEF CatalogIdle
    <3>3. CASE UploadBackend(q)
      BY <1>1, <2>1, <3>1, <3>3 DEF UploadBackend, At
    <3> QED BY <2>2, <3>2, <3>3
  <2>3. CASE UploadObject(q)
    <3>1. /\ catalog[q] \in Uploading /\ catalog[q].pc = "uploadObject"
      BY <2>3, CatalogVariants
         DEF UploadObject, At, UploadPC, CatalogFits, CatalogTyped
    <3>2. CASE f = catalog[q].file
      <4>1. catalog'[q] = [catalog[q] EXCEPT !.pc = "uploadRef"]
        BY <2>3 DEF UploadObject, CatalogGoto, CatalogFits, CatalogTyped
      <4> QED BY <3>1, <3>2, <4>1 DEF Uploading
    <3>3. CASE f # catalog[q].file
      <4>1. files'[f] = files[f]
        BY <1>0, <2>3, <3>3 DEF UploadObject, TablesTyped
      <4> QED BY <1>1, <2>1, <3>1, <4>1
    <3> QED BY <3>2, <3>3
  <2>4. CASE UploadRef(q)
    <3>1. catalog[q] \in Uploading /\ files[catalog[q].file] \in Object
      BY <1>0, <2>4, CatalogVariants
         DEF UploadRef, At, UploadPC, CatalogFits, CatalogTyped, Uploads,
             OwnFile, Uploading, TablesTyped
    <3>2. files' = [files EXCEPT ![catalog[q].file].ref = "live"]
      BY <2>4 DEF UploadRef
    <3>3. f # catalog[q].file /\ files'[f] = files[f]
      BY <1>0, <3>1, <3>2 DEF TablesTyped, Object, Uploading
    <3>4. PICK p \in CatalogRequest :
                 catalog[p].pc = "uploadRef" /\ catalog[p].file = f
      BY <3>3 DEF Standing, FileStands
    <3>5. catalog'[p] = catalog[p]
      BY <2>1, <3>3, <3>4, Landing DEF CatalogFits
    <3> QED BY <3>4, <3>5
  <2> QED BY <1>4, <2>2, <2>3, <2>4 DEF UploadStep
<1>5. ASSUME NEW g \in File, ReleaseRef(g) \/ Reclaim(g)
      PROVE  \E p \in CatalogRequest :
               catalog'[p].pc = "uploadRef" /\ catalog'[p].file = f
  <2>1. files[g].ref # "due" /\ UNCHANGED catalog
    BY <1>5 DEF ReleaseRef, Reclaim
  <2>2. files'[g] = NoFile \/ files'[g].ref = "deleted"
    <3>1. files[g] \in Object
      BY <1>0, <1>5 DEF ReleaseRef, Reclaim, TablesTyped, NoFile, Object
    <3> QED BY <1>0, <1>5, <3>1 DEF ReleaseRef, Reclaim, TablesTyped, Object
  <2>3. f # g /\ files'[f] = files[f]
    BY <1>0, <1>5, <2>2 DEF ReleaseRef, Reclaim, TablesTyped
  <2> QED BY <2>1, <2>3 DEF Standing, FileStands
<1> QED BY <1>2, <1>3, <1>4, <1>5 DEF CatalogNext

\* A handler that has looked nothing up stands.
LEMMA QuietStands ==
  ASSUME NEW h, h.pc \notin {"sceneWrite", "sceneDelete", "storageScenes",
                             "storageDelete"} \cup UploadPC
  PROVE  HandlerStands(h)
BY DEF HandlerStands, UploadPC

\* A handler that moves stands where it lands.
LEMMA NewHandlerStands ==
  ASSUME CatalogFits, Standing, CatalogNext, TablesMove,
         NEW q \in CatalogRequest,
         SceneStep(q) \/ StorageStep(q) \/ UploadStep(q)
  PROVE  HandlerStands(catalog[q])'
<1>0. /\ TablesTyped /\ OwnFile(q) /\ HandlerStands(catalog[q])
      /\ catalog[q] \in {CatalogIdle} \cup CatalogHandler
  BY DEF CatalogFits, CatalogTyped, TablesTyped, Uploads, Standing
<1>1. /\ catalog \in [CatalogRequest -> {CatalogIdle} \cup CatalogHandler]
      /\ CatalogIdle.pc = "idle"
  BY DEF CatalogFits, CatalogTyped, CatalogIdle
<1>2. ASSUME catalog'[q].pc \notin {"sceneWrite", "sceneDelete",
               "storageScenes", "storageDelete"} \cup UploadPC
      PROVE  HandlerStands(catalog[q])'
  BY <1>2 DEF HandlerStands, UploadPC
<1>3. CASE CatalogReturn(q)
  BY <1>1, <1>2, <1>3 DEF CatalogReturn, UploadPC
<1>4. CASE CreateScene(q) \/ UpdateScene(q)
  <2>1. catalog'[q].pc = "sceneStorage"
    <3>1. CASE CreateScene(q)
      BY <1>1, <3>1 DEF CreateScene, CatalogStart
    <3>2. CASE UpdateScene(q)
      BY <1>1, <3>2 DEF UpdateScene, CatalogStart
    <3> QED BY <1>4, <3>1, <3>2
  <2> QED BY <1>2, <2>1 DEF UploadPC
<1>5. CASE DeleteScene(q) \/ DeleteStorage(q)
  <2>1. catalog'[q].pc \in {"sceneRefs", "storageObjects"}
    BY <1>1, <1>5 DEF DeleteScene, DeleteStorage, CatalogStart
  <2> QED BY <1>2, <2>1 DEF UploadPC
<1>6. CASE CreateStorage(q) \/ UpdateStorage(q)
  <2>1. catalog'[q].pc = "storageUnset"
    <3>1. CASE CreateStorage(q)
      BY <1>1, <3>1 DEF CreateStorage, CatalogStart
    <3>2. CASE UpdateStorage(q)
      BY <1>1, <3>2 DEF UpdateStorage, CatalogStart
    <3> QED BY <1>6, <3>1, <3>2
  <2> QED BY <1>2, <2>1 DEF UploadPC
<1>7. CASE StorageUnset(q)
  <2>1. catalog[q] \in StorageWriting
    BY <1>0, <1>7, CatalogVariants DEF StorageUnset, At
  <2>2. catalog'[q].pc = "storageWrite"
    BY <1>1, <1>7, <2>1 DEF StorageUnset, StorageWriting
  <2> QED BY <1>2, <2>2 DEF UploadPC
<1>8. CASE SceneStorage(q)
  <2>1. catalog[q] \in SceneWriting /\ UNCHANGED CatalogTables
    BY <1>0, <1>8, CatalogVariants DEF SceneStorage, At
  <2>2. CASE /\ catalog[q].storage = NoCode
             /\ catalog' = [catalog EXCEPT ![q].pc = "sceneWrite"]
    <3>1. catalog'[q].pc = "sceneWrite" /\ catalog'[q].storage = NoCode
      BY <1>1, <2>1, <2>2 DEF SceneWriting
    <3> QED BY <3>1 DEF HandlerStands, UploadPC
  <2>3. CASE /\ catalog[q].storage # NoCode
             /\ storages[catalog[q].storage] # NoRow
             /\ catalog' = [catalog EXCEPT ![q].pc = "sceneWrite",
                   ![q].of = storages[catalog[q].storage].row]
    <3>1. /\ catalog'[q].pc = "sceneWrite"
          /\ catalog'[q].storage = catalog[q].storage
          /\ catalog'[q].of = storages[catalog[q].storage].row
      BY <1>1, <2>1, <2>3 DEF SceneWriting
    <3>2. storages[catalog[q].storage].row # 0
      BY <1>0, <2>1, <2>3 DEF TablesTyped, SceneWriting, Storage
    <3>3. UNCHANGED storages
      BY <2>1 DEF CatalogTables
    <3> QED BY <3>1, <3>2, <3>3 DEF HandlerStands, StorageStands, UploadPC
  <2> QED BY <1>3, <1>8, <2>2, <2>3 DEF SceneStorage, CatalogGoto
<1>9. CASE SceneRefs(q)
  <2>1. /\ catalog[q] \in SceneDeleting /\ catalog[q].pc = "sceneRefs"
        /\ UNCHANGED CatalogTables
    BY <1>0, <1>9, CatalogVariants DEF SceneRefs, At
  <2>2. CASE /\ ~CountRefsByScene(catalog[q].code)
             /\ CatalogGoto(q, "sceneDelete")
    <3>1. /\ catalog'[q].pc = "sceneDelete"
          /\ catalog'[q].code = catalog[q].code
      BY <1>1, <2>1, <2>2 DEF CatalogGoto, SceneDeleting
    <3>2. ASSUME NEW f \in File, files[f] # NoFile,
                 files[f].scene = catalog[q].code, files[f].ref # "deleted"
          PROVE  MayStray(files[f].under)
      <4>1. files[f] \in Object /\ FileStands(f)
        BY <1>0, <3>2 DEF TablesTyped, Standing
      <4>2. files[f].ref = "due"
        BY <2>2, <3>2, <4>1 DEF CountRefsByScene, Object
      <4>3. PICK p \in CatalogRequest :
                   catalog[p].pc = "uploadRef" /\ catalog[p].file = f
        BY <3>2, <4>1, <4>2 DEF FileStands
      <4>4. /\ files[f].under = catalog[p].under
            /\ files[f].scene = catalog[p].scene
        BY <4>3 DEF CatalogFits, Uploads, OwnFile
      <4> QED BY <2>1, <3>2, <4>3, <4>4, UploadStands, SceneRaced DEF UploadPC
    <3>3. UNCHANGED files
      BY <2>1 DEF CatalogTables
    <3>4. \A f \in File :
            files'[f] # NoFile /\ files'[f].scene = catalog'[q].code
              /\ files'[f].ref # "deleted" => MayStray(files[f].under)'
      BY <3>1, <3>2, <3>3, StrayStays DEF MayStray
    <3> QED BY <3>1, <3>4 DEF HandlerStands, UploadPC
  <2> QED BY <1>3, <1>9, <2>2 DEF SceneRefs
<1>10. CASE StorageObjects(q)
  <2>1. /\ catalog[q] \in StorageDeleting /\ UNCHANGED CatalogTables
    BY <1>0, <1>10, CatalogVariants DEF StorageObjects, At
  <2>2. CASE /\ ~CountObjectsByStorage(catalog[q].code)
             /\ CatalogGoto(q, "storageScenes")
    <3>1. /\ catalog'[q].pc = "storageScenes"
          /\ catalog'[q].code = catalog[q].code
      BY <1>1, <2>1, <2>2 DEF CatalogGoto, StorageDeleting
    <3>2. \A f \in File :
            files'[f] # NoFile => files'[f].storage # catalog'[q].code
      BY <2>1, <2>2, <3>1 DEF CatalogTables, CountObjectsByStorage
    <3> QED BY <3>1, <3>2 DEF HandlerStands, UploadPC
  <2> QED BY <1>3, <1>10, <2>2 DEF StorageObjects
<1>11. CASE StorageScenes(q)
  <2>1. /\ catalog[q] \in StorageDeleting /\ catalog[q].pc = "storageScenes"
        /\ UNCHANGED CatalogTables
    BY <1>0, <1>11, CatalogVariants DEF StorageScenes, At
  <2>2. CASE /\ ~CountScenesByStorage(catalog[q].code)
             /\ CatalogGoto(q, "storageDelete")
    <3>1. /\ catalog'[q].pc = "storageDelete"
          /\ catalog'[q].code = catalog[q].code
      BY <1>1, <2>1, <2>2 DEF CatalogGoto, StorageDeleting
    <3>2. \A s \in SceneCode :
            scenes'[s] # NoRow => scenes'[s].storage # catalog'[q].code
      BY <2>1, <2>2, <3>1 DEF CatalogTables, CountScenesByStorage
    <3>3. \A f \in File : files[f] # NoFile /\ files[f].storage = catalog[q].code
            => MayStray(files[f].of)
      BY <1>0, <2>1 DEF HandlerStands
    <3>4. UNCHANGED files
      BY <2>1 DEF CatalogTables
    <3>5. \A f \in File :
            files'[f] # NoFile /\ files'[f].storage = catalog'[q].code
              => MayStray(files[f].of)'
      BY <3>1, <3>3, <3>4, StrayStays DEF MayStray
    <3> QED BY <3>1, <3>2, <3>5 DEF HandlerStands, UploadPC
  <2> QED BY <1>3, <1>11, <2>2 DEF StorageScenes
<1>12. CASE Upload(q)
  <2>1. PICK f \in File, s \in SceneCode :
          CatalogStart(q, [pc |-> "uploadBackend", file |-> f, scene |-> s,
                           under |-> scenes[s].row,
                           storage |-> scenes[s].storage, of |-> 0])
    BY <1>12 DEF Upload
  <2>2. /\ catalog'[q].pc = "uploadBackend" /\ catalog'[q].scene = s
        /\ catalog'[q].under = scenes[s].row
    BY <1>1, <2>1 DEF CatalogStart
  <2>3. UNCHANGED scenes
    BY <1>12 DEF Upload, CatalogTables
  <2> QED BY <2>2, <2>3 DEF HandlerStands, SceneStands, UploadPC
<1>13. CASE UploadBackend(q)
  <2>1. /\ catalog[q] \in Uploading /\ catalog[q].pc = "uploadBackend"
        /\ UNCHANGED CatalogTables
    BY <1>0, <1>13, CatalogVariants DEF UploadBackend, At, UploadPC
  <2>2. ASSUME NEW c \in Backend(catalog[q].storage),
               catalog' = [catalog EXCEPT ![q].pc = "uploadObject",
                             ![q].storage = c, ![q].of = storages[c].row]
        PROVE  HandlerStands(catalog[q])'
    <3>1. catalog'[q].pc = "uploadObject" /\ catalog'[q].storage = c
      BY <1>1, <2>1, <2>2 DEF Uploading
    <3>2. catalog'[q].of = storages[c].row
      BY <1>1, <2>1, <2>2 DEF Uploading
    <3>3. /\ catalog'[q].scene = catalog[q].scene
          /\ catalog'[q].under = catalog[q].under
      BY <1>1, <2>1, <2>2 DEF Uploading
    <3>4. SceneStands(catalog[q].scene, catalog[q].under)
      BY <1>0, <2>1 DEF HandlerStands, UploadPC
    <3>5. UNCHANGED <<storages, scenes>>
      BY <2>1 DEF CatalogTables
    <3>6. \/ scenes'[catalog'[q].scene].row = catalog'[q].under
          \/ catalog'[q].under \in recoded' \cup raced'
      BY <3>3, <3>4, <3>5, StrayStays DEF SceneStands, MayStray
    <3> QED BY <3>1, <3>2, <3>5, <3>6
            DEF HandlerStands, StorageStands, SceneStands, MayStray, UploadPC
  <2> QED BY <1>3, <1>13, <2>2 DEF UploadBackend
<1>14. CASE UploadObject(q)
  <2>1. catalog[q] \in Uploading /\ catalog[q].pc = "uploadObject"
    BY <1>0, <1>14, CatalogVariants DEF UploadObject, At, UploadPC
  <2>2. /\ catalog'[q].pc = "uploadRef"
        /\ catalog'[q].scene = catalog[q].scene
        /\ catalog'[q].under = catalog[q].under
    BY <1>1, <1>14, <2>1 DEF UploadObject, CatalogGoto, Uploading
  <2>3. \/ scenes'[catalog[q].scene].row = catalog[q].under
        \/ catalog[q].under \in recoded' \cup raced'
    BY <2>1, UploadStands DEF UploadPC
  <2> QED BY <2>2, <2>3 DEF HandlerStands, SceneStands, MayStray, UploadPC
<1>15. CASE \/ SceneWrite(q) \/ SceneDelete(q) \/ StorageWrite(q)
            \/ StorageDelete(q) \/ UploadRef(q)
  BY <1>3, <1>15 DEF SceneWrite, SceneDelete, StorageWrite, StorageDelete,
     UploadRef
<1> QED
  BY <1>4, <1>5, <1>6, <1>7, <1>8, <1>9, <1>10, <1>11, <1>12, <1>13, <1>14,
     <1>15 DEF SceneStep, StorageStep, UploadStep

\* A file that is there, or is put there, stands.
LEMMA FileStandsStill ==
  ASSUME CatalogFits, Standing, CatalogNext, TablesMove, NEW f \in File
  PROVE  FileStands(f)'
<1>1. SUFFICES ASSUME files'[f] # NoFile
               PROVE  /\ \/ storages'[files'[f].storage].row = files'[f].of
                         \/ files'[f].of \in recoded' \cup raced'
                      /\ files'[f].ref # "deleted" =>
                           \/ scenes'[files'[f].scene].row = files'[f].under
                           \/ files'[f].under \in recoded' \cup raced'
  BY DueStays DEF FileStands, StorageStands, SceneStands, MayStray
<1>2. CASE /\ files[f] # NoFile
           /\ files'[f].storage = files[f].storage /\ files'[f].of = files[f].of
           /\ files'[f].scene = files[f].scene
           /\ files'[f].under = files[f].under
           /\ files'[f].ref # "deleted" => files[f].ref # "deleted"
  <2>1. /\ files[f].storage \in StorageCode /\ files[f].of # 0
        /\ files[f].scene \in SceneCode /\ files[f].under # 0
    BY <1>2 DEF CatalogFits, CatalogTyped, Object
  <2>2. \A q \in CatalogRequest :
          catalog[q].pc = "storageDelete" /\ catalog[q].code = files[f].storage
            => MayStray(files[f].of)
    BY <1>2 DEF Standing, HandlerStands
  <2>3. files[f].ref # "deleted" => \A q \in CatalogRequest :
          catalog[q].pc = "sceneDelete" /\ catalog[q].code = files[f].scene
            => MayStray(files[f].under)
    BY <1>2 DEF Standing, HandlerStands
  <2>4. /\ StorageStands(files[f].storage, files[f].of)
        /\ files[f].ref # "deleted" =>
             SceneStands(files[f].scene, files[f].under)
    BY <1>2 DEF Standing, FileStands
  <2> QED BY <1>2, <2>1, <2>2, <2>3, <2>4, StorageStays, SceneStays
          DEF StorageStands, SceneStands, MayStray
<1>3. ASSUME NEW q \in CatalogRequest, catalog[q].pc = "uploadObject",
             files'[f].storage = catalog[q].storage,
             files'[f].of = catalog[q].of,
             files'[f].scene = catalog[q].scene,
             files'[f].under = catalog[q].under
      PROVE  /\ \/ storages'[files'[f].storage].row = files'[f].of
                \/ files'[f].of \in recoded' \cup raced'
             /\ \/ scenes'[files'[f].scene].row = files'[f].under
                \/ files'[f].under \in recoded' \cup raced'
  BY <1>3, UploadStands DEF UploadPC
<1> QED BY <1>1, <1>2, <1>3 DEF TablesMove, FilesMove

\* So does a scene.
LEMMA SceneRowStandsStill ==
  ASSUME CatalogFits, Standing, TablesMove, NEW s \in SceneCode
  PROVE  SceneRowStands(s)'
<1>1. SUFFICES ASSUME scenes'[s] # NoRow, scenes'[s].storage # NoCode
               PROVE  /\ scenes'[s].of # 0
                      /\ \/ storages'[scenes'[s].storage].row = scenes'[s].of
                         \/ scenes'[s].of \in recoded' \cup raced'
  BY DEF SceneRowStands, StorageStands, MayStray
<1>2. CASE scenes'[s] = scenes[s]
  <2>1. scenes[s].storage \in StorageCode
    BY <1>1, <1>2 DEF CatalogFits, CatalogTyped, Scene
  <2>2. scenes[s].of # 0 /\ StorageStands(scenes[s].storage, scenes[s].of)
    BY <1>1, <1>2 DEF Standing, SceneRowStands
  <2>3. \A q \in CatalogRequest :
          catalog[q].pc = "storageDelete" /\ catalog[q].code = scenes[s].storage
            => MayStray(scenes[s].of)
    BY <1>1, <1>2 DEF Standing, HandlerStands
  <2> QED BY <1>2, <2>1, <2>2, <2>3, StorageStays DEF StorageStands, MayStray
<1>3. ASSUME NEW q \in CatalogRequest, catalog[q].pc = "sceneWrite",
             scenes'[s].storage = catalog[q].storage,
             scenes'[s].of = catalog[q].of
      PROVE  /\ scenes'[s].of # 0
             /\ \/ storages'[scenes'[s].storage].row = scenes'[s].of
                \/ scenes'[s].of \in recoded' \cup raced'
  BY <1>1, <1>3, UploadStands
<1> QED BY <1>1, <1>2, <1>3 DEF TablesMove, ScenesMove

\* A step moves at most one handler.
LEMMA OneHandlerMoves ==
  ASSUME CatalogFits, CatalogNext
  PROVE  \/ UNCHANGED catalog
         \/ \E q \in CatalogRequest :
              /\ SceneStep(q) \/ StorageStep(q) \/ UploadStep(q)
              /\ \A p \in CatalogRequest \ {q} : catalog'[p] = catalog[p]
<1>1. ASSUME NEW q \in CatalogRequest,
             SceneStep(q) \/ StorageStep(q) \/ UploadStep(q)
      PROVE  \A p \in CatalogRequest \ {q} : catalog'[p] = catalog[p]
  <2>1. \E h \in {CatalogIdle} \cup CatalogHandler : Lands(q, h)
    BY <1>1, SceneStepFits, StorageStepFits, UploadStepFits, CatalogHandlers
  <2> QED BY <2>1, Landing DEF CatalogFits
<1> QED BY <1>1, FileEndFits DEF CatalogNext

\* Every step keeps the codes standing.
LEMMA StandingStep ==
  ASSUME CatalogFits, Standing, CatalogNext
  PROVE  Standing'
<1>1. TablesMove
  BY TablesMoveSo
<1>2. \A f \in File : FileStands(f)'
  BY <1>1, FileStandsStill
<1>3. \A s \in SceneCode : SceneRowStands(s)'
  BY <1>1, SceneRowStandsStill
<1>4. ASSUME NEW p \in CatalogRequest
      PROVE  HandlerStands(catalog[p])'
  BY <1>1, OneHandlerMoves, OldHandlerStands, NewHandlerStands
<1>5. Endangered' \ {0} \subseteq raced'
  BY DEF CatalogNext
<1> QED BY <1>2, <1>3, <1>4, <1>5 DEF Standing

-----------------------------------------------------------------------------
(* One default; updates write what they were asked to.                     *)

\* Who is about to write a storage has unset the others in the same step.
LEMMA WritersHaveUnset ==
  ASSUME CatalogFits, NEW q \in CatalogRequest,
         SceneStep(q) \/ StorageStep(q) \/ UploadStep(q),
         catalog'[q].pc \in {"storageUnset", "storageWrite"}
  PROVE  CreateStorage(q) \/ UpdateStorage(q) \/ StorageUnset(q)
<1>0. /\ catalog \in [CatalogRequest -> {CatalogIdle} \cup CatalogHandler]
      /\ CatalogIdle.pc = "idle"
  BY DEF CatalogFits, CatalogTyped, CatalogIdle
<1>1. ASSUME NEW h \in {CatalogIdle} \cup SceneWriting \cup SceneDeleting
                         \cup StorageDeleting \cup Uploading,
             Lands(q, h)
      PROVE  FALSE
  BY <1>0, <1>1
     DEF Lands, SceneWriting, SceneDeleting, StorageDeleting, Uploading,
         UploadPC
<1>2. CASE SceneStep(q)
  BY <1>1, <1>2, SceneStepFits
<1>3. CASE UploadStep(q)
  BY <1>1, <1>3, UploadStepFits
<1>4. CASE DeleteStorage(q)
  BY <1>0, <1>4 DEF DeleteStorage, CatalogStart
<1>5. ASSUME CatalogReturn(q)
      PROVE  FALSE
  BY <1>0, <1>5 DEF CatalogReturn
<1>6. CASE StorageObjects(q) \/ StorageScenes(q)
  <2>1. catalog[q] \in StorageDeleting
    BY <1>0, <1>6, CatalogVariants DEF StorageObjects, StorageScenes, At
  <2>2. \E pc \in {"storageScenes", "storageDelete"} : CatalogGoto(q, pc)
    BY <1>5, <1>6 DEF StorageObjects, StorageScenes
  <2> QED BY <1>0, <2>1, <2>2 DEF CatalogGoto, StorageDeleting
<1>7. CASE StorageWrite(q) \/ StorageDelete(q)
  BY <1>5, <1>7 DEF StorageWrite, StorageDelete
<1> QED BY <1>2, <1>3, <1>4, <1>6, <1>7 DEF StorageStep

\* Only the write of a default makes one, and it unsets those it has seen.
LEMMA DefaultsMove ==
  ASSUME CatalogFits, CatalogNext
  PROVE  \/ Defaults' \subseteq Defaults
         \/ \E q \in CatalogRequest :
              /\ catalog[q].pc = "storageWrite" /\ catalog[q].default
              /\ catalog'[q] = CatalogIdle
              /\ Defaults' \subseteq
                   (Defaults \ catalog[q].seen) \cup {catalog[q].code}
<1>0. TablesTyped
  BY DEF CatalogFits, CatalogTyped, TablesTyped
<1>1. CASE UNCHANGED storages
  BY <1>1 DEF Defaults
<1>2. ASSUME NEW q \in CatalogRequest, StorageDelete(q)
      PROVE  Defaults' \subseteq Defaults
  BY <1>0, <1>2 DEF StorageDelete, Defaults, TablesTyped
<1>3. ASSUME NEW q \in CatalogRequest, StorageWrite(q)
      PROVE  \/ Defaults' \subseteq Defaults
             \/ /\ catalog[q].pc = "storageWrite" /\ catalog[q].default
                /\ Defaults' \subseteq
                     (Defaults \ catalog[q].seen) \cup {catalog[q].code}
  <2> DEFINE h == catalog[q]
             unset == [c \in StorageCode |->
                         IF c \in h.seen /\ storages[c] # NoRow
                         THEN [storages[c] EXCEPT !.default = FALSE]
                         ELSE storages[c]]
             D == {c \in StorageCode : unset[c] # NoRow /\ unset[c].default}
  <2>1. h \in StorageWriting /\ h.pc = "storageWrite"
    BY <1>3, CatalogVariants DEF CatalogFits, CatalogTyped, StorageWrite, At
  <2>2. D \subseteq Defaults \ h.seen
    <3>1. ASSUME NEW c \in D
          PROVE  c \in Defaults \ h.seen
      <4>1. CASE c \in h.seen /\ storages[c] # NoRow
        <5>1. storages[c] \in Storage
          BY <1>0, <4>1 DEF TablesTyped
        <5> QED BY <4>1, <5>1 DEF Storage
      <4>2. CASE ~(c \in h.seen /\ storages[c] # NoRow)
        BY <4>2 DEF Defaults
      <4> QED BY <4>1, <4>2
    <3> QED BY <3>1
  <2>3. unset \in [StorageCode -> {unset[c] : c \in StorageCode}]
    OBVIOUS
  <2>4. CASE UNCHANGED storages
    BY <2>4 DEF Defaults
  <2>5. CASE \E n \in Nat : storages' = [unset EXCEPT ![h.code] =
               [row |-> n, enabled |-> h.enabled, default |-> h.default]]
    <3>1. PICK n \in Nat : storages' = [unset EXCEPT ![h.code] =
               [row |-> n, enabled |-> h.enabled, default |-> h.default]]
      BY <2>5
    <3> HIDE DEF unset
    <3>2. /\ \A c \in StorageCode \ {h.code} : storages'[c] = unset[c]
          /\ storages'[h.code].default = h.default
      BY <2>1, <2>3, <3>1 DEF StorageWriting
    <3>3. /\ Defaults' \subseteq D \cup {h.code}
          /\ ~h.default => Defaults' \subseteq D
      BY <3>2 DEF Defaults
    <3> QED BY <2>1, <2>2, <3>3 DEF StorageWriting
  <2>6. CASE \E n \in Nat : storages' = [unset EXCEPT
               ![h.from] = NoRow,
               ![h.code] =
                 [row |-> n, enabled |-> h.enabled, default |-> h.default]]
    <3>1. PICK n \in Nat : storages' = [unset EXCEPT
               ![h.from] = NoRow,
               ![h.code] =
                 [row |-> n, enabled |-> h.enabled, default |-> h.default]]
      BY <2>6
    <3> HIDE DEF unset
    <3>2. /\ \A c \in StorageCode \ {h.code} :
               storages'[c] \in {NoRow, unset[c]}
          /\ storages'[h.code].default = h.default
      BY <2>1, <2>3, <3>1 DEF StorageWriting
    <3>3. /\ Defaults' \subseteq D \cup {h.code}
          /\ ~h.default => Defaults' \subseteq D
      BY <3>2 DEF Defaults
    <3> QED BY <2>1, <2>2, <3>3 DEF StorageWriting
  <2> QED
    <3>1. rows + 1 \in Nat
      BY <1>0, CatalogAssumption DEF TablesTyped
    <3>2. h.from # NoCode /\ storages[h.from] # NoRow =>
            storages[h.from].row \in Nat
      BY <1>0, <2>1, CatalogAssumption
         DEF TablesTyped, StorageWriting, Storage
    <3> QED BY <1>3, <2>4, <2>5, <2>6, <3>1, <3>2 DEF StorageWrite
<1>4. ASSUME NEW q \in CatalogRequest, SceneStep(q) \/ UploadStep(q)
      PROVE  UNCHANGED storages
  BY <1>4 DEF SceneStep, UploadStep, CreateScene, UpdateScene, SceneStorage,
     SceneWrite, DeleteScene, SceneRefs, SceneDelete, Upload, UploadBackend,
     UploadObject, UploadRef, CatalogTables
<1>5. ASSUME NEW q \in CatalogRequest,
             \/ CreateStorage(q) \/ UpdateStorage(q) \/ StorageUnset(q)
             \/ DeleteStorage(q) \/ StorageObjects(q) \/ StorageScenes(q)
      PROVE  UNCHANGED storages
  BY <1>5 DEF CreateStorage, UpdateStorage, StorageUnset, DeleteStorage,
     StorageObjects, StorageScenes, CatalogTables
<1>6. ASSUME NEW f \in File, ReleaseRef(f) \/ Reclaim(f)
      PROVE  UNCHANGED storages
  BY <1>6 DEF ReleaseRef, Reclaim
<1>7. \A q \in CatalogRequest : StorageWrite(q) => catalog'[q] = CatalogIdle
  BY DEF StorageWrite, CatalogReturn, CatalogFits, CatalogTyped
<1> QED
  BY <1>1, <1>2, <1>3, <1>4, <1>5, <1>6, <1>7 DEF CatalogNext, StorageStep

\* Every step keeps the default single.
LEMMA SingleDefaultStep ==
  ASSUME CatalogFits, SingleDefault, CatalogNext
  PROVE  SingleDefault'
<1>1. SUFFICES ASSUME ~crossed'
               PROVE  SingleDefault'
  BY DEF SingleDefault
<1>2. ~crossed /\ ~Crossing'
  BY <1>1 DEF CatalogNext
<1>3. /\ ~Crossing
      /\ \A c, d \in Defaults : c = d
      /\ \A q \in CatalogRequest :
           catalog[q].pc = "storageWrite" /\ catalog[q].default =>
             Defaults \subseteq catalog[q].seen
  BY <1>2 DEF SingleDefault
<1>4. \A c, d \in Defaults' : c = d
  BY <1>3, DefaultsMove
<1>5. ASSUME NEW p \in CatalogRequest,
             catalog'[p].pc = "storageWrite", catalog'[p].default
      PROVE  Defaults' \subseteq catalog'[p].seen
  <2>1. CASE catalog'[p] = catalog[p]
    <3>1. CatalogIdle.pc = "idle"
      BY DEF CatalogIdle
    <3>2. \A q \in CatalogRequest :
            catalog[q].pc = "storageWrite" /\ catalog[q].default => q = p
      BY <1>3, <1>5, <2>1 DEF Crossing, At
    <3>3. Defaults' \subseteq Defaults
      BY <1>5, <3>1, <3>2, DefaultsMove
    <3> QED BY <1>3, <1>5, <2>1, <3>3
  <2>2. CASE catalog'[p] # catalog[p]
    <3>1. CreateStorage(p) \/ UpdateStorage(p) \/ StorageUnset(p)
      BY <1>5, <2>2, OneHandlerMoves, WritersHaveUnset
    <3>2. ~CreateStorage(p) /\ ~UpdateStorage(p)
      <4>1. ASSUME CreateStorage(p)
            PROVE  catalog'[p].pc = "storageUnset"
        BY <4>1 DEF CreateStorage, CatalogStart, CatalogFits, CatalogTyped
      <4>2. ASSUME UpdateStorage(p)
            PROVE  catalog'[p].pc = "storageUnset"
        BY <4>2 DEF UpdateStorage, CatalogStart, CatalogFits, CatalogTyped
      <4> QED BY <1>5, <4>1, <4>2
    <3>3. StorageUnset(p) /\ catalog[p] \in StorageWriting
      BY <3>1, <3>2, CatalogVariants
         DEF StorageUnset, At, CatalogFits, CatalogTyped
    <3>4. /\ catalog'[p].default = catalog[p].default
          /\ catalog'[p].seen = Unset(p)
      BY <3>3 DEF StorageUnset, StorageWriting, CatalogFits, CatalogTyped
    <3>5. Defaults' = Defaults
      BY <3>3 DEF StorageUnset, CatalogTables, Defaults
    <3> QED BY <1>5, <3>4, <3>5 DEF Unset
  <2> QED BY <2>1, <2>2
<1> QED BY <1>2, <1>4, <1>5 DEF SingleDefault

\* Every step keeps what is going to be written as it was asked.
LEMMA AskedStep ==
  ASSUME CatalogFits, UpdatesAsAsked, CatalogNext
  PROVE  UpdatesAsAsked'
<1>0. /\ TablesTyped
      /\ catalog \in [CatalogRequest -> {CatalogIdle} \cup CatalogHandler]
  BY DEF CatalogFits, CatalogTyped, TablesTyped
<1>1. ASSUME NEW p \in CatalogRequest
      PROVE  Asked(catalog[p])'
  <2>1. CASE catalog'[p] = catalog[p]
    BY <2>1 DEF UpdatesAsAsked, Asked
  <2>2. CASE CreateStorage(p)
    <3>1. catalog'[p].from = NoCode
      BY <1>0, <2>2 DEF CreateStorage, CatalogStart
    <3> QED BY <3>1 DEF Asked
  <2>3. CASE UpdateStorage(p)
    <3>1. PICK c \in StorageCode, e \in StorageCode,
               on \in plot.flags \cup {Keep},
               default \in plot.flags \cup {Keep} :
            /\ storages[c] # NoRow
            /\ CatalogStart(p,
                 [pc |-> "storageUnset", from |-> c, code |-> e,
                  enabled |-> Or(on, storages[c].enabled),
                  default |-> Or(default, storages[c].default),
                  given |-> <<on, default>>, old |-> storages[c],
                  seen |-> {}])
      BY <2>3 DEF UpdateStorage, StorageParamForUpdate
    <3>2. catalog'[p] =
                 [pc |-> "storageUnset", from |-> c, code |-> e,
                  enabled |-> Or(on, storages[c].enabled),
                  default |-> Or(default, storages[c].default),
                  given |-> <<on, default>>, old |-> storages[c],
                  seen |-> {}]
      BY <1>0, <3>1 DEF CatalogStart
    <3> QED BY <3>1, <3>2 DEF Asked, Or
  <2>4. CASE StorageUnset(p)
    <3>1. catalog[p] \in StorageWriting /\ catalog[p].pc = "storageUnset"
      BY <1>0, <2>4, CatalogVariants DEF StorageUnset, At
    <3>2. /\ catalog'[p].from = catalog[p].from
          /\ catalog'[p].old = catalog[p].old
          /\ catalog'[p].given = catalog[p].given
      BY <1>0, <2>4, <3>1 DEF StorageUnset, StorageWriting
    <3>3. /\ catalog'[p].enabled = catalog[p].enabled
          /\ catalog'[p].default = catalog[p].default
      BY <1>0, <2>4, <3>1 DEF StorageUnset, StorageWriting
    <3>4. Asked(catalog[p])
      BY DEF UpdatesAsAsked
    <3> QED BY <3>1, <3>2, <3>3, <3>4 DEF Asked, Or
  <2> QED BY <2>1, <2>2, <2>3, <2>4, OneHandlerMoves, WritersHaveUnset
          DEF Asked
<1>2. undone' \subseteq outdated'
  <2>1. ASSUME NEW q \in CatalogRequest, StorageWrite(q)
        PROVE  undone' \subseteq outdated'
    <3>1. catalog[q] \in StorageWriting /\ catalog[q].pc = "storageWrite"
      BY <1>0, <2>1, CatalogVariants DEF StorageWrite, At
    <3>2. Asked(catalog[q]) /\ undone \subseteq outdated
      BY DEF UpdatesAsAsked
    <3>3. CASE UNCHANGED <<undone, outdated>>
      BY <3>2, <3>3
    <3>4. CASE /\ catalog[q].from # NoCode
               /\ storages[catalog[q].from] = catalog[q].old
      <4>1. /\ catalog[q].enabled =
                 Or(catalog[q].given[1], storages[catalog[q].from].enabled)
            /\ catalog[q].default =
                 Or(catalog[q].given[2], storages[catalog[q].from].default)
        BY <3>1, <3>2, <3>4 DEF Asked
      <4>2. undone' = undone /\ outdated' = outdated
        BY <2>1, <3>4, <4>1 DEF StorageWrite
      <4> QED BY <3>2, <4>2
    <3>5. CASE /\ catalog[q].from # NoCode
               /\ storages[catalog[q].from] # catalog[q].old
               /\ outdated' = outdated \cup {storages[catalog[q].from].row}
               /\ undone' \in
                    {undone, undone \cup {storages[catalog[q].from].row}}
      BY <3>2, <3>5
    <3> QED BY <2>1, <3>3, <3>4, <3>5 DEF StorageWrite
  <2>2. ASSUME NEW q \in CatalogRequest, SceneStep(q) \/ UploadStep(q)
        PROVE  UNCHANGED <<undone, outdated>>
    BY <2>2 DEF SceneStep, UploadStep, CreateScene, UpdateScene, SceneStorage,
       SceneWrite, DeleteScene, SceneRefs, SceneDelete, Upload, UploadBackend,
       UploadObject, UploadRef, CatalogTables
  <2>3. ASSUME NEW q \in CatalogRequest,
               \/ CreateStorage(q) \/ UpdateStorage(q) \/ StorageUnset(q)
               \/ DeleteStorage(q) \/ StorageObjects(q) \/ StorageScenes(q)
               \/ StorageDelete(q)
        PROVE  UNCHANGED <<undone, outdated>>
    BY <2>3 DEF CreateStorage, UpdateStorage, StorageUnset, DeleteStorage,
       StorageObjects, StorageScenes, StorageDelete, CatalogTables
  <2>4. ASSUME NEW f \in File, ReleaseRef(f) \/ Reclaim(f)
        PROVE  UNCHANGED <<undone, outdated>>
    BY <2>4 DEF ReleaseRef, Reclaim
  <2> QED BY <2>1, <2>2, <2>3, <2>4 DEF CatalogNext, StorageStep, UpdatesAsAsked
<1> QED BY <1>1, <1>2 DEF UpdatesAsAsked

\* The catalogue starts so.
LEMMA CatalogStarts ==
  ASSUME CatalogInit
  PROVE  Standing /\ SingleDefault /\ UpdatesAsAsked
<1>1. \A q \in CatalogRequest : catalog[q] = CatalogIdle
  BY DEF CatalogInit
<1>2. CatalogIdle.pc = "idle"
  BY DEF CatalogIdle
<1>3. Standing
  <2>1. Endangered = {}
    BY <1>1, <1>2 DEF Endangered, Refers
  <2>2. \A f \in File : FileStands(f)
    BY DEF CatalogInit, FileStands
  <2>3. \A s \in SceneCode : SceneRowStands(s)
    BY DEF CatalogInit, SceneRowStands
  <2>4. \A q \in CatalogRequest : HandlerStands(catalog[q])
    BY <1>1, <1>2, QuietStands DEF UploadPC
  <2> QED BY <2>1, <2>2, <2>3, <2>4 DEF Standing
<1>4. SingleDefault
  <2>1. \A c, d \in Defaults : c = d
    BY CatalogInitFits
  <2> QED BY <1>1, <1>2, <2>1 DEF SingleDefault, Crossing, At
<1>5. UpdatesAsAsked
  BY <1>1, <1>2 DEF CatalogInit, UpdatesAsAsked, Asked
<1> QED BY <1>3, <1>4, <1>5

\* What stands, is single and is as asked is what the runs check.
LEMMA CatalogMeans ==
  ASSUME CatalogFits
  PROVE  /\ CatalogTypeOK
         /\ Standing => CodesKeepTheirRow
         /\ SingleDefault => DefaultIsSingle
         /\ UpdatesAsAsked => UndoneOnlyIfOutdated
<1>1. CatalogTypeOK
  BY DEF CatalogFits, CatalogTyped, CatalogTypeOK
<1>2. ASSUME Standing
      PROVE  CodesKeepTheirRow
  BY <1>2 DEF Standing, FileStands, SceneRowStands, StorageStands, SceneStands,
     MayStray, CodesKeepTheirRow
<1>3. ASSUME SingleDefault
      PROVE  DefaultIsSingle
  <2>1. CASE crossed
    BY <2>1 DEF DefaultIsSingle
  <2>2. CASE Defaults = {}
    BY <2>2, FS_EmptySet DEF DefaultIsSingle
  <2>3. CASE ~crossed /\ Defaults # {}
    <3>1. PICK c \in Defaults : TRUE
      BY <2>3
    <3>2. Defaults = {c}
      BY <1>3, <2>3, <3>1 DEF SingleDefault
    <3>3. Cardinality({c}) = 1
      BY FS_Singleton
    <3> QED BY <3>2, <3>3 DEF DefaultIsSingle
  <2> QED BY <2>1, <2>2, <2>3
<1>4. UpdatesAsAsked => UndoneOnlyIfOutdated
  BY DEF UpdatesAsAsked, UndoneOnlyIfOutdated
<1> QED BY <1>1, <1>2, <1>3, <1>4

-----------------------------------------------------------------------------
(* The schedulers.                                                         *)

TasksTyped ==
  /\ redis \in BOOLEAN
  /\ schedulers \subseteq Scheduler /\ runtime \in [Process -> SUBSET Scheduler]
  /\ lastTask \in 0 .. MaxTasks
  /\ lease \in TaskRequest \cup {NoHolder}
  /\ task \in [TaskRequest -> {TaskIdle} \cup TaskHandler]
  /\ changes \in 0 .. MaxChanges
  /\ skipped \subseteq Process /\ overlapped \subseteq Process
  /\ flipped \subseteq TaskId /\ clashed \subseteq TaskId

\* Ids are given once, and only what was there has been toggled.
IdsGiven ==
  /\ \A s \in schedulers : s.id <= lastTask
  /\ \A n \in flipped : n <= lastTask

TogglesFollow == IdsGiven /\ TogglesCount

\* What runs in a process.
In(n) == {q \in TaskRequest : Home[q] = n}

\* A process that is not marked loads once at a time, and under the lease if
\* there is one.
OneReloads(n) ==
  \A q, p \in In(n) : Reloading(q) /\ Reloading(p) => q = p

HoldsLease(n) ==
  \A q \in In(n) : Reloading(q) /\ task[q].leased => lease = q

NoLease == ~redis => \A q \in TaskRequest : Reloading(q) => ~task[q].leased

WillLoad(n) == \E q \in In(n) : task[q].pc = "acquire"

\* A reload puts in place what the table says, or another is still to come.
SeenIsCurrent(n) ==
  \A q \in In(n) :
    task[q].pc = "install" => task[q].seen = schedulers \/ WillLoad(n)

LoadsCurrent(n) ==
  \/ runtime[n] = schedulers
  \/ WillLoad(n)
  \/ \E q \in In(n) : task[q].pc \in {"reload", "install"}

Current(n) == n \in skipped \/ (SeenIsCurrent(n) /\ LoadsCurrent(n))

\* The inductive invariant of RuntimeIsCurrent.
Loading ==
  /\ NoLease
  /\ \A n \in Process :
       n \in overlapped \/ (OneReloads(n) /\ HoldsLease(n) /\ Current(n))

Writing == [pc: {"read", "write"}, do: Write, was: BOOLEAN]
Loader  == [pc: {"reload", "install", "release"}, leased: BOOLEAN,
            seen: SUBSET Scheduler]

\* What a request is, by where it is.
LEMMA TaskVariants ==
  ASSUME NEW h \in {TaskIdle} \cup TaskHandler
  PROVE  /\ h.pc \in {"read", "write"} => h \in Writing
         /\ h.pc \in {"reload", "install", "release"} => h \in Loader
BY DEF TaskHandler, TaskIdle, Writing, Loader

\* Each of these is one.
LEMMA TaskHandlers ==
  Writing \cup [pc: {"acquire"}] \cup Loader \cup {TaskIdle}
  \subseteq {TaskIdle} \cup TaskHandler
BY DEF TaskHandler, Writing, Loader

\* What a request writes, by what it is for.
LEMMA WriteVariants ==
  ASSUME NEW do \in Write
  PROVE  /\ do.op = "create" => do.name \in TaskName
         /\ do.op = "update" => do.id \in TaskId /\ do.name \in TaskName
         /\ do.op \in {"toggle", "delete"} => do.id \in TaskId
BY DEF Write

\* A request moves alone.
LEMMA TaskLanding ==
  ASSUME TasksTyped, NEW q \in TaskRequest,
         NEW h \in {TaskIdle} \cup TaskHandler,
         task' = [task EXCEPT ![q] = h]
  PROVE  /\ task' \in [TaskRequest -> {TaskIdle} \cup TaskHandler]
         /\ task'[q] = h
         /\ \A p \in TaskRequest \ {q} : task'[p] = task[p]
BY DEF TasksTyped

\* A write leaves the table and what has been toggled typed, and follows the
\* toggles.
LEMMA WritesFit ==
  ASSUME TasksTyped, NEW q \in TaskRequest,
         \/ CreateScheduler(q) \/ UpdateScheduler(q)
         \/ ToggleSchedulerStatus(q) \/ DeleteScheduler(q)
  PROVE  /\ schedulers' \subseteq Scheduler /\ lastTask' \in 0 .. MaxTasks
         /\ flipped' \subseteq TaskId /\ clashed' \subseteq TaskId
         /\ TogglesFollow => TogglesFollow'
         /\ \/ /\ UNCHANGED <<schedulers, skipped>>
               /\ task' = [task EXCEPT ![q] = TaskIdle]
            \/ /\ skipped' = skipped \cup (Process \ {Home[q]})
               /\ task' = [task EXCEPT ![q] = [pc |-> "acquire"]]
         /\ UNCHANGED <<redis, runtime, lease, changes, overlapped>>
         /\ task[q].pc = "write"
<1>1. task[q] \in Writing /\ task[q].pc = "write" /\ task[q].do \in Write
  BY TaskVariants
     DEF CreateScheduler, UpdateScheduler, ToggleSchedulerStatus,
         DeleteScheduler, TaskAt, TasksTyped, Writing
<1>2. UNCHANGED <<redis, runtime, lease, changes, overlapped>>
  BY DEF CreateScheduler, UpdateScheduler, ToggleSchedulerStatus,
     DeleteScheduler
<1>3. \/ /\ UNCHANGED <<schedulers, skipped>>
         /\ task' = [task EXCEPT ![q] = TaskIdle]
      \/ /\ skipped' = skipped \cup (Process \ {Home[q]})
         /\ task' = [task EXCEPT ![q] = [pc |-> "acquire"]]
  BY DEF CreateScheduler, UpdateScheduler, ToggleSchedulerStatus,
     DeleteScheduler, TaskReturn, Written, Rows
<1> DEFINE Fits ==
      /\ schedulers' \subseteq Scheduler /\ lastTask' \in 0 .. MaxTasks
      /\ flipped' \subseteq TaskId /\ clashed' \subseteq TaskId
      /\ TogglesFollow => TogglesFollow'
<1>4. ASSUME UNCHANGED <<schedulers, lastTask, flipped, clashed>>
      PROVE  Fits
  BY <1>4 DEF TasksTyped, TogglesFollow, IdsGiven, TogglesCount
<1>5. ASSUME CreateScheduler(q)
      PROVE  Fits
  <2>1. CASE /\ lastTask < MaxTasks /\ lastTask' = lastTask + 1
             /\ schedulers' = schedulers \cup
                  {[id |-> lastTask + 1, name |-> task[q].do.name,
                    enabled |-> TRUE]}
             /\ UNCHANGED <<flipped, clashed>>
    <3>1. lastTask' \in 1 .. MaxTasks /\ lastTask \in Nat
      BY <2>1, TaskAssumption DEF TasksTyped
    <3>2. task[q].do.name \in TaskName
      BY <1>1, <1>5, WriteVariants DEF CreateScheduler
    <3>3. [id |-> lastTask + 1, name |-> task[q].do.name, enabled |-> TRUE]
            \in Scheduler
      BY <2>1, <3>1, <3>2 DEF Scheduler, TaskId
    <3>4. schedulers' \subseteq Scheduler
      BY <2>1, <3>3 DEF TasksTyped
    <3>5. ASSUME TogglesFollow
          PROVE  TogglesFollow'
      <4>1. \A s \in schedulers : s.id \in Nat
        BY TaskAssumption DEF TasksTyped, Scheduler, TaskId
      <4>2. \A n \in flipped : n \in Nat
        BY TaskAssumption DEF TasksTyped, TaskId
      <4>3. IdsGiven'
        BY <2>1, <3>1, <3>5, <4>1, <4>2 DEF TogglesFollow, IdsGiven
      <4>4. lastTask + 1 \notin flipped
        BY <3>1, <3>5, <4>2 DEF TogglesFollow, IdsGiven
      <4>5. TogglesCount'
        BY <2>1, <3>5, <4>4 DEF TogglesFollow, TogglesCount
      <4> QED BY <4>3, <4>5 DEF TogglesFollow
    <3>6. lastTask' \in 0 .. MaxTasks
      BY <3>1, TaskAssumption
    <3>7. flipped' \subseteq TaskId /\ clashed' \subseteq TaskId
      BY <2>1 DEF TasksTyped
    <3> QED BY <3>4, <3>5, <3>6, <3>7
  <2> QED BY <1>4, <1>5, <2>1 DEF CreateScheduler
<1>6. ASSUME UpdateScheduler(q)
      PROVE  Fits
  <2> DEFINE do == task[q].do
             new(s) == IF s.id = do.id THEN Updated(s, do.name) ELSE s
  <2>1. CASE schedulers' = {new(s) : s \in schedulers}
    <3>1. do.name \in TaskName
      BY <1>1, <1>6, WriteVariants DEF UpdateScheduler
    <3>2. \A s \in schedulers : /\ new(s) \in Scheduler /\ new(s).id = s.id
                                /\ new(s).enabled = s.enabled
      BY <3>1 DEF TasksTyped, Scheduler, Updated
    <3>3. UNCHANGED <<lastTask, flipped, clashed>>
      BY <1>6 DEF UpdateScheduler
    <3> HIDE DEF new
    <3>4. TogglesFollow => TogglesFollow'
      BY <2>1, <3>2, <3>3 DEF TogglesFollow, IdsGiven, TogglesCount
    <3> QED BY <2>1, <3>2, <3>3, <3>4 DEF TasksTyped
  <2>2. UNCHANGED <<lastTask, flipped, clashed>>
    BY <1>6 DEF UpdateScheduler
  <2> QED BY <1>4, <1>6, <2>1, <2>2 DEF UpdateScheduler
<1>7. ASSUME ToggleSchedulerStatus(q)
      PROVE  Fits
  <2> DEFINE id == task[q].do.id
             was == task[q].was
             new(s) == IF s.id = id THEN [s EXCEPT !.enabled = ~was] ELSE s
  <2>1. CASE /\ Rows(id) # {}
             /\ schedulers' = {new(s) : s \in schedulers}
             /\ flipped' = IF id \in flipped THEN flipped \ {id}
                           ELSE flipped \cup {id}
             /\ clashed' = IF \E s \in Rows(id) : s.enabled # was
                           THEN clashed \cup {id} ELSE clashed
    <3>1. id \in TaskId /\ was \in BOOLEAN
      BY <1>1, <1>7, WriteVariants DEF ToggleSchedulerStatus, Writing
    <3>2. \A s \in schedulers : /\ new(s) \in Scheduler /\ new(s).id = s.id
                                /\ s.id # id => new(s) = s
                                /\ s.id = id => new(s).enabled = ~was
      BY <3>1 DEF TasksTyped, Scheduler
    <3>3. UNCHANGED lastTask
      BY <1>7 DEF ToggleSchedulerStatus
    <3>4. flipped' \subseteq TaskId /\ clashed' \subseteq TaskId
      BY <2>1, <3>1 DEF TasksTyped
    <3> HIDE DEF new
    <3>5. ASSUME TogglesFollow
          PROVE  TogglesFollow'
      <4>1. IdsGiven'
        BY <2>1, <3>2, <3>3, <3>5 DEF TogglesFollow, IdsGiven, Rows
      <4>2. ASSUME NEW s \in schedulers
            PROVE  \/ s.id \in clashed'
                   \/ new(s).enabled <=> s.id \notin flipped'
        <5>1. s.enabled \in BOOLEAN
          BY DEF TasksTyped, Scheduler
        <5>2. s.id \in clashed \/ (s.enabled <=> s.id \notin flipped)
          BY <3>5 DEF TogglesFollow, TogglesCount
        <5>3. CASE s.id # id
          BY <2>1, <3>2, <5>2, <5>3
        <5>4. CASE s.id = id
          <6>1. CASE s.enabled # was
            BY <2>1, <5>4, <6>1 DEF Rows
          <6>2. CASE s.enabled = was
            <7>1. new(s).enabled <=> ~s.enabled
              BY <3>2, <5>4, <6>2
            <7>2. s.id \in flipped' <=> s.id \notin flipped
              BY <2>1, <5>4
            <7>3. clashed \subseteq clashed'
              BY <2>1
            <7> QED BY <5>2, <7>1, <7>2, <7>3
          <6> QED BY <6>1, <6>2
        <5> QED BY <5>3, <5>4
      <4>3. TogglesCount'
        BY <2>1, <3>2, <4>2 DEF TogglesCount
      <4> QED BY <4>1, <4>3 DEF TogglesFollow
    <3> QED BY <2>1, <3>2, <3>3, <3>4, <3>5 DEF TasksTyped
  <2>2. UNCHANGED lastTask
    BY <1>7 DEF ToggleSchedulerStatus
  <2> QED BY <1>4, <1>7, <2>1, <2>2 DEF ToggleSchedulerStatus
<1>8. ASSUME DeleteScheduler(q)
      PROVE  Fits
  BY <1>8 DEF DeleteScheduler, TasksTyped, TogglesFollow, IdsGiven,
     TogglesCount
<1> QED
  BY <1>1, <1>2, <1>3, <1>5, <1>6, <1>7, <1>8

\* Where a request goes, and what that does to the runtimes, the lease and the
\* histories: it starts, writes, tries the lease, or reloads.
Starts(q) ==
  /\ task[q] = TaskIdle /\ task'[q].pc \in {"read", "write"}
  /\ UNCHANGED <<redis, runtime, lease, schedulers, skipped, overlapped>>
Writes(q) ==
  /\ task[q].pc \in {"read", "write"}
  /\ \/ UNCHANGED <<schedulers, skipped>> /\ task'[q].pc \in {"idle", "write"}
     \/ /\ skipped' = skipped \cup (Process \ {Home[q]})
        /\ task'[q].pc = "acquire"
  /\ UNCHANGED <<redis, runtime, lease, overlapped>>
Loads(q) ==
  \/ NotAcquired(q) \/ Acquire(q) \/ ReloadCommand(q) \/ ReloadReads(q)
  \/ ReloadInstalls(q) \/ ReloadFails(q) \/ Release(q)

\* Every step is one of these, and keeps the tables typed.
LEMMA TaskStepFits ==
  ASSUME TasksTyped, NEW q \in TaskRequest, TaskStep(q)
  PROVE  /\ TasksTyped'
         /\ TogglesFollow => TogglesFollow'
         /\ Starts(q) \/ Writes(q) \/ Loads(q)
         /\ \A p \in TaskRequest \ {q} : task'[p] = task[p]
<1> DEFINE Keep4 == UNCHANGED <<schedulers, lastTask, flipped, clashed>>
           Fits == TasksTyped' /\ (TogglesFollow => TogglesFollow')
           Moves(h) == /\ task'[q] = h
                       /\ \A p \in TaskRequest \ {q} : task'[p] = task[p]
<1>0. task \in [TaskRequest -> {TaskIdle} \cup TaskHandler]
  BY DEF TasksTyped
<1>h. \A p \in TaskRequest : Home[p] \in Process
  BY TaskAssumption
<1>1. ASSUME Keep4, UNCHANGED redis, runtime' \in [Process -> SUBSET Scheduler],
             lease' \in TaskRequest \cup {NoHolder},
             changes' \in 0 .. MaxChanges, skipped' \subseteq Process,
             overlapped' \subseteq Process,
             NEW h \in {TaskIdle} \cup TaskHandler,
             task' = [task EXCEPT ![q] = h]
      PROVE  Fits /\ Moves(h)
  <2>1. TogglesFollow => TogglesFollow'
    BY <1>1 DEF TogglesFollow, IdsGiven, TogglesCount
  <2> QED BY <1>1, <2>1, TaskLanding DEF TasksTyped
<1>2. ASSUME NEW h \in {TaskIdle} \cup TaskHandler, TaskStart(q, h),
             overlapped' \subseteq Process
      PROVE  Fits /\ Moves(h)
  <2>1. changes' \in 0 .. MaxChanges
    BY <1>2, TaskAssumption DEF TaskStart, TasksTyped
  <2> QED BY <1>1, <1>2, <2>1 DEF TaskStart, TaskGo, TasksTyped
<1>3. CASE BeginCreateScheduler(q)
  <2>1. PICK name \in TaskName :
          TaskStart(q, [pc |-> "write", was |-> FALSE,
                        do |-> [op |-> "create", name |-> name]])
    BY <1>3 DEF BeginCreateScheduler
  <2>2. [pc |-> "write", was |-> FALSE,
         do |-> [op |-> "create", name |-> name]] \in Writing
    BY DEF Writing, Write
  <2>3. UNCHANGED overlapped
    BY <1>3 DEF BeginCreateScheduler
  <2>4. Fits /\ Moves([pc |-> "write", was |-> FALSE,
                       do |-> [op |-> "create", name |-> name]])
    BY <1>2, <2>1, <2>2, <2>3, TaskHandlers DEF TasksTyped
  <2> QED BY <2>1, <2>3, <2>4 DEF Starts, TaskStart
<1>4. CASE BeginWrite(q)
  <2>1. UNCHANGED overlapped
    BY <1>4 DEF BeginWrite
  <2>2. \E h \in Writing : TaskStart(q, h)
    <3>1. PICK s \in schedulers :
            \/ \E name \in TaskName :
                 TaskStart(q, [pc |-> "write", was |-> FALSE,
                   do |-> [op |-> "update", id |-> s.id, name |-> name]])
            \/ TaskStart(q, [pc |-> "read", was |-> FALSE,
                             do |-> [op |-> "toggle", id |-> s.id]])
            \/ TaskStart(q, [pc |-> "write", was |-> FALSE,
                             do |-> [op |-> "delete", id |-> s.id]])
      BY <1>4 DEF BeginWrite
    <3>2. s.id \in TaskId
      BY DEF TasksTyped, Scheduler
    <3>3. \A name \in TaskName :
            [pc |-> "write", was |-> FALSE,
             do |-> [op |-> "update", id |-> s.id, name |-> name]] \in Writing
      BY <3>2 DEF Writing, Write
    <3>4. /\ [pc |-> "read", was |-> FALSE,
              do |-> [op |-> "toggle", id |-> s.id]] \in Writing
          /\ [pc |-> "write", was |-> FALSE,
              do |-> [op |-> "delete", id |-> s.id]] \in Writing
      BY <3>2 DEF Writing, Write
    <3> QED BY <3>1, <3>3, <3>4
  <2>3. PICK h \in Writing : TaskStart(q, h)
    BY <2>2
  <2>4. Fits /\ Moves(h)
    BY <1>2, <2>1, <2>3, TaskHandlers DEF TasksTyped
  <2> QED BY <2>1, <2>3, <2>4 DEF Starts, TaskStart, Writing
<1>5. CASE ReadEnabled(q)
  <2>1. task[q] \in Writing /\ task[q].pc = "read"
    BY <1>0, <1>5, TaskVariants DEF ReadEnabled, TaskAt
  <2>2. UNCHANGED <<redis, schedulers, lastTask, runtime, lease, changes,
                    skipped, overlapped, flipped, clashed>>
    BY <1>5 DEF ReadEnabled
  <2>3. \E h \in Writing \cup {TaskIdle} :
          h.pc \in {"idle", "write"} /\ task' = [task EXCEPT ![q] = h]
    <3>1. CASE TaskReturn(q)
      BY <3>1 DEF TaskReturn, TaskIdle
    <3>2. CASE \E s \in schedulers : task' =
                 [task EXCEPT ![q].pc = "write", ![q].was = s.enabled]
      <4>1. PICK s \in schedulers : task' =
                 [task EXCEPT ![q].pc = "write", ![q].was = s.enabled]
        BY <3>2
      <4>2. s.enabled \in BOOLEAN
        BY DEF TasksTyped, Scheduler
      <4> DEFINE h == [task[q] EXCEPT !.pc = "write", !.was = s.enabled]
      <4>3. task' = [task EXCEPT ![q] = h]
        BY <1>0, <4>1
      <4>4. h \in Writing /\ h.pc = "write"
        BY <2>1, <4>2 DEF Writing
      <4> QED BY <4>3, <4>4
    <3> QED BY <1>5, <3>1, <3>2 DEF ReadEnabled, Rows
  <2>4. PICK h \in Writing \cup {TaskIdle} :
          h.pc \in {"idle", "write"} /\ task' = [task EXCEPT ![q] = h]
    BY <2>3
  <2>5. Fits /\ Moves(h)
    BY <1>1, <2>2, <2>4, TaskHandlers DEF TasksTyped
  <2> QED BY <2>1, <2>2, <2>4, <2>5 DEF Writes
<1>6. CASE \/ CreateScheduler(q) \/ UpdateScheduler(q)
           \/ ToggleSchedulerStatus(q) \/ DeleteScheduler(q)
  <2>1. /\ schedulers' \subseteq Scheduler /\ lastTask' \in 0 .. MaxTasks
        /\ flipped' \subseteq TaskId /\ clashed' \subseteq TaskId
        /\ TogglesFollow => TogglesFollow'
        /\ UNCHANGED <<redis, runtime, lease, changes, overlapped>>
        /\ task[q].pc = "write"
    BY <1>6, WritesFit
  <2>2. \E h \in [pc: {"acquire"}] \cup {TaskIdle} :
          /\ task' = [task EXCEPT ![q] = h]
          /\ \/ /\ h.pc = "acquire"
                /\ skipped' = skipped \cup (Process \ {Home[q]})
             \/ UNCHANGED <<schedulers, skipped>> /\ h.pc = "idle"
    <3>1. [pc |-> "acquire"] \in [pc: {"acquire"}] /\ TaskIdle.pc = "idle"
      BY DEF TaskIdle
    <3> QED BY <1>6, <3>1, WritesFit
  <2>3. PICK h \in [pc: {"acquire"}] \cup {TaskIdle} :
          /\ task' = [task EXCEPT ![q] = h]
          /\ \/ /\ h.pc = "acquire"
                /\ skipped' = skipped \cup (Process \ {Home[q]})
             \/ UNCHANGED <<schedulers, skipped>> /\ h.pc = "idle"
    BY <2>2
  <2>4. /\ task' \in [TaskRequest -> {TaskIdle} \cup TaskHandler]
        /\ Moves(h)
    BY <2>3, TaskLanding, TaskHandlers
  <2>5. skipped' \subseteq Process
    BY <2>3 DEF TasksTyped
  <2>6. TasksTyped'
    BY <2>1, <2>4, <2>5 DEF TasksTyped
  <2>7. Writes(q)
    BY <2>1, <2>3, <2>4 DEF Writes
  <2> QED BY <2>1, <2>4, <2>6, <2>7
<1>7. CASE NotAcquired(q)
  <2>1. skipped' \subseteq Process
    BY <1>h, <1>7 DEF NotAcquired, TasksTyped
  <2>2. Fits /\ Moves(TaskIdle)
    BY <1>1, <1>7, <2>1 DEF NotAcquired, TaskReturn, TasksTyped
  <2> QED BY <1>7, <2>2 DEF Loads
<1>8. CASE Acquire(q)
  <2>1. [pc |-> "reload", leased |-> redis, seen |-> {}] \in Loader
    BY DEF Loader, TasksTyped
  <2>2. overlapped' \subseteq Process
    BY <1>h, <1>8 DEF Acquire, TasksTyped
  <2>3. Fits /\ Moves([pc |-> "reload", leased |-> redis, seen |-> {}])
    BY <1>1, <1>8, <2>1, <2>2, TaskHandlers DEF Acquire, TaskGo, TasksTyped
  <2> QED BY <1>8, <2>3 DEF Loads
<1>9. CASE ReloadCommand(q)
  <2>1. [pc |-> "reload", leased |-> FALSE, seen |-> {}] \in Loader
    BY DEF Loader
  <2>2. overlapped' \subseteq Process
    BY <1>h, <1>9 DEF ReloadCommand, TasksTyped
  <2>3. Fits /\ Moves([pc |-> "reload", leased |-> FALSE, seen |-> {}])
    BY <1>2, <1>9, <2>1, <2>2, TaskHandlers DEF ReloadCommand
  <2> QED BY <1>9, <2>3 DEF Loads
<1>10. CASE ReloadReads(q)
  <2>1. task[q] \in Loader
    BY <1>0, <1>10, TaskVariants DEF ReloadReads, TaskAt
  <2> DEFINE h == [task[q] EXCEPT !.pc = "install", !.seen = schedulers]
  <2>2. h \in Loader
    BY <2>1 DEF Loader, TasksTyped
  <2>3. task' = [task EXCEPT ![q] = h]
    BY <1>0, <1>10 DEF ReloadReads
  <2>4. overlapped' \subseteq Process /\ skipped' \subseteq Process
    BY <1>10 DEF ReloadReads, TasksTyped
  <2> HIDE DEF h
  <2>5. Fits /\ Moves(h)
    BY <1>1, <1>10, <2>2, <2>3, <2>4, TaskHandlers DEF ReloadReads, TasksTyped
  <2> QED BY <1>10, <2>5 DEF Loads
<1>11. CASE ReloadInstalls(q) \/ ReloadFails(q)
  <2>1. task[q] \in Loader
    BY <1>0, <1>11, TaskVariants DEF ReloadInstalls, ReloadFails, TaskAt
  <2>2. [task[q] EXCEPT !.pc = "release"] \in Loader
    BY <2>1 DEF Loader
  <2>3. \E h \in {TaskIdle} \cup Loader : task' = [task EXCEPT ![q] = h]
    BY <1>11, <2>2 DEF ReloadInstalls, ReloadFails, TaskReturn
  <2>4. PICK h \in {TaskIdle} \cup Loader : task' = [task EXCEPT ![q] = h]
    BY <2>3
  <2>5. /\ runtime' \in [Process -> SUBSET Scheduler]
        /\ skipped' \subseteq Process
    <3>1. CASE ReloadInstalls(q)
      BY <2>1, <3>1 DEF ReloadInstalls, Loader, TasksTyped
    <3>2. CASE ReloadFails(q)
      BY <1>h, <3>2 DEF ReloadFails, TasksTyped
    <3> QED BY <1>11, <3>1, <3>2
  <2>6. Fits /\ Moves(h)
    BY <1>1, <1>11, <2>4, <2>5, TaskHandlers
       DEF ReloadInstalls, ReloadFails, TasksTyped
  <2> QED BY <1>11, <2>6 DEF Loads
<1>12. CASE Release(q)
  <2>1. overlapped' \subseteq Process
    BY <1>h, <1>12 DEF Release, TasksTyped
  <2>2. Fits /\ Moves(TaskIdle)
    BY <1>1, <1>12, <2>1 DEF Release, TaskReturn, TasksTyped
  <2> QED BY <1>12, <2>2 DEF Loads
<1> QED BY <1>3, <1>4, <1>5, <1>6, <1>7, <1>8, <1>9, <1>10, <1>11, <1>12
        DEF TaskStep

\* A step of another process leaves a process as it was, and marks it if it
\* writes the table or takes its lease away.
LEMMA OtherLoading ==
  ASSUME TasksTyped, Loading, NEW q \in TaskRequest, TaskStep(q),
         NEW n \in Process, Home[q] # n, n \notin overlapped'
  PROVE  OneReloads(n)' /\ HoldsLease(n)' /\ Current(n)'
<1>0. /\ \A p \in In(n) : p \in TaskRequest \ {q} /\ task'[p] = task[p]
      /\ In(n)' = In(n)
  BY TaskStepFits DEF In
<1>1. /\ n \notin overlapped /\ runtime'[n] = runtime[n]
      /\ n \in skipped => n \in skipped'
      /\ UNCHANGED schedulers \/ n \in skipped'
  <2>1. CASE Starts(q)
    BY <2>1 DEF Starts
  <2>2. CASE Writes(q)
    BY <2>2 DEF Writes
  <2>3. CASE Loads(q)
    BY <2>3 DEF Loads, NotAcquired, Acquire, ReloadCommand, TaskStart,
       ReloadReads, ReloadInstalls, ReloadFails, Release, TasksTyped
  <2> QED BY <2>1, <2>2, <2>3, TaskStepFits
<1>2. OneReloads(n) /\ HoldsLease(n) /\ Current(n)
  BY <1>1 DEF Loading
<1>3. OneReloads(n)'
  BY <1>0, <1>2 DEF OneReloads, Reloading
<1>4. HoldsLease(n)'
  <2> SUFFICES ASSUME NEW p \in In(n), Reloading(p)', task'[p].leased
               PROVE  lease' = p
    BY <1>0 DEF HoldsLease
  <2>1. lease = p /\ p # NoHolder /\ Home[p] = n /\ p # q
    BY <1>0, <1>2, TaskAssumption DEF HoldsLease, Reloading, In
  <2>2. CASE Starts(q) \/ Writes(q)
    BY <2>1, <2>2 DEF Starts, Writes
  <2>3. CASE Acquire(q)
    BY <2>1, <2>3 DEF Acquire, Acquirable
  <2>4. CASE Release(q)
    BY <2>1, <2>4 DEF Release
  <2>5. CASE NotAcquired(q) \/ ReloadCommand(q) \/ ReloadReads(q)
               \/ ReloadInstalls(q) \/ ReloadFails(q)
    BY <2>1, <2>5 DEF NotAcquired, ReloadCommand, TaskStart, ReloadReads,
       ReloadInstalls, ReloadFails
  <2> QED BY <2>2, <2>3, <2>4, <2>5, TaskStepFits DEF Loads
<1>5. WillLoad(n)' <=> WillLoad(n)
  BY <1>0 DEF WillLoad
<1>6. Current(n)'
  BY <1>0, <1>1, <1>2, <1>5 DEF Current, SeenIsCurrent, LoadsCurrent
<1> QED BY <1>3, <1>4, <1>6

\* A step of the process itself keeps its runtime loaded from the table, or a
\* load to come.
LEMMA OwnLoading ==
  ASSUME TasksTyped, Loading, NEW q \in TaskRequest, TaskStep(q),
         NEW n \in Process, Home[q] = n, n \notin overlapped'
  PROVE  OneReloads(n)' /\ HoldsLease(n)' /\ Current(n)'
<1>0. /\ task \in [TaskRequest -> {TaskIdle} \cup TaskHandler]
      /\ TaskIdle.pc = "idle" /\ NoHolder \notin TaskRequest
      /\ q \in In(n) /\ Near(q) = In(n) \ {q} /\ In(n)' = In(n)
      /\ In(n) \subseteq TaskRequest
  BY TaskAssumption DEF TasksTyped, TaskIdle, In, Near
<1>1. \A p \in In(n) \ {q} : task'[p] = task[p]
  BY <1>0, TaskStepFits
<1>2. n \notin overlapped => OneReloads(n) /\ HoldsLease(n) /\ Current(n)
  BY DEF Loading
<1>3. CASE Starts(q)
  <2>1. /\ n \notin overlapped /\ task[q].pc = "idle"
        /\ task'[q].pc \in {"read", "write"}
        /\ UNCHANGED <<runtime, lease, schedulers, skipped>>
    BY <1>0, <1>3 DEF Starts
  <2>2. OneReloads(n)' /\ HoldsLease(n)'
    BY <1>0, <1>1, <1>2, <2>1 DEF OneReloads, HoldsLease, Reloading
  <2>3. WillLoad(n) => WillLoad(n)'
    BY <1>0, <1>1, <2>1 DEF WillLoad
  <2>4. SeenIsCurrent(n) => SeenIsCurrent(n)'
    BY <1>0, <1>1, <2>1, <2>3 DEF SeenIsCurrent
  <2>5. LoadsCurrent(n) => LoadsCurrent(n)'
    BY <1>0, <1>1, <2>1, <2>3 DEF LoadsCurrent
  <2> QED BY <1>2, <2>1, <2>2, <2>4, <2>5 DEF Current
<1>4. CASE Writes(q)
  <2>1. /\ n \notin overlapped /\ task[q].pc \in {"read", "write"}
        /\ task'[q].pc \in {"idle", "write", "acquire"}
        /\ UNCHANGED <<runtime, lease>> /\ (n \in skipped => n \in skipped')
        /\ UNCHANGED <<schedulers, skipped>> \/ task'[q].pc = "acquire"
    BY <1>4 DEF Writes
  <2>2. OneReloads(n)' /\ HoldsLease(n)'
    BY <1>0, <1>1, <1>2, <2>1 DEF OneReloads, HoldsLease, Reloading
  <2>3. WillLoad(n) => WillLoad(n)'
    BY <1>0, <1>1, <2>1 DEF WillLoad
  <2>4. CASE task'[q].pc = "acquire"
    <3>1. WillLoad(n)'
      BY <1>0, <2>4 DEF WillLoad
    <3> QED BY <2>2, <3>1 DEF Current, SeenIsCurrent, LoadsCurrent
  <2>5. CASE UNCHANGED <<schedulers, skipped>>
    <3>1. SeenIsCurrent(n) => SeenIsCurrent(n)'
      BY <1>0, <1>1, <2>1, <2>3, <2>5 DEF SeenIsCurrent
    <3>2. LoadsCurrent(n) => LoadsCurrent(n)'
      BY <1>0, <1>1, <2>1, <2>3, <2>5 DEF LoadsCurrent
    <3> QED BY <1>2, <2>1, <2>2, <2>5, <3>1, <3>2 DEF Current
  <2> QED BY <2>1, <2>4, <2>5
<1>5. CASE NotAcquired(q)
  <2>1. /\ n \notin overlapped /\ task'[q].pc = "idle" /\ n \in skipped'
        /\ UNCHANGED lease
    BY <1>0, <1>5 DEF NotAcquired, TaskReturn
  <2>2. OneReloads(n)' /\ HoldsLease(n)'
    BY <1>0, <1>1, <1>2, <2>1 DEF OneReloads, HoldsLease, Reloading
  <2> QED BY <2>1, <2>2 DEF Current
<1>6. CASE Acquire(q)
  <2>1. /\ n \notin overlapped
        /\ task[q].pc = "acquire" /\ task'[q].pc = "reload"
        /\ task'[q].leased = redis /\ (redis => lease = NoHolder /\ lease' = q)
        /\ \A p \in In(n) : Reloading(p) => task[p].leased
        /\ UNCHANGED <<schedulers, runtime, skipped>>
    <3>1. task[q].pc = "acquire" /\ ~Reloading(q)
      BY <1>6 DEF Acquire, TaskAt, Reloading
    <3>2. \A p \in Near(q) : Reloading(p) => task[p].leased
      BY <1>6 DEF Acquire
    <3>3. n \notin overlapped /\ UNCHANGED <<schedulers, runtime, skipped>>
          /\ (redis => lease = NoHolder /\ lease' = q)
      BY <1>6 DEF Acquire, Acquirable
    <3>4. task'[q] = [pc |-> "reload", leased |-> redis, seen |-> {}]
      BY <1>0, <1>6 DEF Acquire, TaskGo
    <3> QED BY <1>0, <3>1, <3>2, <3>3, <3>4
  <2>2. \A p \in In(n) : ~Reloading(p)
    <3> SUFFICES ASSUME NEW p \in In(n), Reloading(p) PROVE FALSE
      OBVIOUS
    <3>1. task[p].leased /\ lease = p
      BY <1>2, <2>1 DEF HoldsLease
    <3>2. redis
      BY <1>0, <3>1 DEF Loading, NoLease
    <3> QED BY <1>0, <2>1, <3>1, <3>2
  <2>3. OneReloads(n)' /\ HoldsLease(n)'
    BY <1>0, <1>1, <2>1, <2>2 DEF OneReloads, HoldsLease, Reloading
  <2>4. SeenIsCurrent(n)' /\ LoadsCurrent(n)'
    BY <1>0, <1>1, <2>1, <2>2 DEF SeenIsCurrent, LoadsCurrent, Reloading
  <2> QED BY <2>3, <2>4 DEF Current
<1>7. CASE ReloadCommand(q)
  <2>1. /\ n \notin overlapped /\ Alone(q) /\ task[q].pc = "idle"
        /\ task'[q].pc = "reload" /\ ~task'[q].leased
        /\ UNCHANGED <<schedulers, runtime, skipped, lease>>
    BY <1>0, <1>7 DEF ReloadCommand, TaskStart, TaskGo
  <2>2. OneReloads(n)' /\ HoldsLease(n)'
    BY <1>0, <1>1, <2>1 DEF OneReloads, HoldsLease, Alone, Reloading
  <2>3. SeenIsCurrent(n)' /\ LoadsCurrent(n)'
    BY <1>0, <1>1, <2>1 DEF SeenIsCurrent, LoadsCurrent, Alone, Reloading
  <2> QED BY <2>2, <2>3 DEF Current
<1>8. CASE ReloadReads(q)
  <2>1. task[q] \in Loader /\ task[q].pc = "reload"
    BY <1>0, <1>8, TaskVariants DEF ReloadReads, TaskAt
  <2>2. /\ task'[q].pc = "install" /\ task'[q].seen = schedulers
        /\ task'[q].leased = task[q].leased
        /\ UNCHANGED <<schedulers, runtime, lease>>
    BY <1>0, <1>8, <2>1 DEF ReloadReads, Loader
  <2>3. Undisturbed(q) \/ n \notin overlapped
    BY <1>8 DEF ReloadReads
  <2>4. Alone(q) /\ (task[q].leased => lease = q)
    BY <1>0, <1>2, <2>1, <2>3 DEF Undisturbed, Alone, OneReloads, HoldsLease,
       Reloading
  <2>5. OneReloads(n)' /\ HoldsLease(n)'
    BY <1>0, <1>1, <2>2, <2>4 DEF OneReloads, HoldsLease, Alone, Reloading
  <2>6. SeenIsCurrent(n)' /\ LoadsCurrent(n)'
    BY <1>0, <1>1, <2>2, <2>4 DEF SeenIsCurrent, LoadsCurrent, Alone, Reloading
  <2> QED BY <2>5, <2>6 DEF Current
<1>9. CASE ReloadInstalls(q)
  <2>1. /\ task[q] \in Loader /\ task[q].pc = "install" /\ n \notin overlapped
    BY <1>0, <1>9, TaskVariants DEF ReloadInstalls, TaskAt
  <2>2. /\ task'[q].pc \in {"idle", "release"}
        /\ Reloading(q)' => task'[q].leased = task[q].leased
        /\ runtime'[n] = task[q].seen
        /\ UNCHANGED <<schedulers, lease, skipped>>
    BY <1>0, <1>9, <2>1
       DEF ReloadInstalls, TaskReturn, Loader, Reloading, TasksTyped
  <2>3. OneReloads(n)' /\ HoldsLease(n)'
    BY <1>0, <1>1, <1>2, <2>1, <2>2 DEF OneReloads, HoldsLease, Reloading
  <2>4. WillLoad(n) => WillLoad(n)'
    BY <1>0, <1>1, <2>1 DEF WillLoad
  <2>5. SeenIsCurrent(n) => SeenIsCurrent(n)'
    BY <1>0, <1>1, <2>2, <2>4 DEF SeenIsCurrent
  <2>6. SeenIsCurrent(n) => LoadsCurrent(n)'
    BY <1>0, <2>1, <2>2, <2>4 DEF SeenIsCurrent, LoadsCurrent
  <2> QED BY <1>2, <2>1, <2>2, <2>3, <2>5, <2>6 DEF Current
<1>10. CASE ReloadFails(q)
  <2>1. /\ task[q] \in Loader /\ n \notin overlapped /\ n \in skipped'
        /\ UNCHANGED lease
    BY <1>0, <1>10, TaskVariants DEF ReloadFails
  <2>2. /\ Reloading(q)' => task'[q].leased = task[q].leased
        /\ Reloading(q)
    BY <1>0, <1>10, <2>1
       DEF ReloadFails, TaskReturn, Loader, Reloading
  <2>3. OneReloads(n)' /\ HoldsLease(n)'
    BY <1>0, <1>1, <1>2, <2>1, <2>2 DEF OneReloads, HoldsLease, Reloading
  <2> QED BY <2>1, <2>3 DEF Current
<1>11. CASE Release(q)
  <2>0. task[q].pc = "release" /\ task'[q].pc = "idle"
        /\ UNCHANGED <<schedulers, runtime, skipped>>
    BY <1>0, <1>11 DEF Release, TaskAt, TaskReturn
  <2>1. /\ n \notin overlapped
        /\ \/ lease' = lease \/ lease = q
           \/ lease \in TaskRequest /\ Home[lease] # n
    BY <1>11 DEF Release, TasksTyped
  <2>2. OneReloads(n)' /\ HoldsLease(n)'
    <3>1. OneReloads(n)'
      BY <1>0, <1>1, <1>2, <2>0, <2>1 DEF OneReloads, Reloading
    <3>2. ASSUME NEW p \in In(n), Reloading(p)', task'[p].leased
          PROVE  lease' = p
      <4>1. p # q /\ Reloading(p) /\ task[p].leased
        BY <1>0, <1>1, <2>0, <3>2 DEF Reloading
      <4>2. lease = p /\ Home[p] = n
        BY <1>2, <2>1, <4>1 DEF HoldsLease, In
      <4> QED BY <2>1, <4>1, <4>2
    <3> QED BY <1>0, <3>1, <3>2 DEF HoldsLease
  <2>3. WillLoad(n) => WillLoad(n)'
    BY <1>0, <1>1, <2>0 DEF WillLoad
  <2>4. SeenIsCurrent(n) => SeenIsCurrent(n)'
    BY <1>0, <1>1, <2>0, <2>3 DEF SeenIsCurrent
  <2>5. LoadsCurrent(n) => LoadsCurrent(n)'
    BY <1>0, <1>1, <2>0, <2>3 DEF LoadsCurrent
  <2> QED BY <1>2, <2>0, <2>1, <2>2, <2>4, <2>5 DEF Current
<1> QED BY <1>3, <1>4, <1>5, <1>6, <1>7, <1>8, <1>9, <1>10, <1>11,
           TaskStepFits DEF Loads

\* Without Redis nobody has a lease.
LEMMA NoLeaseStep ==
  ASSUME TasksTyped, NoLease, NEW q \in TaskRequest, TaskStep(q)
  PROVE  NoLease'
<1>0. /\ task \in [TaskRequest -> {TaskIdle} \cup TaskHandler]
      /\ TaskIdle.pc = "idle"
      /\ \A p \in TaskRequest \ {q} : task'[p] = task[p]
  BY TaskStepFits DEF TasksTyped, TaskIdle
<1>1. redis' = redis /\ (~redis /\ Reloading(q)' => ~task'[q].leased)
  <2>1. CASE Starts(q) \/ Writes(q)
    BY <2>1 DEF Starts, Writes, Reloading
  <2>2. CASE NotAcquired(q) \/ Release(q)
    BY <1>0, <2>2 DEF NotAcquired, Release, TaskReturn, Reloading
  <2>3. CASE Acquire(q) \/ ReloadCommand(q)
    BY <1>0, <2>3 DEF Acquire, ReloadCommand, TaskStart, TaskGo
  <2>4. CASE ReloadReads(q) \/ ReloadInstalls(q) \/ ReloadFails(q)
    <3>1. task[q] \in Loader /\ Reloading(q)
      BY <1>0, <2>4, TaskVariants
         DEF ReloadReads, ReloadInstalls, ReloadFails, TaskAt, Reloading
    <3>2. Reloading(q)' => task'[q].leased = task[q].leased
      BY <1>0, <2>4, <3>1
         DEF ReloadReads, ReloadInstalls, ReloadFails, TaskReturn, Loader,
             Reloading
    <3>3. redis' = redis
      BY <2>4 DEF ReloadReads, ReloadInstalls, ReloadFails
    <3> QED BY <3>1, <3>2, <3>3 DEF NoLease
  <2> QED BY <2>1, <2>2, <2>3, <2>4, TaskStepFits DEF Loads
<1> QED BY <1>0, <1>1 DEF NoLease, Reloading

\* Every step keeps the runtimes loaded from the table, or a load to come.
LEMMA LoadingStep ==
  ASSUME TasksTyped, Loading, TaskNext
  PROVE  Loading'
<1>1. CASE LeaseExpires
  <2>1. UNCHANGED <<redis, schedulers, runtime, task, skipped>>
    BY <1>1 DEF LeaseExpires
  <2>2. ASSUME NEW n \in Process, n \notin overlapped'
        PROVE  OneReloads(n)' /\ HoldsLease(n)' /\ Current(n)'
    <3>1. n \notin overlapped
      BY <1>1, <2>2 DEF LeaseExpires
    <3>2. HoldsLease(n)'
      <4> SUFFICES ASSUME NEW p \in In(n), Reloading(p), task[p].leased
                   PROVE  FALSE
        BY <2>1 DEF HoldsLease, Reloading, In
      <4>1. lease = p /\ Home[p] = n
        BY <3>1 DEF Loading, HoldsLease, In
      <4> QED BY <1>1, <2>2, <4>1 DEF LeaseExpires
    <3> QED BY <2>1, <3>1, <3>2
            DEF Loading, OneReloads, Reloading, Current, SeenIsCurrent,
                LoadsCurrent, WillLoad
  <2> QED BY <2>1, <2>2 DEF Loading, NoLease, Reloading
<1>2. ASSUME NEW q \in TaskRequest, TaskStep(q)
      PROVE  Loading'
  BY <1>2, NoLeaseStep, OwnLoading, OtherLoading DEF Loading
<1> QED BY <1>1, <1>2 DEF TaskNext

\* Every step of the schedulers keeps them fitting.
LEMMA TaskNextFits ==
  ASSUME TasksTyped, TaskNext
  PROVE  TasksTyped' /\ (TogglesFollow => TogglesFollow')
<1>1. CASE LeaseExpires
  <2>1. overlapped' \subseteq Process
    BY <1>1, TaskAssumption DEF LeaseExpires, TasksTyped
  <2> QED
    BY <1>1, <2>1
       DEF LeaseExpires, TasksTyped, TogglesFollow, IdsGiven, TogglesCount
<1> QED BY <1>1, TaskStepFits DEF TaskNext

\* The schedulers start so, and what holds of them is what the runs check.
LEMMA TasksStart ==
  ASSUME TaskInit
  PROVE  TasksTyped /\ TogglesFollow /\ Loading
<1>1. TasksTyped
  <2>1. 0 \in 0 .. MaxTasks /\ 0 \in 0 .. MaxChanges
    BY TaskAssumption
  <2>2. task \in [TaskRequest -> {TaskIdle} \cup TaskHandler]
    BY DEF TaskInit
  <2> QED BY <2>1, <2>2 DEF TaskInit, TasksTyped
<1>2. TogglesFollow
  BY DEF TaskInit, TogglesFollow, IdsGiven, TogglesCount
<1>3. Loading
  <2>1. \A q \in TaskRequest : task[q].pc = "idle"
    BY DEF TaskInit, TaskIdle
  <2>2. \A n \in Process : runtime[n] = schedulers
    BY DEF TaskInit
  <2> QED BY <2>1, <2>2 DEF Loading, NoLease, OneReloads, HoldsLease, Current,
          SeenIsCurrent, LoadsCurrent, Reloading, In
<1> QED BY <1>1, <1>2, <1>3

\* What fits is what the runs check.
LEMMA TasksMean ==
  /\ TasksTyped => TaskTypeOK
  /\ TogglesFollow => TogglesCount
  /\ Loading => RuntimeIsCurrent
<1>1. TaskIdle.pc = "idle"
  BY DEF TaskIdle
<1>2. TasksTyped => TaskTypeOK
  BY DEF TasksTyped, TaskTypeOK
<1>3. Loading => RuntimeIsCurrent
  BY <1>1 DEF Loading, Current, LoadsCurrent, WillLoad, In, RuntimeIsCurrent
<1> QED BY <1>2, <1>3 DEF TogglesFollow

-----------------------------------------------------------------------------
(* The settings.                                                           *)

SettingsTyped ==
  /\ subject \in Subject
  /\ configs \subseteq Config /\ types \subseteq Type
  /\ entries \subseteq Entry
  /\ given \in [{"config", "type", "data"} -> 0 .. MaxSettings]
  /\ setting \in [SettingRequest -> {SettingIdle} \cup SettingHandler]
  /\ edits \in 0 .. MaxEdits
  /\ contended \in BOOLEAN /\ behind \subseteq RowId
  /\ \A q \in SettingRequest :
       setting[q].pc = "writeData" => setting[q].code \in Code

\* An id is given once.
ConfigIdsUnique(S) == \A c, d \in S : c.id = d.id => c = d

ConfigKeysUnique(S) == \A c, d \in S : c.key = d.key => c = d

ConfigIds ==
  ConfigIdsUnique(configs) /\ \A c \in configs : c.id <= given["config"]

\* The first n rows of a batch do not get in the way of each other or of what
\* is there.
Clear(ps, n) ==
  \A i \in 1 .. n :
    /\ \A c \in configs : c.key = ps[i].key => c.id = ps[i].id
    /\ \A j \in 1 .. n : ps[i].key = ps[j].key => ps[i].id = ps[j].id

KeyIsFree(h) ==
  /\ h.pc = "insert" => \A c \in configs : c.key # h.key
  /\ h.pc = "updateKeys" => h.next \in Nat \ {0} /\ Clear(h.params, h.next - 1)
  /\ h.pc = "update" => Clear(h.params, Len(h.params))

ShortBatch(h) ==
  h.pc \in {"updateKeys", "update"} => Len(h.params) \in 1 .. 2

\* The inductive invariant of KeysAreUnique.
KeysApart ==
  /\ ConfigIds
  /\ \A q \in SettingRequest : ShortBatch(setting[q])
  /\ ~inMemory => ConfigKeysUnique(configs)
  /\ ~contended =>
       /\ ~Contention
       /\ ConfigKeysUnique(configs)
       /\ \A q \in SettingRequest : KeyIsFree(setting[q])

\* What a handler is going to write says what the type's row says.
CodeRead(h) ==
  h.pc = "writeData" =>
    h.late \/ [id |-> h.type, code |-> h.code] \in types

\* The inductive invariant of DataFollowTheirType.
DataFollow ==
  /\ \A d \in entries : d.id <= given["data"]
  /\ \A q \in SettingRequest : CodeRead(setting[q])
  /\ DataFollowTheirType

KeyPC    == {"createKey", "insert", "updateKeys", "update"}
KeyReq   == [pc: {"createKey", "insert"}, key: Key]
BatchReq == [pc: {"updateKeys", "update"}, params: Seq(Param), next: Nat]
DataReq  == [pc: {"typeOf", "writeData"}, id: 0 .. MaxSettings, type: RowId,
             code: Code \cup {NoneYet}, late: BOOLEAN]

\* What a handler is, by where it is.
LEMMA SettingVariants ==
  ASSUME NEW h \in {SettingIdle} \cup SettingHandler
  PROVE  /\ h.pc \in {"createKey", "insert"} => h \in KeyReq
         /\ h.pc \in {"updateKeys", "update"} => h \in BatchReq
         /\ h.pc \in {"typeOf", "writeData"} => h \in DataReq
BY DEF SettingHandler, SettingIdle, KeyReq, BatchReq, DataReq

\* Each of these is one.
LEMMA SettingHandlers ==
  KeyReq \cup BatchReq \cup DataReq \cup {SettingIdle}
  \subseteq {SettingIdle} \cup SettingHandler
BY DEF SettingHandler, KeyReq, BatchReq, DataReq

\* A handler moves alone.
LEMMA SettingLanding ==
  ASSUME SettingsTyped, NEW q \in SettingRequest,
         NEW h \in {SettingIdle} \cup SettingHandler,
         setting' = [setting EXCEPT ![q] = h]
  PROVE  /\ setting' \in [SettingRequest -> {SettingIdle} \cup SettingHandler]
         /\ setting'[q] = h
         /\ \A p \in SettingRequest \ {q} : setting'[p] = setting[p]
BY DEF SettingsTyped

\* A new id is one that has not been given.
LEMMA NewId ==
  ASSUME SettingsTyped, NEW table \in {"config", "type", "data"}, Gives(table)
  PROVE  /\ New(table) \in RowId
         /\ given' \in [{"config", "type", "data"} -> 0 .. MaxSettings]
         /\ given'[table] = New(table)
         /\ \A other \in {"config", "type", "data"} \ {table} :
              given'[other] = given[other]
         /\ given[table] \in Nat
<1>1. given[table] \in 0 .. MaxSettings /\ given[table] < MaxSettings
  BY DEF SettingsTyped, Gives
<1>2. New(table) \in 1 .. MaxSettings /\ New(table) \in 0 .. MaxSettings
  BY <1>1, SettingAssumption DEF New
<1>3. given' = [given EXCEPT ![table] = New(table)]
  BY DEF Gives, New, SettingsTyped
<1> QED BY <1>1, <1>2, <1>3, SettingAssumption DEF SettingsTyped, RowId

-----------------------------------------------------------------------------
(* A batch.                                                                *)

\* One row of a batch.
Put(S, p) == {IF c.id = p.id THEN p ELSE c : c \in S}
PutNext(b, p) ==
  IF b.ok /\ (\E c \in b.rows : c.id = p.id) /\ Admits(Put(b.rows, p))
  THEN [ok |-> TRUE, rows |-> Put(b.rows, p)]
  ELSE [b EXCEPT !.ok = FALSE]
Batch == [ok: BOOLEAN, rows: SUBSET Config]

\* A batch has one row or two, so it is one step, or two.
LEMMA AfterIs ==
  ASSUME NEW ps \in Seq(Param), Len(ps) \in 1 .. 2
  PROVE  LET b == PutNext([ok |-> TRUE, rows |-> configs], ps[1])
         IN  After(ps) = IF Len(ps) = 1 THEN b ELSE PutNext(b, ps[2])
<1> DEFINE n0 == [ok |-> TRUE, rows |-> configs]
           n1 == PutNext(n0, ps[1])
           n2 == PutNext(n1, ps[2])
           F(g) == [n \in 0 .. Len(ps) |->
                      IF n = 0 THEN n0 ELSE PutNext(g[n - 1], ps[n])]
           f == [n \in 0 .. Len(ps) |->
                   IF n = 0 THEN n0 ELSE IF n = 1 THEN n1 ELSE n2]
           u == CHOOSE g : g = F(g)
<1>1. After(ps) = u[Len(ps)]
  BY DEF After, PutNext, Put
<1>2. f = F(f)
  <2> HIDE DEF n0, n1, n2
  <2>1. \A n \in 0 .. Len(ps) : f[n] = F(f)[n]
    <3>1. n1 = PutNext(n0, ps[1]) /\ n2 = PutNext(n1, ps[2])
      BY DEF n1, n2
    <3>2. 0 \in 0 .. Len(ps) /\ 1 \in 0 .. Len(ps)
      OBVIOUS
    <3>3. f[0] = n0 /\ f[1] = n1
      BY <3>2
    <3> QED BY <3>1, <3>3
  <2> QED BY <2>1
<1> HIDE DEF f
<1>3. u = F(u)
  <2> HIDE DEF F
  <2> QED BY <1>2
<1> HIDE DEF u, n0
<1>4. u[0] = n0
  BY <1>3
<1>5. u[1] = PutNext(u[0], ps[1])
  BY <1>3
<1>6. Len(ps) = 2 => u[2] = PutNext(u[1], ps[2])
  BY <1>3
<1>7. After(ps) = IF Len(ps) = 1 THEN n1 ELSE n2
  <2>1. u[1] = n1
    BY <1>4, <1>5
  <2>2. Len(ps) = 2 => u[2] = n2
    BY <1>6, <2>1
  <2> HIDE DEF n1, n2
  <2>3. CASE Len(ps) = 1
    BY <1>1, <2>1, <2>3
  <2>4. CASE Len(ps) = 2
    BY <1>1, <2>2, <2>4
  <2> QED BY <2>3, <2>4
<1> QED BY <1>7 DEF n0

\* What the rows of a batch have become after its first n.
BatchRows(S, ps, n) ==
  /\ S \subseteq Config /\ ConfigIdsUnique(S)
  /\ \A r \in S : \E c \in configs : c.id = r.id
  /\ \A r \in S : r \in configs \/ \E i \in 1 .. n : r = ps[i]

\* One more row.
LEMMA PutRows ==
  ASSUME NEW ps \in Seq(Param), NEW n \in Nat, n < Len(ps), NEW b \in Batch,
         BatchRows(b.rows, ps, n)
  PROVE  LET a == PutNext(b, ps[n + 1])
         IN  /\ a \in Batch /\ BatchRows(a.rows, ps, n + 1)
             /\ a.ok => Admits(a.rows)
<1> DEFINE p == ps[n + 1]
           S == Put(b.rows, p)
<1>1. p \in Config /\ n + 1 \in 1 .. (n + 1)
  <2>1. n + 1 \in 1 .. Len(ps) /\ n + 1 \in 1 .. (n + 1)
    OBVIOUS
  <2>2. ps[n + 1] \in Param
    BY <2>1
  <2> QED BY <2>1, <2>2 DEF Param, Config
<1>2. \A r \in b.rows : r \in Config /\ b.rows \subseteq Config
  BY DEF BatchRows
<1> HIDE DEF p
<1>3. \A r \in S : /\ r \in Config
                   /\ r \in b.rows \/ r = p
                   /\ \E c \in b.rows : c.id = r.id
                   /\ r \in b.rows /\ r.id = p.id => r = p
  BY <1>1, <1>2 DEF Put, Config
<1>4. ConfigIdsUnique(S)
  BY <1>3 DEF BatchRows, ConfigIdsUnique
<1> HIDE DEF S
<1>5. BatchRows(S, ps, n + 1)
  <2>1. \A r \in S : \E c \in configs : c.id = r.id
    BY <1>3 DEF BatchRows
  <2>2. ASSUME NEW r \in S
        PROVE  r \in configs \/ \E i \in 1 .. (n + 1) : r = ps[i]
    <3>1. CASE r = p
      BY <1>1, <3>1 DEF p
    <3>2. CASE r \in b.rows
      BY <3>2 DEF BatchRows
    <3> QED BY <1>3, <3>1, <3>2
  <2> QED BY <1>3, <1>4, <2>1, <2>2 DEF BatchRows
<1>6. BatchRows(b.rows, ps, n + 1)
  BY DEF BatchRows
<1>7. CASE b.ok /\ (\E c \in b.rows : c.id = p.id) /\ Admits(S)
  <2>1. PutNext(b, p) = [ok |-> TRUE, rows |-> S]
    BY <1>7 DEF PutNext, S
  <2>2. S \subseteq Config
    BY <1>3
  <2> QED BY <1>5, <1>7, <2>1, <2>2 DEF Batch, p
<1>8. CASE ~(b.ok /\ (\E c \in b.rows : c.id = p.id) /\ Admits(S))
  <2>1. PutNext(b, p) = [b EXCEPT !.ok = FALSE]
    BY <1>8 DEF PutNext, S
  <2>2. [b EXCEPT !.ok = FALSE] \in Batch
    BY DEF Batch
  <2>3. [b EXCEPT !.ok = FALSE].ok = FALSE /\ [b EXCEPT !.ok = FALSE].rows = b.rows
    BY DEF Batch
  <2> QED BY <1>6, <2>1, <2>2, <2>3 DEF p
<1> QED BY <1>7, <1>8

\* All of them.
LEMMA AfterRows ==
  ASSUME SettingsTyped, ConfigIdsUnique(configs),
         NEW ps \in Seq(Param), Len(ps) \in 1 .. 2
  PROVE  /\ After(ps) \in Batch
         /\ BatchRows(After(ps).rows, ps, Len(ps))
         /\ After(ps).ok => Admits(After(ps).rows)
<1> DEFINE b == [ok |-> TRUE, rows |-> configs]
<1>1. b \in Batch /\ BatchRows(b.rows, ps, 0)
  BY DEF Batch, SettingsTyped, BatchRows
<1> HIDE DEF b
<1>2. /\ PutNext(b, ps[1]) \in Batch
      /\ BatchRows(PutNext(b, ps[1]).rows, ps, 1)
      /\ PutNext(b, ps[1]).ok => Admits(PutNext(b, ps[1]).rows)
  <2>1. 0 \in Nat /\ 0 < Len(ps) /\ 0 + 1 = 1
    OBVIOUS
  <2> QED BY <1>1, <2>1, PutRows
<1> DEFINE a == PutNext(b, ps[1])
<1>3. ASSUME Len(ps) = 2
      PROVE  /\ PutNext(a, ps[2]) \in Batch
             /\ BatchRows(PutNext(a, ps[2]).rows, ps, 2)
             /\ PutNext(a, ps[2]).ok => Admits(PutNext(a, ps[2]).rows)
  <2> HIDE DEF a
  <2>1. a \in Batch /\ BatchRows(a.rows, ps, 1)
    BY <1>2 DEF a
  <2>2. 1 \in Nat /\ 1 < Len(ps) /\ 1 + 1 = 2
    BY <1>3
  <2> QED BY <2>1, <2>2, PutRows
<1>4. After(ps) = IF Len(ps) = 1 THEN a ELSE PutNext(a, ps[2])
  BY AfterIs DEF b
<1> HIDE DEF a
<1>5. CASE Len(ps) = 1
  BY <1>2, <1>4, <1>5 DEF a
<1>6. CASE Len(ps) = 2
  BY <1>3, <1>4, <1>6
<1> QED BY <1>5, <1>6

-----------------------------------------------------------------------------
(* Steps.                                                                  *)

\* A handler of the configuration moves alone, to one of its kind.
LEMMA ConfigStepFits ==
  ASSUME SettingsTyped, ConfigIdsUnique(configs),
         \A q \in SettingRequest : ShortBatch(setting[q]),
         NEW q \in SettingRequest, ConfigStep(q),
         contended' \in BOOLEAN, UNCHANGED subject
  PROVE  /\ SettingsTyped'
         /\ UNCHANGED <<types, entries, behind>>
         /\ given'["data"] = given["data"]
         /\ setting'[q].pc \in {setting[q].pc} \cup KeyPC \cup {"idle"}
         /\ \A p \in SettingRequest \ {q} : setting'[p] = setting[p]
         /\ ShortBatch(setting[q])'
<1> DEFINE h == setting[q]
           MovesTo(g) == setting' = [setting EXCEPT ![q] = g]
           Goal == /\ SettingsTyped'
                   /\ given'["data"] = given["data"]
                   /\ setting'[q].pc \in {setting[q].pc} \cup KeyPC \cup {"idle"}
                   /\ \A p \in SettingRequest \ {q} : setting'[p] = setting[p]
                   /\ ShortBatch(setting[q])'
<1>0. /\ UNCHANGED <<types, entries, behind>>
      /\ setting \in [SettingRequest -> {SettingIdle} \cup SettingHandler]
      /\ h \in {SettingIdle} \cup SettingHandler /\ ShortBatch(h)
      /\ SettingIdle.pc = "idle"
  BY DEF ConfigStep, BeginConfig, CreateKey, InsertConfig, UpdateKeys,
     UpdateConfigs, DeleteConfigs, SettingsTyped, SettingIdle
<1>1. ASSUME configs' \subseteq Config, edits' \in 0 .. MaxEdits,
             given' \in [{"config", "type", "data"} -> 0 .. MaxSettings],
             given'["data"] = given["data"],
             NEW g \in {SettingIdle} \cup KeyReq \cup BatchReq,
             ShortBatch(g), MovesTo(g)
      PROVE  Goal
  <2>1. g.pc \in KeyPC \cup {"idle"}
    BY <1>0 DEF KeyReq, BatchReq, KeyPC
  <2>2. /\ setting' \in [SettingRequest -> {SettingIdle} \cup SettingHandler]
        /\ setting'[q] = g
        /\ \A p \in SettingRequest \ {q} : setting'[p] = setting[p]
    BY <1>1, SettingLanding, SettingHandlers
  <2>3. SettingsTyped'
    BY <1>0, <1>1, <2>1, <2>2 DEF SettingsTyped, KeyPC
  <2> QED BY <1>1, <2>1, <2>2, <2>3 DEF ShortBatch
<1>2. \A g \in {SettingIdle} \cup KeyReq : ShortBatch(g)
  BY <1>0 DEF KeyReq, ShortBatch
<1>3. CASE BeginConfig(q)
  <2>1. \E g \in KeyReq \cup BatchReq : ShortBatch(g) /\ SettingStart(q, g)
    <3>1. CASE \E key \in Key :
                 SettingStart(q, [pc |-> "createKey", key |-> key])
      <4>1. \A key \in Key : [pc |-> "createKey", key |-> key] \in KeyReq
        BY DEF KeyReq
      <4> QED BY <1>2, <3>1, <4>1
    <3>2. CASE \E n \in 1 .. 2 : \E ps \in [1 .. n -> Param] :
                 SettingStart(q, [pc |-> "updateKeys", params |-> ps,
                                  next |-> 1])
      <4> PICK n \in 1 .. 2 : \E ps \in [1 .. n -> Param] :
                 SettingStart(q, [pc |-> "updateKeys", params |-> ps,
                                  next |-> 1])
        BY <3>2
      <4>1. PICK ps \in [1 .. n -> Param] :
                 SettingStart(q, [pc |-> "updateKeys", params |-> ps,
                                  next |-> 1])
        OBVIOUS
      <4>2. ps \in Seq(Param) /\ Len(ps) = n
        OBVIOUS
      <4>3. /\ [pc |-> "updateKeys", params |-> ps, next |-> 1] \in BatchReq
            /\ ShortBatch([pc |-> "updateKeys", params |-> ps, next |-> 1])
        BY <4>2 DEF BatchReq, ShortBatch
      <4> QED BY <4>1, <4>3
    <3> QED BY <1>3, <3>1, <3>2 DEF BeginConfig
  <2>2. PICK g \in KeyReq \cup BatchReq : ShortBatch(g) /\ SettingStart(q, g)
    BY <2>1
  <2>3. edits' \in 0 .. MaxEdits /\ MovesTo(g)
    BY <2>2, SettingAssumption DEF SettingStart, SettingsTyped
  <2>4. UNCHANGED <<configs, given>>
    BY <1>3 DEF BeginConfig
  <2> QED BY <1>0, <1>1, <2>2, <2>3, <2>4 DEF SettingsTyped
<1>4. CASE CreateKey(q)
  <2>1. h \in KeyReq
    BY <1>0, <1>4, SettingVariants DEF CreateKey, SettingAt
  <2>2. [h EXCEPT !.pc = "insert"] \in KeyReq
    BY <2>1 DEF KeyReq
  <2>3. \E g \in {SettingIdle} \cup KeyReq : MovesTo(g)
    BY <1>4, <2>2 DEF CreateKey, SettingReturn
  <2>4. UNCHANGED <<configs, given, edits>>
    BY <1>4 DEF CreateKey
  <2> QED BY <1>0, <1>1, <1>2, <2>3, <2>4 DEF SettingsTyped
<1>5. CASE InsertConfig(q)
  <2>1. h \in KeyReq
    BY <1>0, <1>5, SettingVariants DEF InsertConfig, SettingAt
  <2>2. /\ configs' \subseteq Config
        /\ given' \in [{"config", "type", "data"} -> 0 .. MaxSettings]
        /\ given'["data"] = given["data"]
    <3>1. CASE UNCHANGED <<configs, given>>
      BY <3>1 DEF SettingsTyped
    <3>2. CASE /\ configs' = configs \cup
                    {[id |-> New("config"), key |-> h.key]}
               /\ Gives("config")
      BY <2>1, <3>2, NewId DEF SettingsTyped, KeyReq, Config
    <3> QED BY <1>5, <3>1, <3>2 DEF InsertConfig
  <2>3. MovesTo(SettingIdle) /\ UNCHANGED edits
    BY <1>5 DEF InsertConfig, SettingReturn
  <2> QED BY <1>0, <1>1, <1>2, <2>2, <2>3 DEF SettingsTyped
<1>6. CASE UpdateKeys(q)
  <2>1. h \in BatchReq
    BY <1>0, <1>6, SettingVariants DEF UpdateKeys, SettingAt
  <2>2. /\ [h EXCEPT !.pc = "update"] \in BatchReq
        /\ [h EXCEPT !.next = h.next + 1] \in BatchReq
    BY <2>1 DEF BatchReq
  <2>3. /\ ShortBatch([h EXCEPT !.pc = "update"])
        /\ ShortBatch([h EXCEPT !.next = h.next + 1])
    BY <1>0, <2>1 DEF ShortBatch, BatchReq
  <2>4. \E g \in {SettingIdle} \cup BatchReq : ShortBatch(g) /\ MovesTo(g)
    BY <1>2, <1>6, <2>2, <2>3 DEF UpdateKeys, SettingReturn
  <2>5. UNCHANGED <<configs, given, edits>>
    BY <1>6 DEF UpdateKeys
  <2> QED BY <1>0, <1>1, <2>4, <2>5 DEF SettingsTyped
<1>7. CASE UpdateConfigs(q)
  <2>1. h \in BatchReq /\ Len(h.params) \in 1 .. 2
    BY <1>0, <1>7, SettingVariants
       DEF UpdateConfigs, SettingAt, ShortBatch
  <2>2. After(h.params).rows \subseteq Config
    BY <2>1, AfterRows DEF BatchReq, BatchRows
  <2>3. configs' \subseteq Config
    BY <1>7, <2>2 DEF UpdateConfigs, SettingsTyped
  <2>4. MovesTo(SettingIdle) /\ UNCHANGED <<given, edits>>
    BY <1>7 DEF UpdateConfigs, SettingReturn
  <2> QED BY <1>0, <1>1, <1>2, <2>3, <2>4 DEF SettingsTyped
<1>8. CASE DeleteConfigs(q)
  <2>1. configs' \subseteq Config /\ edits' \in 0 .. MaxEdits
    BY <1>8, SettingAssumption DEF DeleteConfigs, SettingOnce, SettingsTyped
  <2>2. MovesTo(SettingIdle) /\ UNCHANGED given
    BY <1>8 DEF DeleteConfigs, SettingOnce, SettingsTyped
  <2> QED BY <1>0, <1>1, <1>2, <2>1, <2>2 DEF SettingsTyped
<1>9. Goal
  BY <1>3, <1>4, <1>5, <1>6, <1>7, <1>8 DEF ConfigStep
<1> QED BY <1>0, <1>9

\* A step of the dictionary leaves what writes keys where it is, and what it
\* writes keeps following the types.
LEMMA DictStepFits ==
  ASSUME SettingsTyped, NEW q \in SettingRequest, DictStep(q),
         contended' \in BOOLEAN, UNCHANGED subject
  PROVE  /\ SettingsTyped'
         /\ DataFollow => DataFollow'
         /\ UNCHANGED configs /\ given'["config"] = given["config"]
         /\ \A p \in SettingRequest :
              setting'[p] = setting[p] \/ setting'[p].pc \notin KeyPC
<1> DEFINE h == setting[q]
           Tables == /\ types' \subseteq Type /\ entries' \subseteq Entry
                     /\ given' \in
                          [{"config", "type", "data"} -> 0 .. MaxSettings]
                     /\ behind' \subseteq RowId
           Says(g) == g.pc = "writeData" =>
                        g.late \/ [id |-> g.type, code |-> g.code] \in types'
           Keeps(g) == DataFollow => /\ \A d \in entries' : d.id <= given'["data"]
                                     /\ Says(g)
                                     /\ DataFollowTheirType'
                                     /\ types \subseteq types'
           Goal == /\ SettingsTyped'
                   /\ DataFollow => DataFollow'
                   /\ given'["config"] = given["config"]
                   /\ \A p \in SettingRequest :
                        setting'[p] = setting[p] \/ setting'[p].pc \notin KeyPC
<1>0. /\ UNCHANGED configs
      /\ setting \in [SettingRequest -> {SettingIdle} \cup SettingHandler]
      /\ h \in {SettingIdle} \cup SettingHandler
      /\ SettingIdle.pc = "idle"
  BY DEF DictStep, CreateType, UpdateType, EditTypes, DeleteTypes, BeginData,
     TypeOf, WriteData, DeleteData, SettingsTyped, SettingIdle
<1>1. ASSUME Tables, edits' \in 0 .. MaxEdits,
             given'["config"] = given["config"],
             NEW g \in {SettingIdle} \cup DataReq,
             g.pc = "writeData" => g.code \in Code,
             setting' = [setting EXCEPT ![q] = g], Keeps(g)
      PROVE  Goal
  <2>1. /\ setting' \in [SettingRequest -> {SettingIdle} \cup SettingHandler]
        /\ setting'[q] = g
        /\ \A p \in SettingRequest \ {q} : setting'[p] = setting[p]
    BY <1>1, SettingLanding, SettingHandlers
  <2>2. SettingsTyped'
    BY <1>0, <1>1, <2>1 DEF SettingsTyped
  <2>3. g.pc \notin KeyPC
    BY <1>0 DEF DataReq, KeyPC
  <2>4. DataFollow => DataFollow'
    BY <1>1, <2>1 DEF DataFollow, CodeRead
  <2> QED BY <1>1, <2>1, <2>2, <2>3, <2>4
<1> HIDE DEF Goal, Tables, Keeps
<1>2. ASSUME CreateType(q)
      PROVE  Goal
  <2>1. PICK code \in Code :
          types' = types \cup {[id |-> New("type"), code |-> code]}
    BY <1>2 DEF CreateType
  <2>2. /\ SettingOnce(q) /\ Gives("type") /\ UNCHANGED <<entries, behind>>
    BY <1>2 DEF CreateType
  <2>3. /\ edits' \in 0 .. MaxEdits
        /\ setting' = [setting EXCEPT ![q] = SettingIdle]
    BY <2>2, SettingAssumption DEF SettingOnce, SettingsTyped
  <2>4. /\ given' \in [{"config", "type", "data"} -> 0 .. MaxSettings]
        /\ given'["config"] = given["config"] /\ given'["data"] = given["data"]
        /\ [id |-> New("type"), code |-> code] \in Type
    BY <2>2, NewId DEF Type
  <2>5. Tables
    BY <2>1, <2>2, <2>4 DEF SettingsTyped, Tables
  <2>6. Keeps(SettingIdle)
    BY <1>0, <2>1, <2>2, <2>4 DEF DataFollow, CodeRead, DataFollowTheirType, Keeps
  <2> QED BY <1>0, <1>1, <2>3, <2>4, <2>5, <2>6
<1>3. ASSUME NEW T \in SUBSET RowId, EditTypes(q, T), types' \subseteq Type,
             \A t \in types : t.id \notin T => t \in types'
      PROVE  Goal
  <2>1. /\ edits' \in 0 .. MaxEdits
        /\ UNCHANGED <<entries, given>>
        /\ behind' = behind \cup Entries(T)
    BY <1>3, SettingAssumption DEF EditTypes, SettingsTyped
  <2>2. Tables
    BY <1>3, <2>1 DEF SettingsTyped, Entries, Entry, Tables
  <2>3. /\ setting' \in [SettingRequest -> {SettingIdle} \cup SettingHandler]
        /\ \A p \in SettingRequest :
             \/ setting'[p] = setting[p] /\ ~(/\ setting[p].pc = "writeData"
                                              /\ setting[p].type \in T)
             \/ /\ setting'[p].pc = "writeData" /\ setting'[p].late
                /\ setting'[p].code \in Code
    <3>1. ASSUME NEW p \in SettingRequest
          PROVE  /\ Late(T)[p] \in {SettingIdle} \cup SettingHandler
                 /\ \/ Late(T)[p] = setting[p]
                       /\ ~(setting[p].pc = "writeData" /\ setting[p].type \in T)
                    \/ /\ Late(T)[p].pc = "writeData" /\ Late(T)[p].late
                       /\ Late(T)[p].code \in Code
      <4>1. CASE setting[p].pc = "writeData" /\ setting[p].type \in T
        <5>1. Late(T)[p] = [setting[p] EXCEPT !.late = TRUE]
          BY <4>1 DEF Late, SettingAt
        <5>2. setting[p] \in DataReq
          BY <1>0, <4>1, SettingVariants
        <5>3. [setting[p] EXCEPT !.late = TRUE] \in DataReq
          BY <5>2 DEF DataReq
        <5>4. /\ [setting[p] EXCEPT !.late = TRUE].pc = "writeData"
              /\ [setting[p] EXCEPT !.late = TRUE].late
              /\ [setting[p] EXCEPT !.late = TRUE].code \in Code
          BY <4>1, <5>2 DEF DataReq, SettingsTyped
        <5> QED BY <5>1, <5>3, <5>4, SettingHandlers
      <4>2. CASE ~(setting[p].pc = "writeData" /\ setting[p].type \in T)
        <5>1. Late(T)[p] = setting[p]
          BY <4>2 DEF Late, SettingAt
        <5> QED BY <1>0, <4>2, <5>1
      <4> QED BY <4>1, <4>2
    <3>2. Late(T) = [p \in SettingRequest |-> Late(T)[p]]
      BY DEF Late
    <3>3. setting' = Late(T)
      BY <1>3 DEF EditTypes
    <3> QED BY <3>1, <3>2, <3>3
  <2>4. SettingsTyped'
    <3>1. /\ contended' \in BOOLEAN /\ subject' \in Subject
          /\ configs' \subseteq Config
      BY <1>0 DEF SettingsTyped
    <3>2. \A p \in SettingRequest :
            setting'[p].pc = "writeData" => setting'[p].code \in Code
      BY <2>3 DEF SettingsTyped
    <3> QED BY <2>1, <2>2, <2>3, <3>1, <3>2 DEF SettingsTyped, Tables
  <2>5. ASSUME DataFollow
        PROVE  DataFollow'
    <3>1. ASSUME NEW p \in SettingRequest
          PROVE  CodeRead(setting[p])'
      <4>1. CASE /\ setting'[p] = setting[p]
                 /\ setting[p].pc = "writeData"
                 /\ setting[p].type \notin T
        BY <1>3, <2>5, <4>1 DEF DataFollow, CodeRead
      <4> QED BY <2>3, <4>1 DEF CodeRead
    <3>2. ASSUME NEW d \in entries
          PROVE  \/ d.id \in behind'
                 \/ [id |-> d.type, code |-> d.code] \in types'
      <4>1. CASE d.type \in T
        BY <2>1, <4>1 DEF Entries
      <4>2. CASE d.type \notin T
        BY <1>3, <2>1, <2>5, <4>2 DEF DataFollow, DataFollowTheirType
      <4> QED BY <4>1, <4>2
    <3> QED BY <2>1, <2>5, <3>1, <3>2 DEF DataFollow, DataFollowTheirType
  <2>6. \A p \in SettingRequest :
          setting'[p] = setting[p] \/ setting'[p].pc \notin KeyPC
    BY <2>3 DEF KeyPC
  <2> QED BY <2>1, <2>4, <2>5, <2>6 DEF Goal
<1>4. ASSUME UpdateType(q)
      PROVE  Goal
  <2>1. PICK t \in types, code \in Code :
          /\ EditTypes(q, {t.id})
          /\ types' = (types \ {t}) \cup {[t EXCEPT !.code = code]}
    BY <1>4 DEF UpdateType
  <2>2. t \in Type /\ {t.id} \in SUBSET RowId /\ [t EXCEPT !.code = code] \in Type
    BY DEF SettingsTyped, Type
  <2>3. types' \subseteq Type /\ \A u \in types : u.id \notin {t.id} => u \in types'
    BY <2>1, <2>2 DEF SettingsTyped
  <2> QED BY <1>3, <2>1, <2>2, <2>3
<1>5. ASSUME DeleteTypes(q)
      PROVE  Goal
  <2>1. PICK T \in SUBSET {t.id : t \in types} :
          EditTypes(q, T) /\ types' = {t \in types : t.id \notin T}
    BY <1>5 DEF DeleteTypes
  <2>2. T \in SUBSET RowId
    BY DEF SettingsTyped, Type
  <2>3. types' \subseteq Type /\ \A u \in types : u.id \notin T => u \in types'
    BY <2>1 DEF SettingsTyped
  <2> QED BY <1>3, <2>1, <2>2, <2>3
<1>6. ASSUME BeginData(q)
      PROVE  Goal
  <2>1. PICK id \in {0} \cup {d.id : d \in entries}, type \in RowId :
          SettingStart(q, [pc |-> "typeOf", id |-> id, type |-> type,
                           code |-> NoneYet, late |-> FALSE])
    BY <1>6 DEF BeginData
  <2> DEFINE g == [pc |-> "typeOf", id |-> id, type |-> type,
                   code |-> NoneYet, late |-> FALSE]
  <2>2. id \in 0 .. MaxSettings
    BY SettingAssumption DEF SettingsTyped, Entry, RowId
  <2>3. g \in DataReq /\ g.pc = "typeOf"
    BY <2>2 DEF DataReq
  <2>4. /\ edits' \in 0 .. MaxEdits /\ setting' = [setting EXCEPT ![q] = g]
    BY <2>1, SettingAssumption DEF SettingStart, SettingsTyped
  <2>5. UNCHANGED <<types, entries, given, behind>>
    BY <1>6 DEF BeginData
  <2> HIDE DEF g
  <2>6. Tables
    BY <2>5 DEF SettingsTyped, Tables
  <2>7. Keeps(g)
    BY <2>3, <2>5 DEF DataFollow, CodeRead, DataFollowTheirType, Keeps
  <2> QED BY <1>1, <2>3, <2>4, <2>5, <2>6, <2>7
<1>7. ASSUME TypeOf(q)
      PROVE  Goal
  <2>1. h \in DataReq /\ h.pc = "typeOf"
    BY <1>0, <1>7, SettingVariants DEF TypeOf, SettingAt
  <2>2. UNCHANGED <<types, entries, given, behind, edits>>
    BY <1>7 DEF TypeOf
  <2> DEFINE Reads == \E g \in {SettingIdle} \cup DataReq :
          /\ setting' = [setting EXCEPT ![q] = g]
          /\ g.pc = "writeData" =>
               g.code \in Code /\ [id |-> g.type, code |-> g.code] \in types
  <2>3. Reads
    <3>1. CASE SettingReturn(q)
      BY <1>0, <3>1 DEF SettingReturn
    <3>2. ASSUME NEW code \in CodesOf(h.type),
                 setting' = [setting EXCEPT ![q].pc = "writeData",
                                            ![q].code = code]
          PROVE  Reads
      <4>1. PICK t \in types : t.id = h.type /\ t.code = code
        BY DEF CodesOf
      <4>2. t \in Type /\ code \in Code /\ t = [id |-> h.type, code |-> code]
        BY <4>1 DEF SettingsTyped, Type
      <4> DEFINE g == [h EXCEPT !.pc = "writeData", !.code = code]
      <4>3. setting' = [setting EXCEPT ![q] = g]
        BY <1>0, <3>2
      <4>4. g \in DataReq /\ g.type = h.type /\ g.code = code
        BY <2>1, <4>2 DEF DataReq
      <4> QED BY <4>2, <4>3, <4>4
    <3> QED BY <1>7, <3>1, <3>2 DEF TypeOf
  <2>4. PICK g \in {SettingIdle} \cup DataReq :
          /\ setting' = [setting EXCEPT ![q] = g]
          /\ g.pc = "writeData" =>
               g.code \in Code /\ [id |-> g.type, code |-> g.code] \in types
    BY <2>3
  <2>5. Tables /\ edits' \in 0 .. MaxEdits
    BY <2>2 DEF SettingsTyped, Tables
  <2>6. Keeps(g)
    BY <2>2, <2>4 DEF DataFollow, CodeRead, DataFollowTheirType, Keeps
  <2> QED BY <1>1, <2>2, <2>4, <2>5, <2>6
<1>8. ASSUME WriteData(q)
      PROVE  Goal
  <2>1. h \in DataReq /\ h.pc = "writeData"
    BY <1>0, <1>8, SettingVariants DEF WriteData, SettingAt
  <2> DEFINE id == IF h.id = 0 THEN New("data") ELSE h.id
             e == DataOf(h, id)
  <2>2. /\ setting' = [setting EXCEPT ![q] = SettingIdle]
        /\ UNCHANGED <<types, edits>>
    BY <1>8 DEF WriteData, SettingReturn
  <2>3. CASE UNCHANGED <<entries, given, behind>>
    <3>1. Tables /\ edits' \in 0 .. MaxEdits
      BY <2>2, <2>3 DEF SettingsTyped, Tables
    <3>2. Keeps(SettingIdle)
      BY <1>0, <2>2, <2>3 DEF DataFollow, CodeRead, DataFollowTheirType, Keeps
    <3> QED BY <1>0, <1>1, <2>2, <2>3, <3>1, <3>2
  <2>4. ASSUME id \in RowId, e \in Entry, e.id = id,
               e.type = h.type, e.code = h.code,
               given' \in [{"config", "type", "data"} -> 0 .. MaxSettings],
               given'["config"] = given["config"],
               behind' = IF h.late THEN behind \cup {id} ELSE behind \ {id},
               entries' \subseteq Entry,
               \A d \in entries' : d = e \/ (d \in entries /\ (DataFollow => d.id # id)),
               DataFollow => \A d \in entries' : d.id <= given'["data"]
        PROVE  Goal
    <3>1. Tables /\ edits' \in 0 .. MaxEdits
      BY <2>2, <2>4 DEF SettingsTyped, Tables
    <3>2. ASSUME DataFollow
          PROVE  DataFollowTheirType'
      <4>1. ASSUME NEW d \in entries'
            PROVE  \/ d.id \in behind'
                   \/ [id |-> d.type, code |-> d.code] \in types'
        <5>1. CASE d = e
          <6>1. h.late \/ [id |-> h.type, code |-> h.code] \in types
            BY <2>1, <3>2 DEF DataFollow, CodeRead
          <6> HIDE DEF e, id
          <6> QED BY <2>2, <2>4, <5>1, <6>1
        <5>2. CASE d \in entries /\ d.id # id
          <6>1. d.id \in behind \/ [id |-> d.type, code |-> d.code] \in types
            BY <3>2, <5>2 DEF DataFollow, DataFollowTheirType
          <6> HIDE DEF e, id
          <6> QED BY <2>2, <2>4, <5>2, <6>1
        <5> QED BY <2>4, <3>2, <4>1, <5>1, <5>2
      <4> QED BY <4>1 DEF DataFollowTheirType
    <3>3. Keeps(SettingIdle)
      BY <1>0, <2>2, <2>4, <3>2 DEF Keeps
    <3> HIDE DEF e, id
    <3> QED BY <1>0, <1>1, <2>2, <2>4, <3>1, <3>3
  <2>5. ASSUME id \in RowId
        PROVE  e \in Entry /\ e.id = id /\ e.type = h.type /\ e.code = h.code
    <3>1. h.code \in Code
      BY <2>1 DEF SettingsTyped
    <3> HIDE DEF id
    <3> QED BY <2>1, <2>5, <3>1 DEF DataOf, DataReq, Entry
  <2>6. ASSUME h.id = 0, Gives("data"),
               entries' = entries \cup {DataOf(h, id)},
               behind' = IF h.late THEN behind \cup {id} ELSE behind \ {id}
        PROVE  Goal
    <3>1. /\ id = New("data") /\ id \in RowId
          /\ given' \in [{"config", "type", "data"} -> 0 .. MaxSettings]
          /\ given'["data"] = id /\ given'["config"] = given["config"]
      BY <2>6, NewId
    <3>2. id = given["data"] + 1 /\ given["data"] \in Nat
      BY <2>6, NewId DEF New
    <3>3. entries' = entries \cup {e}
      BY <2>6
    <3>4. e \in Entry /\ e.id = id /\ e.type = h.type /\ e.code = h.code
      BY <2>5, <3>1
    <3> HIDE DEF e, id
    <3>5. entries' \subseteq Entry /\ \A d \in entries : d.id \in Nat
      BY <3>3, <3>4 DEF SettingsTyped, Entry, RowId
    <3>6. DataFollow => \A d \in entries : d.id <= given["data"]
      BY DEF DataFollow
    <3>7. /\ \A d \in entries' : d = e \/ (d \in entries /\ (DataFollow => d.id # id))
          /\ DataFollow => \A d \in entries' : d.id <= given'["data"]
      BY <3>1, <3>2, <3>3, <3>4, <3>5, <3>6
    <3> QED BY <2>4, <2>6, <3>1, <3>4, <3>5, <3>7
  <2>7. ASSUME h.id \in {d.id : d \in entries}, UNCHANGED given,
               entries' = {IF d.id = id THEN DataOf(h, id) ELSE d : d \in entries},
               behind' = IF h.late THEN behind \cup {id} ELSE behind \ {id}
        PROVE  Goal
    <3>1. h.id \in RowId /\ id = h.id
      <4>1. h.id \in 1 .. MaxSettings
        BY <2>7 DEF SettingsTyped, Entry, RowId
      <4> QED BY <4>1 DEF RowId
    <3>2. entries' = {IF d.id = id THEN e ELSE d : d \in entries}
      BY <2>7
    <3>3. e \in Entry /\ e.id = id /\ e.type = h.type /\ e.code = h.code
      BY <2>5, <3>1
    <3>4. PICK o \in entries : o.id = id
      BY <2>7, <3>1
    <3> HIDE DEF e, id
    <3>5. /\ entries' \subseteq Entry
          /\ given' \in [{"config", "type", "data"} -> 0 .. MaxSettings]
          /\ given'["config"] = given["config"]
      BY <2>7, <3>2, <3>3 DEF SettingsTyped
    <3>6. \A d \in entries' : d = e \/ (d \in entries /\ d.id # id)
      BY <3>2
    <3>7. DataFollow => \A d \in entries' : d.id <= given'["data"]
      BY <2>7, <3>3, <3>4, <3>6 DEF DataFollow
    <3> QED BY <2>4, <2>7, <3>1, <3>3, <3>5, <3>6, <3>7
  <2> QED BY <1>8, <2>3, <2>6, <2>7 DEF WriteData
<1>9. ASSUME DeleteData(q)
      PROVE  Goal
  <2>1. PICK d \in entries : entries' = entries \ {d}
    BY <1>9 DEF DeleteData
  <2>2. /\ SettingOnce(q) /\ UNCHANGED <<types, given, behind>>
    BY <1>9 DEF DeleteData
  <2>3. /\ edits' \in 0 .. MaxEdits
        /\ setting' = [setting EXCEPT ![q] = setting[q]]
        /\ setting[q] = SettingIdle
    BY <2>2, SettingAssumption DEF SettingOnce, SettingsTyped
  <2>4. Tables
    BY <2>1, <2>2 DEF SettingsTyped, Tables
  <2>5. Keeps(SettingIdle)
    BY <1>0, <2>1, <2>2 DEF DataFollow, CodeRead, DataFollowTheirType, Keeps
  <2> QED BY <1>0, <1>1, <2>2, <2>3, <2>4, <2>5
<1>10. Goal
  BY <1>2, <1>4, <1>5, <1>6, <1>7, <1>8, <1>9 DEF DictStep
<1> QED BY <1>0, <1>10 DEF Goal
-----------------------------------------------------------------------------
(* Keys.                                                                   *)

\* A key that is free stays free when configurations are deleted.
LEMMA FreeStays ==
  ASSUME NEW p \in SettingRequest, setting'[p] = setting[p],
         configs' \subseteq configs, KeyIsFree(setting[p])
  PROVE  KeyIsFree(setting[p])'
BY DEF KeyIsFree, Clear

\* Who does not write needs no key.
LEMMA NoKeyNeeded ==
  ASSUME NEW p \in SettingRequest,
         setting'[p].pc \notin {"insert", "updateKeys", "update"}
  PROVE  KeyIsFree(setting[p])'
BY DEF KeyIsFree

\* As long as no two have written keys at a time, only one is where it may.
LEMMA OneWritesKeys ==
  ASSUME ~Contention, NEW q \in SettingRequest, setting[q].pc \in KeyPC
  PROVE  \A p \in SettingRequest \ {q} : setting[p].pc \notin KeyPC
BY DEF Contention, WritesKeys, KeyPC

\* A key that is available is in no other row.
LEMMA AvailableKey ==
  ASSUME SettingsTyped, ConfigKeysUnique(configs),
         NEW id \in Nat, NEW key \in Key, EnsureKeyAvailable(id, key)
  PROVE  \A c \in configs : c.key = key => c.id = id
<1> SUFFICES ASSUME NEW c \in configs, c.key = key
             PROVE  c.id = id
  OBVIOUS
<1>1. \A d \in ByKey(key) : d = c
  BY DEF ByKey, ConfigKeysUnique
<1>2. c.id \in Nat /\ c \in ByKey(key)
  BY SettingAssumption DEF SettingsTyped, Config, RowId, ByKey
<1>3. \A d \in ByKey(key) : c.id <= d.id
  BY <1>1, <1>2
<1> QED BY <1>2, <1>3 DEF EnsureKeyAvailable

\* A step of the configuration keeps keys apart.
LEMMA KeysStep ==
  ASSUME SettingsTyped, KeysApart, NEW q \in SettingRequest, ConfigStep(q),
         contended' = (contended \/ Contention'), UNCHANGED subject
  PROVE  KeysApart'
<1> DEFINE h == setting[q]
           Goal == /\ ConfigIds'
                   /\ ~inMemory => ConfigKeysUnique(configs')
                   /\ ~contended' =>
                        /\ ConfigKeysUnique(configs')
                        /\ \A p \in SettingRequest : KeyIsFree(setting[p])'
<1>0. /\ ConfigIdsUnique(configs)
      /\ \A p \in SettingRequest : ShortBatch(setting[p])
      /\ h \in {SettingIdle} \cup SettingHandler
      /\ SettingIdle.pc = "idle"
      /\ contended' \in BOOLEAN
      /\ ~contended' => ~contended /\ ~Contention'
  BY DEF KeysApart, ConfigIds, SettingsTyped, SettingIdle
<1>1. /\ SettingsTyped'
      /\ \A p \in SettingRequest \ {q} : setting'[p] = setting[p]
      /\ ShortBatch(setting[q])'
  BY <1>0, ConfigStepFits
<1>2. /\ ~contended' => /\ ~Contention /\ ConfigKeysUnique(configs)
                        /\ \A p \in SettingRequest : KeyIsFree(setting[p])
      /\ ~inMemory => ConfigKeysUnique(configs)
  BY <1>0 DEF KeysApart
<1>3. ASSUME configs' \subseteq configs, UNCHANGED given,
             ~contended' => KeyIsFree(setting[q])'
      PROVE  Goal
  <2>1. ConfigIds'
    BY <1>3 DEF KeysApart, ConfigIds, ConfigIdsUnique
  <2>2. ConfigKeysUnique(configs) => ConfigKeysUnique(configs')
    BY <1>3 DEF ConfigKeysUnique
  <2>3. ~contended' => \A p \in SettingRequest : KeyIsFree(setting[p])'
    BY <1>1, <1>2, <1>3, FreeStays
  <2> QED BY <1>2, <2>1, <2>2, <2>3
<1>4. ASSUME h.pc \in KeyPC, setting'[q] = SettingIdle, ConfigIds',
             ~inMemory => Admits(configs') \/ UNCHANGED configs,
             ~contended' => ConfigKeysUnique(configs')
      PROVE  Goal
  <2>1. ~inMemory => ConfigKeysUnique(configs')
    BY <1>2, <1>4 DEF Admits, ConfigIds, ConfigIdsUnique, ConfigKeysUnique
  <2>2. ASSUME ~contended', NEW p \in SettingRequest
        PROVE  KeyIsFree(setting[p])'
    <3>1. CASE p = q
      BY <1>0, <1>4, <3>1, NoKeyNeeded
    <3>2. CASE p # q
      <4>1. setting[p].pc \notin KeyPC /\ setting'[p] = setting[p]
        BY <1>1, <1>2, <1>4, <2>2, <3>2, OneWritesKeys
      <4> QED BY <4>1, NoKeyNeeded DEF KeyPC
    <3> QED BY <3>1, <3>2
  <2> QED BY <1>4, <2>1, <2>2
<1> HIDE DEF Goal
<1>5. ASSUME BeginConfig(q)
      PROVE  Goal
  <2>1. UNCHANGED <<configs, given>>
    BY <1>5 DEF BeginConfig
  <2>2. KeyIsFree(setting[q])'
    <3>1. CASE \E key \in Key :
                 SettingStart(q, [pc |-> "createKey", key |-> key])
      <4>1. setting'[q].pc = "createKey"
        BY <3>1 DEF SettingStart, SettingsTyped
      <4> QED BY <4>1, NoKeyNeeded
    <3>2. CASE \E n \in 1 .. 2 : \E ps \in [1 .. n -> Param] :
                 SettingStart(q, [pc |-> "updateKeys", params |-> ps,
                                  next |-> 1])
      <4> PICK n \in 1 .. 2 : \E ps \in [1 .. n -> Param] :
                 SettingStart(q, [pc |-> "updateKeys", params |-> ps,
                                  next |-> 1])
        BY <3>2
      <4>1. PICK ps \in [1 .. n -> Param] :
                 SettingStart(q, [pc |-> "updateKeys", params |-> ps,
                                  next |-> 1])
        OBVIOUS
      <4>2. setting'[q] = [pc |-> "updateKeys", params |-> ps, next |-> 1]
        BY <4>1 DEF SettingStart, SettingsTyped
      <4> QED BY <4>2 DEF KeyIsFree, Clear
    <3> QED BY <1>5, <3>1, <3>2 DEF BeginConfig
  <2> QED BY <1>3, <2>1, <2>2
<1>6. ASSUME CreateKey(q)
      PROVE  Goal
  <2>1. UNCHANGED <<configs, given>>
    BY <1>6 DEF CreateKey
  <2>2. h \in KeyReq
    BY <1>0, <1>6, SettingVariants DEF CreateKey, SettingAt
  <2>3. CASE SettingReturn(q)
    <3>1. setting'[q] = SettingIdle
      BY <2>3 DEF SettingReturn, SettingsTyped
    <3> QED BY <1>0, <1>3, <2>1, <3>1, NoKeyNeeded
  <2>4. CASE /\ EnsureKeyAvailable(0, h.key)
             /\ setting' = [setting EXCEPT ![q].pc = "insert"]
    <3>1. setting'[q].pc = "insert" /\ setting'[q].key = h.key /\ h.key \in Key
      BY <2>2, <2>4 DEF SettingsTyped, KeyReq
    <3>2. ~contended' => \A c \in configs : c.key = h.key => c.id = 0
      BY <1>2, <2>4, <3>1, AvailableKey
    <3>3. \A c \in configs : c.id # 0
      BY SettingAssumption DEF SettingsTyped, Config, RowId
    <3>4. ~contended' => KeyIsFree(setting[q])'
      BY <2>1, <3>1, <3>2, <3>3 DEF KeyIsFree
    <3> QED BY <1>3, <2>1, <3>4
  <2> QED BY <1>6, <2>3, <2>4 DEF CreateKey
<1>7. ASSUME UpdateKeys(q)
      PROVE  Goal
  <2>1. UNCHANGED <<configs, given>>
    BY <1>7 DEF UpdateKeys
  <2>2. h \in BatchReq /\ h.pc = "updateKeys"
    BY <1>0, <1>7, SettingVariants DEF UpdateKeys, SettingAt
  <2> DEFINE ps == h.params
             n == h.next
  <2>3. ps \in Seq(Param) /\ n \in Nat
    BY <2>2 DEF BatchReq
  <2>4. ~contended' => n \in Nat \ {0} /\ Clear(ps, n - 1)
    BY <1>2, <2>2 DEF KeyIsFree
  <2>5. CASE SettingReturn(q)
    <3>1. setting'[q] = SettingIdle
      BY <2>5 DEF SettingReturn, SettingsTyped
    <3> QED BY <1>0, <1>3, <2>1, <3>1, NoKeyNeeded
  <2>6. CASE n > Len(ps) /\ setting' = [setting EXCEPT ![q].pc = "update"]
    <3>1. setting'[q].pc = "update" /\ setting'[q].params = ps
      BY <2>2, <2>6 DEF SettingsTyped, BatchReq
    <3> HIDE DEF ps, n
    <3>2. ~contended' => Clear(ps, Len(ps))
      <4>1. ASSUME ~contended'
            PROVE  Len(ps) \in Nat /\ 1 .. Len(ps) \subseteq 1 .. n - 1
        BY <2>3, <2>4, <2>6, <4>1
      <4> QED BY <2>4, <4>1 DEF Clear
    <3>3. ~contended' => KeyIsFree(setting[q])'
      BY <2>1, <3>1, <3>2 DEF KeyIsFree, Clear
    <3> QED BY <1>3, <2>1, <3>3
  <2>7. CASE /\ n <= Len(ps) /\ Unseen(ps, n)
             /\ EnsureKeyAvailable(ps[n].id, ps[n].key)
             /\ setting' = [setting EXCEPT ![q].next = n + 1]
    <3>1. /\ setting'[q].pc = "updateKeys" /\ setting'[q].params = ps
          /\ setting'[q].next = n + 1
      BY <2>2, <2>7 DEF SettingsTyped, BatchReq
    <3> HIDE DEF ps, n
    <3>2. ASSUME ~contended'
          PROVE  Clear(ps, n) /\ n + 1 \in Nat \ {0} /\ n + 1 - 1 = n
      <4>1. n \in 1 .. Len(ps) /\ \A i \in 1 .. n : i = n \/ i \in 1 .. n - 1
        BY <2>3, <2>4, <2>7, <3>2
      <4>2. ps[n] \in Param
        BY <2>3, <4>1
      <4>3. \A c \in configs : c.key = ps[n].key => c.id = ps[n].id
        BY <1>2, <2>7, <3>2, <4>2, SettingAssumption, AvailableKey
           DEF Param, RowId
      <4>4. \A i \in 1 .. n - 1 : ps[i].key = ps[n].key => ps[i].id = ps[n].id
        BY <2>7 DEF Unseen
      <4> QED BY <2>4, <3>2, <4>1, <4>3, <4>4 DEF Clear
    <3>3. ASSUME ~contended'
          PROVE  KeyIsFree(setting[q])'
      <4>1. /\ setting'[q].next - 1 = n /\ setting'[q].next \in Nat \ {0}
            /\ Clear(ps, n)
        <5>1. Clear(ps, n) /\ n \in Nat
          BY <2>3, <3>2, <3>3
        <5>2. setting'[q].next = n + 1
          BY <3>1
        <5> QED BY <5>1, <5>2
      <4>2. Clear(setting[q].params, setting[q].next - 1)'
        BY <2>1, <3>1, <4>1 DEF Clear
      <4> QED BY <3>1, <4>1, <4>2 DEF KeyIsFree
    <3> QED BY <1>3, <2>1, <3>3
  <2> QED BY <1>7, <2>3, <2>5, <2>6, <2>7 DEF UpdateKeys
<1>8. ASSUME InsertConfig(q)
      PROVE  Goal
  <2> DEFINE c == [id |-> New("config"), key |-> h.key]
  <2>1. h \in KeyReq /\ h.pc = "insert" /\ h.pc \in KeyPC
    BY <1>0, <1>8, SettingVariants DEF InsertConfig, SettingAt, KeyPC
  <2>2. setting'[q] = SettingIdle
    BY <1>8 DEF InsertConfig, SettingReturn, SettingsTyped
  <2>3. CASE UNCHANGED <<configs, given>>
    <3>1. KeyIsFree(setting[q])'
      BY <1>0, <2>2, NoKeyNeeded
    <3> QED BY <1>3, <2>3, <3>1
  <2>4. CASE /\ Admits(configs \cup {c}) /\ configs' = configs \cup {c}
             /\ Gives("config")
    <3>1. /\ c.id = given["config"] + 1 /\ given["config"] \in Nat
          /\ given'["config"] = c.id
          /\ \A d \in configs : d.id <= given["config"] /\ d.id \in Nat
      BY <2>4, NewId DEF New, KeysApart, ConfigIds, SettingsTyped, Config, RowId
    <3>2. \A d \in configs : d.id # c.id
      BY <3>1
    <3>3. c.key = h.key
      OBVIOUS
    <3> HIDE DEF c
    <3>4. ConfigIds'
      BY <1>0, <2>4, <3>1, <3>2 DEF ConfigIds, ConfigIdsUnique
    <3>5. ~contended' => ConfigKeysUnique(configs')
      BY <1>2, <2>1, <2>4, <3>3 DEF KeyIsFree, ConfigKeysUnique
    <3> QED BY <1>4, <2>1, <2>2, <2>4, <3>4, <3>5
  <2> QED BY <1>8, <2>3, <2>4 DEF InsertConfig
<1>9. ASSUME UpdateConfigs(q)
      PROVE  Goal
  <2> DEFINE ps == h.params
             b == After(ps)
  <2>1. h \in BatchReq /\ h.pc = "update" /\ h.pc \in KeyPC
    BY <1>0, <1>9, SettingVariants DEF UpdateConfigs, SettingAt, KeyPC
  <2>2. ps \in Seq(Param) /\ Len(ps) \in 1 .. 2
    BY <1>0, <2>1 DEF BatchReq, ShortBatch
  <2>3. /\ setting'[q] = SettingIdle /\ UNCHANGED given
        /\ configs' = IF b.ok \/ inMemory THEN b.rows ELSE configs
    BY <1>9 DEF UpdateConfigs, SettingReturn, SettingsTyped
  <2>4. BatchRows(b.rows, ps, Len(ps)) /\ (b.ok => Admits(b.rows))
    BY <1>0, <2>2, AfterRows
  <2>5. ~contended' => Clear(ps, Len(ps))
    BY <1>2, <2>1 DEF KeyIsFree
  <2> HIDE DEF ps, b
  <2>6. CASE configs' = configs
    <3>1. KeyIsFree(setting[q])'
      BY <1>0, <2>3, NoKeyNeeded
    <3> QED BY <1>3, <2>3, <2>6, <3>1
  <2>7. CASE configs' = b.rows /\ (b.ok \/ inMemory)
    <3>1. ConfigIds'
      BY <2>3, <2>4, <2>7 DEF KeysApart, ConfigIds, BatchRows
    <3>2. Admits(configs')
      BY <2>4, <2>7 DEF Admits
    <3>3. ASSUME ~contended'
          PROVE  ConfigKeysUnique(b.rows)
      <4>1. SUFFICES ASSUME NEW r \in b.rows, NEW s \in b.rows, r.key = s.key
                     PROVE  r.id = s.id
        BY <2>4 DEF BatchRows, ConfigIdsUnique, ConfigKeysUnique
      <4>2. CASE r \in configs /\ s \in configs
        BY <1>2, <3>3, <4>1, <4>2 DEF ConfigKeysUnique
      <4>3. CASE \E i \in 1 .. Len(ps) : r = ps[i]
        BY <2>4, <2>5, <3>3, <4>1, <4>3 DEF BatchRows, Clear
      <4>4. CASE \E i \in 1 .. Len(ps) : s = ps[i]
        BY <2>4, <2>5, <3>3, <4>1, <4>4 DEF BatchRows, Clear
      <4> QED BY <2>4, <4>2, <4>3, <4>4 DEF BatchRows
    <3> QED BY <1>4, <2>1, <2>3, <2>7, <3>1, <3>2, <3>3
  <2> QED BY <2>3, <2>6, <2>7
<1>10. ASSUME DeleteConfigs(q)
       PROVE  Goal
  <2>1. /\ configs' \subseteq configs /\ UNCHANGED given
        /\ setting'[q] = SettingIdle
    BY <1>10 DEF DeleteConfigs, SettingOnce
  <2> QED BY <1>0, <1>3, <2>1, NoKeyNeeded
<1>11. Goal
  BY <1>5, <1>6, <1>7, <1>8, <1>9, <1>10 DEF ConfigStep
<1>12. \A p \in SettingRequest : ShortBatch(setting[p])'
  BY <1>0, <1>1 DEF ShortBatch
<1> QED BY <1>0, <1>11, <1>12 DEF Goal, KeysApart, inMemory

-----------------------------------------------------------------------------
(* The services.                                                           *)

SettingsInv == SettingsTyped /\ KeysApart /\ DataFollow

\* A step of the configuration leaves the dictionary's data and codes.
LEMMA DataStay ==
  ASSUME SettingsInv, NEW q \in SettingRequest, ConfigStep(q),
         contended' \in BOOLEAN, UNCHANGED subject
  PROVE  DataFollow'
<1>1. /\ UNCHANGED <<types, entries, behind>>
      /\ given'["data"] = given["data"]
      /\ setting'[q].pc \in {setting[q].pc} \cup KeyPC \cup {"idle"}
      /\ \A p \in SettingRequest \ {q} : setting'[p] = setting[p]
  BY ConfigStepFits DEF SettingsInv, KeysApart, ConfigIds
<1>2. setting[q].pc # "writeData"
  BY DEF ConfigStep, BeginConfig, CreateKey, InsertConfig, UpdateKeys,
     UpdateConfigs, DeleteConfigs, SettingAt, SettingStart, SettingOnce,
     SettingIdle
<1>3. setting'[q].pc # "writeData"
  BY <1>1, <1>2 DEF KeyPC
<1>4. \A p \in SettingRequest : CodeRead(setting[p])'
  BY <1>1, <1>3 DEF SettingsInv, DataFollow, CodeRead
<1> QED BY <1>1, <1>4 DEF SettingsInv, DataFollow, DataFollowTheirType

\* A step of the dictionary leaves what writes keys where it is.
LEMMA KeysStay ==
  ASSUME SettingsInv, NEW q \in SettingRequest, DictStep(q),
         contended' = (contended \/ Contention'), UNCHANGED subject
  PROVE  KeysApart'
<1>1. /\ UNCHANGED configs /\ given'["config"] = given["config"]
      /\ \A p \in SettingRequest :
           setting'[p] = setting[p] \/ setting'[p].pc \notin KeyPC
  BY DictStepFits DEF SettingsInv, SettingsTyped
<1>2. ConfigIds'
  BY <1>1 DEF SettingsInv, KeysApart, ConfigIds, ConfigIdsUnique
<1>3. \A p \in SettingRequest : ShortBatch(setting[p])'
  BY <1>1 DEF SettingsInv, KeysApart, ShortBatch, KeyPC
<1>4. ~inMemory' => ConfigKeysUnique(configs')
  BY <1>1 DEF SettingsInv, KeysApart, inMemory
<1>5. ASSUME ~contended'
      PROVE  /\ ~Contention' /\ ConfigKeysUnique(configs')
             /\ \A p \in SettingRequest : KeyIsFree(setting[p])'
  <2>1. ~contended /\ ~Contention'
    BY <1>5 DEF SettingsInv, SettingsTyped
  <2>2. \A p \in SettingRequest : KeyIsFree(setting[p])
    BY <2>1 DEF SettingsInv, KeysApart
  <2>3. ASSUME NEW p \in SettingRequest
        PROVE  KeyIsFree(setting[p])'
    <3>1. CASE setting'[p] = setting[p]
      BY <1>1, <2>2, <3>1, FreeStays
    <3>2. CASE setting'[p].pc \notin KeyPC
      BY <3>2, NoKeyNeeded DEF KeyPC
    <3> QED BY <1>1, <3>1, <3>2
  <2> QED BY <1>1, <2>1, <2>3 DEF SettingsInv, KeysApart
<1> QED BY <1>2, <1>3, <1>4, <1>5 DEF KeysApart

\* Every step of the settings keeps them fitting.
LEMMA SettingsStep ==
  ASSUME SettingsInv, SettingNext
  PROVE  SettingsInv'
<1>1. PICK q \in SettingRequest :
        \/ subject # "dictionary" /\ ConfigStep(q)
        \/ subject = "dictionary" /\ DictStep(q)
  BY DEF SettingNext
<1>2. /\ contended' = (contended \/ Contention') /\ UNCHANGED subject
      /\ contended' \in BOOLEAN
  BY DEF SettingNext, SettingsInv, SettingsTyped
<1>3. CASE ConfigStep(q)
  <2>1. SettingsTyped'
    BY <1>2, <1>3, ConfigStepFits DEF SettingsInv, KeysApart, ConfigIds
  <2> QED BY <1>2, <1>3, <2>1, KeysStep, DataStay DEF SettingsInv
<1>4. CASE DictStep(q)
  BY <1>2, <1>4, DictStepFits, KeysStay DEF SettingsInv
<1> QED BY <1>1, <1>3, <1>4

\* The settings start so.
LEMMA SettingsStart ==
  ASSUME SettingInit
  PROVE  SettingsInv
<1>1. /\ \A q \in SettingRequest : setting[q] = SettingIdle
      /\ SettingIdle.pc = "idle"
  BY DEF SettingInit, SettingIdle
<1>2. SettingsTyped
  <2>1. 0 \in 0 .. MaxSettings /\ 0 \in 0 .. MaxEdits
    BY SettingAssumption
  <2>2. setting \in [SettingRequest -> {SettingIdle} \cup SettingHandler]
    BY DEF SettingInit
  <2> QED BY <1>1, <2>1, <2>2 DEF SettingInit, SettingsTyped
<1>3. KeysApart
  <2>1. \A q \in SettingRequest : ShortBatch(setting[q]) /\ KeyIsFree(setting[q])
    BY <1>1 DEF ShortBatch, KeyIsFree
  <2>2. ~Contention
    BY <1>1 DEF Contention, WritesKeys
  <2> QED BY <2>1, <2>2 DEF SettingInit, KeysApart, ConfigIds, ConfigIdsUnique,
          ConfigKeysUnique
<1>4. DataFollow
  BY <1>1 DEF SettingInit, DataFollow, CodeRead, DataFollowTheirType
<1> QED BY <1>2, <1>3, <1>4 DEF SettingsInv

\* What fits is what the runs check.
LEMMA SettingsMean ==
  ASSUME SettingsInv
  PROVE  SettingTypeOK /\ KeysAreUnique /\ DataFollowTheirType
<1>1. SettingTypeOK
  BY DEF SettingsInv, SettingsTyped, SettingTypeOK
<1>2. KeysAreUnique
  BY DEF SettingsInv, KeysApart, ConfigKeysUnique, KeysAreUnique
<1> QED BY <1>1, <1>2 DEF SettingsInv, DataFollow

\* The settings stand still while another plugin runs.
LEMMA SettingsStay ==
  ASSUME SettingsInv, UNCHANGED settingVars
  PROVE  SettingsInv'
BY DEF SettingsInv, settingVars, SettingsTyped, KeysApart, ConfigIds,
   ConfigIdsUnique, ConfigKeysUnique, ShortBatch, Contention, WritesKeys,
   KeyIsFree, Clear, DataFollow, CodeRead, DataFollowTheirType, inMemory

-----------------------------------------------------------------------------
(* The plugins side by side.                                               *)

CatalogInv == CatalogFits /\ Standing /\ SingleDefault /\ UpdatesAsAsked

TasksInv == TasksTyped /\ TogglesFollow /\ Loading

\* The inductive invariant: one part for each plugin.
ServicesInv == at \in Plugin /\ CatalogInv /\ TasksInv /\ SettingsInv

\* The catalogue stands still while another plugin runs.
LEMMA CatalogStays ==
  ASSUME CatalogInv, UNCHANGED catalogVars
  PROVE  CatalogInv'
<1>1. CatalogFits'
  BY DEF CatalogInv, catalogVars, CatalogFits, CatalogTyped, Uploads, OwnFile,
     UploadsApart
<1>2. Standing'
  <2>1. Endangered' = Endangered
    BY DEF catalogVars, Endangered, Refers, Drops
  <2>2. \A f \in File : FileStands(f)'
    BY DEF CatalogInv, catalogVars, Standing, FileStands, StorageStands,
       SceneStands, MayStray
  <2>3. \A s \in SceneCode : SceneRowStands(s)'
    BY DEF CatalogInv, catalogVars, Standing, SceneRowStands, StorageStands,
       MayStray
  <2>4. \A q \in CatalogRequest : HandlerStands(catalog[q])'
    BY DEF CatalogInv, catalogVars, Standing, HandlerStands, StorageStands,
       SceneStands, MayStray
  <2> QED BY <2>1, <2>2, <2>3, <2>4 DEF CatalogInv, Standing, catalogVars
<1>3. SingleDefault' /\ UpdatesAsAsked'
  BY DEF CatalogInv, catalogVars, SingleDefault, UpdatesAsAsked, Defaults,
     Crossing, At, Asked
<1> QED BY <1>1, <1>2, <1>3 DEF CatalogInv

\* So do the schedulers.
LEMMA TasksStay ==
  ASSUME TasksInv, UNCHANGED taskVars
  PROVE  TasksInv'
<1>1. TasksTyped'
  BY DEF TasksInv, taskVars, TasksTyped
<1>2. TogglesFollow'
  BY DEF TasksInv, taskVars, TogglesFollow, IdsGiven, TogglesCount
<1>3. Loading'
  BY DEF TasksInv, taskVars, Loading, NoLease, OneReloads, HoldsLease, Current,
     SeenIsCurrent, LoadsCurrent, WillLoad, Reloading
<1> QED BY <1>1, <1>2, <1>3 DEF TasksInv

\* The plugins start so.
LEMMA ServicesStart ==
  Init => ServicesInv
<1> SUFFICES ASSUME Init PROVE ServicesInv
  OBVIOUS
<1>1. at \in Plugin /\ CatalogInit /\ TaskInit /\ SettingInit
  BY DEF Init
<1>2. CatalogInv
  BY <1>1, CatalogInitFits, CatalogStarts DEF CatalogInv
<1>3. TasksInv
  BY <1>1, TasksStart DEF TasksInv
<1> QED BY <1>1, <1>2, <1>3, SettingsStart DEF ServicesInv

\* Every step keeps it: one plugin moves, the others stand still.
LEMMA ServicesStep ==
  ServicesInv /\ [Next]_vars => ServicesInv'
<1> SUFFICES ASSUME ServicesInv, [Next]_vars PROVE ServicesInv'
  OBVIOUS
<1>0. at \in Plugin /\ CatalogInv /\ TasksInv /\ SettingsInv
  BY DEF ServicesInv
<1>1. CASE UploadfileNext
  <2>1. CatalogNext /\ UNCHANGED at /\ UNCHANGED taskVars /\ UNCHANGED settingVars
    BY <1>1 DEF UploadfileNext
  <2>2. CatalogInv'
    BY <1>0, <2>1, CatalogStepFits, StandingStep, SingleDefaultStep, AskedStep
       DEF CatalogInv
  <2> QED BY <1>0, <2>1, <2>2, TasksStay, SettingsStay DEF ServicesInv
<1>2. CASE TasksNext
  <2>1. TaskNext /\ UNCHANGED at /\ UNCHANGED catalogVars /\ UNCHANGED settingVars
    BY <1>2 DEF TasksNext
  <2>2. TasksInv'
    BY <1>0, <2>1, TaskNextFits, LoadingStep DEF TasksInv
  <2> QED BY <1>0, <2>1, <2>2, CatalogStays, SettingsStay DEF ServicesInv
<1>3. CASE SettingsNext
  <2>1. SettingNext /\ UNCHANGED at /\ UNCHANGED catalogVars /\ UNCHANGED taskVars
    BY <1>3 DEF SettingsNext
  <2> QED BY <1>0, <2>1, SettingsStep, CatalogStays, TasksStay DEF ServicesInv
<1>4. CASE UNCHANGED vars
  <2>1. /\ UNCHANGED at /\ UNCHANGED catalogVars /\ UNCHANGED taskVars
        /\ UNCHANGED settingVars
    BY <1>4 DEF vars
  <2> QED BY <1>0, <2>1, CatalogStays, TasksStay, SettingsStay DEF ServicesInv
<1> QED BY <1>1, <1>2, <1>3, <1>4 DEF Next

\* Every behaviour keeps it.
LEMMA ServicesHold ==
  Spec => []ServicesInv
BY ServicesStart, ServicesStep, PTL DEF Spec

\* What it means.
LEMMA ServicesMean ==
  ServicesInv =>
    /\ TypeOK
    /\ CodesKeepTheirRow /\ DefaultIsSingle /\ UndoneOnlyIfOutdated
    /\ TogglesCount /\ RuntimeIsCurrent
    /\ KeysAreUnique /\ DataFollowTheirType
<1> SUFFICES ASSUME ServicesInv
             PROVE  /\ TypeOK
                    /\ CodesKeepTheirRow /\ DefaultIsSingle
                    /\ UndoneOnlyIfOutdated
                    /\ TogglesCount /\ RuntimeIsCurrent
                    /\ KeysAreUnique /\ DataFollowTheirType
  OBVIOUS
<1>1. /\ CatalogTypeOK /\ CodesKeepTheirRow /\ DefaultIsSingle
      /\ UndoneOnlyIfOutdated
  BY CatalogMeans DEF ServicesInv, CatalogInv
<1>2. TaskTypeOK /\ TogglesCount /\ RuntimeIsCurrent
  BY TasksMean DEF ServicesInv, TasksInv
<1>3. SettingTypeOK /\ KeysAreUnique /\ DataFollowTheirType
  BY SettingsMean DEF ServicesInv
<1> QED BY <1>1, <1>2, <1>3 DEF ServicesInv, TypeOK

\* The tables, the handlers and the histories of the three plugins hold what
\* they should: in every state the row a request writes is complete, a
\* bounded number of ids is given, the lease is free or a request's.
THEOREM ServicesTypeOK == Spec => []TypeOK
BY ServicesHold, ServicesMean, PTL

\* The codes that files, references and scenes keep (CreateObject, CreateRef,
\* CreateScene) stand for the rows they were taken from, unless a row was
\* given another code, or its deletion overlapped with a request that had
\* looked it up: the in-use counts of DeleteStorage and DeleteScene miss
\* nothing else.
THEOREM CodesHold == Spec => []CodesKeepTheirRow
BY ServicesHold, ServicesMean, PTL

\* At most one storage is the default, unless two transactions that make one
\* the default have overlapped between CreateStorage's two statements.
THEOREM DefaultHolds == Spec => []DefaultIsSingle
BY ServicesHold, ServicesMean, PTL

\* An update of a storage that undoes another is one whose row was changed
\* after UpdateStorage read it.
THEOREM UpdatesHold == Spec => []UndoneOnlyIfOutdated
BY ServicesHold, ServicesMean, PTL

\* A scheduler is off if it was toggled an odd number of times, unless two
\* toggles were between the two statements of ToggleSchedulerStatus.
THEOREM TogglesHold == Spec => []TogglesCount
BY ServicesHold, ServicesMean, PTL

\* When no request of a process is under way its runtime has what is in the
\* table, unless the table was written by another process or without a reload
\* (reloadIfLeader found the lease taken, or failed), or two reloads have
\* overlapped in the process: with Redis, because a lease was lost or the
\* command used; without it, because NoopLeaderLease holds nothing apart.
THEOREM RuntimeHolds == Spec => []RuntimeIsCurrent
BY ServicesHold, ServicesMean, PTL

\* No two configurations have one key, in the database always, in memory
\* unless two requests that write keys have overlapped after
\* ensureKeyAvailable.
THEOREM KeysHold == Spec => []KeysAreUnique
BY ServicesHold, ServicesMean, PTL

\* Dictionary data are found under the code of their type, unless UpdateType
\* or DeleteTypes came after they were written, or while they were.
THEOREM DataHold == Spec => []DataFollowTheirType
BY ServicesHold, ServicesMean, PTL
=============================================================================
