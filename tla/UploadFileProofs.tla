-------------------------- MODULE UploadFileProofs --------------------------
(***************************************************************************)
(* Theorems about UploadFile, for every number of files, handlers, cleanup *)
(* runs and users, and every limit and time to live.                       *)
(***************************************************************************)
EXTENDS UploadFile, FiniteSetTheorems, WellFoundedInduction, TLAPS

-----------------------------------------------------------------------------
(* The program counter tells which local record a handler or a run has.    *)

\* A handler at a step of one of the operations holds that operation's record.
LEMMA RequestVariants ==
  ASSUME TypeOK, NEW q \in Request
  PROVE  /\ req[q].pc \in UploadPC => req[q] \in UploadReq
         /\ req[q].pc \in CompletePC => req[q] \in CompleteReq
         /\ req[q].pc = "bindRefs" => req[q] \in BindReq
         /\ req[q].pc = "deleteCheck" => req[q] \in DeleteReq
         /\ req[q].pc = "delete" => req[q] \in DeletingReq
BY DEF TypeOK, Requests, Idle, UploadReq, CompleteReq, BindReq, DeleteReq,
       DeletingReq, UploadPC, CompletePC

\* A cleanup run at a step holds that step's record.
LEMMA RunVariants ==
  ASSUME TypeOK, NEW c \in Cleaner
  PROVE  /\ cleaner[c].pc = "markRefs" => cleaner[c] \in MarkRun
         /\ cleaner[c].pc = "countRefs" => cleaner[c] \in FilesRun
         /\ cleaner[c].pc \in TempFilePC
              => cleaner[c] \in FileRun
         /\ cleaner[c].pc = "nextPending" => cleaner[c] \in PendingRun
         /\ cleaner[c].pc \in {"listRefs", "markPending"}
              => cleaner[c] \in PendFileRun
         /\ cleaner[c].pc = "markPendingRefs" => cleaner[c] \in PendRefsRun
BY DEF TypeOK, Runs, TempFilePC, Idle, MarkRun, FilesRun, FileRun, ListRun, PendingRun,
       PendFileRun, PendRefsRun

-----------------------------------------------------------------------------
(* Type correctness.                                                       *)

\* A handler that moves to a well-formed record keeps req well-formed.
LEMMA GotoType ==
  ASSUME TypeOK, NEW q \in Request, NEW r \in Requests, Goto(q, r)
  PROVE  req' \in [Request -> Requests]
BY DEF TypeOK, Goto

\* A cleanup run that moves to a well-formed record keeps cleaner well-formed.
LEMMA CleanToType ==
  ASSUME TypeOK, NEW c \in Cleaner, NEW r \in Runs, CleanTo(c, r)
  PROVE  cleaner' \in [Cleaner -> Runs]
BY DEF TypeOK, CleanTo

\* Writing a status into a row leaves a row.
LEMMA StatusType ==
  ASSUME TypeOK, NEW f \in File, Exists(f), NEW st \in {"pending", "active", "deleted"}
  PROVE  [object EXCEPT ![f].status = st] \in [File -> {NoObject} \cup ObjectRow]
<1>1. object \in [File -> {NoObject} \cup ObjectRow] /\ object[f] # NoObject
  BY DEF TypeOK, Exists, NoObject
<1>2. object[f] \in ObjectRow
  BY <1>1
<1>3. [object[f] EXCEPT !.status = st] \in ObjectRow
  BY <1>2 DEF ObjectRow
<1> QED BY <1>1, <1>3

\* The steps of a request handler preserve the types.
LEMMA RequestStepType ==
  ASSUME TypeOK, NamesExist, NEW q \in Request, RequestStep(q)
  PROVE  TypeOK'
<1> USE UserAssumption, SlotAssumption, TimeAssumption
<1>1. CASE \E u \in User, f \in File, s \in Scene, o \in User,
              temp \in BOOLEAN, direct \in BOOLEAN :
             BeginUpload(q, u, f, s, o, temp, direct)
  <2> PICK u \in User, f \in File, s \in Scene, o \in User,
           temp \in BOOLEAN, direct \in BOOLEAN :
             BeginUpload(q, u, f, s, o, temp, direct)
    BY <1>1
  <2> DEFINE r == [pc |-> "ownerQuota", user |-> u, file |-> f, scene |-> s,
                   owner |-> o, temp |-> temp, direct |-> direct, url |-> NoURL]
  <2>1. r \in Requests
    BY DEF Requests, UploadReq, UploadPC, URL, NoURL
  <2>2. req' \in [Request -> Requests]
    BY <2>1, GotoType DEF BeginUpload
  <2>3. granted' \in [File -> SUBSET User]
    BY DEF BeginUpload, Grant, TypeOK
  <2> QED BY <2>2, <2>3 DEF TypeOK, BeginUpload, Data
<1>2. CASE CheckOwnerQuota(q)
  <2> DEFINE r == [req[q] EXCEPT !.pc = IF req[q].direct THEN "presignPut" ELSE "put"]
  <2>1. req[q] \in UploadReq
    BY <1>2, RequestVariants DEF CheckOwnerQuota, UploadPC
  <2>2. r \in Requests
    BY <2>1 DEF Requests, UploadReq, UploadPC
  <2>3. req' \in [Request -> Requests]
    BY <1>2, <2>2, GotoType DEF CheckOwnerQuota
  <2> QED BY <1>2, <2>3 DEF TypeOK, CheckOwnerQuota, Data
<1>3. CASE PutBytes(q)
  <2>1. req[q] \in UploadReq
    BY <1>3, RequestVariants DEF PutBytes, UploadPC
  <2>2. [req[q] EXCEPT !.pc = "createObject"] \in Requests
    BY <2>1 DEF Requests, UploadReq, UploadPC
  <2>3. req' \in [Request -> Requests]
    BY <1>3, <2>2, GotoType DEF PutBytes
  <2> QED BY <1>3, <2>1, <2>3 DEF TypeOK, PutBytes
<1>4. CASE \E ttl \in PutTTL : PresignPut(q, ttl)
  <2> PICK ttl \in PutTTL : PresignPut(q, ttl)
    BY <1>4
  <2>1. req[q] \in UploadReq
    BY RequestVariants DEF PresignPut, UploadPC
  <2>2. now + ttl \in Nat /\ ttl \in Nat
    BY DEF TypeOK
  <2>3. [req[q] EXCEPT !.pc = "createObject",
                            !.url = [ttl |-> ttl, until |-> now + ttl]] \in Requests
    BY <2>1, <2>2 DEF Requests, UploadReq, UploadPC, URL
  <2>4. req' \in [Request -> Requests]
    BY <2>3, GotoType DEF PresignPut
  <2> QED BY <2>4 DEF TypeOK, PresignPut, Data
<1>5. CASE CreateObject(q)
  <2>1. req[q] \in UploadReq
    BY <1>5, RequestVariants DEF CreateObject, UploadPC
  <2>2. [req[q] EXCEPT !.pc = "createRef"] \in Requests
    BY <2>1 DEF Requests, UploadReq, UploadPC
  <2>3. req' \in [Request -> Requests]
    BY <1>5, <2>2, GotoType DEF CreateObject
  <2>4. [status |-> IF req[q].direct THEN "pending" ELSE "active",
         uploader |-> req[q].user, created |-> now] \in ObjectRow
    BY <2>1 DEF ObjectRow, UploadReq, TypeOK
  <2>5. object' \in [File -> {NoObject} \cup ObjectRow]
    BY <1>5, <2>4 DEF TypeOK, CreateObject
  <2> QED BY <1>5, <2>3, <2>5 DEF TypeOK, CreateObject
<1>6. CASE CreateRef(q)
  <2> DEFINE row == [status |-> IF req[q].temp THEN "temp" ELSE "active",
                     scene |-> req[q].scene, owner |-> req[q].owner,
                     expires |-> IF req[q].temp THEN now + TempTTL ELSE NoExpiry]
  <2>1. req[q] \in UploadReq
    BY <1>6, RequestVariants DEF CreateRef, UploadPC
  <2>2. Idle \in Requests
    BY DEF Requests
  <2>3. req' \in [Request -> Requests]
    BY <1>6, <2>2, GotoType DEF CreateRef
  <2>4. row \in RefRow
    BY <2>1 DEF RefRow, UploadReq, TypeOK, NoExpiry
  <2>5. ref' \in [File -> [Slot -> {NoRef} \cup RefRow]]
    BY <1>6, <2>4 DEF TypeOK, CreateRef
  <2>6. url' \in [File -> URL]
    BY <1>6, <2>1 DEF TypeOK, CreateRef, UploadReq
  <2> QED BY <1>6, <2>3, <2>5, <2>6 DEF TypeOK, CreateRef
<1>7. CASE \E u \in User, f \in File : BeginComplete(q, u, f)
  <2> PICK u \in User, f \in File : BeginComplete(q, u, f)
    BY <1>7
  <2>1. [pc |-> "head", file |-> f] \in Requests
    BY DEF Requests, CompleteReq, CompletePC
  <2>2. req' \in [Request -> Requests]
    BY <2>1, GotoType DEF BeginComplete
  <2> QED BY <2>2 DEF TypeOK, BeginComplete, Data
<1>8. CASE HeadObject(q)
  <2>1. req[q] \in CompleteReq
    BY <1>8, RequestVariants DEF HeadObject, CompletePC
  <2>2. [req[q] EXCEPT !.pc = "activate"] \in Requests
    BY <2>1 DEF Requests, CompleteReq, CompletePC
  <2>3. req' \in [Request -> Requests]
    BY <1>8, <2>2, GotoType DEF HeadObject
  <2> QED BY <1>8, <2>3 DEF TypeOK, HeadObject, Data
<1>9. CASE Activate(q)
  <2>1. req[q] \in CompleteReq
    BY <1>9, RequestVariants DEF Activate, CompletePC
  <2>2. Idle \in Requests
    BY DEF Requests
  <2>3. req' \in [Request -> Requests]
    BY <1>9, <2>2, GotoType DEF Activate
  <2>4. object' \in [File -> {NoObject} \cup ObjectRow]
    BY <1>9, <2>1, StatusType DEF Activate, CompleteReq, NamesExist
  <2>5. revived' \in [File -> Nat]
    BY <1>9, <2>1 DEF Activate, CompleteReq, TypeOK
  <2> QED BY <1>9, <2>3, <2>4, <2>5 DEF TypeOK, Activate
<1>10. CASE \E u \in User, fs \in SUBSET File, s \in Scene, o \in User :
              BeginBind(q, u, fs, s, o)
  <2> PICK u \in User, fs \in SUBSET File, s \in Scene, o \in User :
              BeginBind(q, u, fs, s, o)
    BY <1>10
  <2>1. [pc |-> "bindRefs", files |-> fs, scene |-> s, owner |-> o] \in Requests
    BY DEF Requests, BindReq
  <2>2. req' \in [Request -> Requests]
    BY <2>1, GotoType DEF BeginBind
  <2>3. granted' \in [File -> SUBSET User]
    BY DEF BeginBind, Grant, TypeOK
  <2> QED BY <2>2, <2>3 DEF TypeOK, BeginBind, Data
<1>11. CASE BindRefs(q)
  <2>1. req[q] \in BindReq
    BY <1>11, RequestVariants DEF BindRefs
  <2>2. Idle \in Requests
    BY DEF Requests
  <2>3. req' \in [Request -> Requests]
    BY <1>11, <2>2, GotoType DEF BindRefs
  <2>4. BoundRef(req[q].scene, req[q].owner) \in RefRow
    BY <2>1 DEF BoundRef, RefRow, BindReq, NoExpiry
  <2>5. ref' \in [File -> [Slot -> {NoRef} \cup RefRow]]
    BY <1>11, <2>4 DEF TypeOK, BindRefs
  <2> QED BY <1>11, <2>3, <2>5 DEF TypeOK, BindRefs
<1>12. CASE \E u \in User, fs \in SUBSET File : BeginDelete(q, u, fs)
  <2> PICK u \in User, fs \in SUBSET File : BeginDelete(q, u, fs)
    BY <1>12
  <2>1. [pc |-> "deleteCheck", user |-> u, files |-> fs] \in Requests
    BY DEF Requests, DeleteReq
  <2>2. req' \in [Request -> Requests]
    BY <2>1, GotoType DEF BeginDelete
  <2> QED BY <2>2 DEF TypeOK, BeginDelete, Data
<1>13. CASE \E f \in File : DeleteCheck(q, f)
  <2> PICK f \in File : DeleteCheck(q, f)
    BY <1>13
  <2>1. req[q] \in DeleteReq
    BY RequestVariants DEF DeleteCheck
  <2>2. [pc |-> "delete", user |-> req[q].user,
         files |-> req[q].files \ {f}, file |-> f] \in Requests
    BY <2>1 DEF Requests, DeleteReq, DeletingReq
  <2>3. req' \in [Request -> Requests]
    BY <2>2, GotoType DEF DeleteCheck
  <2> QED BY <2>3 DEF TypeOK, DeleteCheck, Data
<1>14. CASE DeleteObject(q)
  <2> DEFINE r == IF req[q].files = {} THEN Idle
                  ELSE [pc |-> "deleteCheck", user |-> req[q].user,
                        files |-> req[q].files]
  <2>1. req[q] \in DeletingReq
    BY <1>14, RequestVariants DEF DeleteObject
  <2>2. r \in Requests
    BY <2>1 DEF Requests, DeleteReq, DeletingReq
  <2>3. req' \in [Request -> Requests]
    BY <1>14, <2>2, GotoType DEF DeleteObject
  <2>4. object' \in [File -> {NoObject} \cup ObjectRow]
    BY <1>14, <2>1, StatusType DEF DeleteObject, DeletingReq, NamesExist
  <2> QED BY <1>14, <2>3, <2>4 DEF TypeOK, DeleteObject
<1>15. CASE Abort(q)
  <2>1. Idle \in Requests
    BY DEF Requests
  <2>2. req' \in [Request -> Requests]
    BY <1>15, <2>1, GotoType DEF Abort
  <2> QED BY <1>15, <2>2 DEF TypeOK, Abort, Data
<1> QED
  BY <1>1, <1>2, <1>3, <1>4, <1>5, <1>6, <1>7, <1>8, <1>9, <1>10, <1>11,
     <1>12, <1>13, <1>14, <1>15 DEF RequestStep

\* Deleting refs by id leaves rows.
LEMMA MarkedRefType ==
  ASSUME TypeOK, NEW f \in File, NEW k \in Slot, ref[f][k].status # "absent"
  PROVE  [ref[f][k] EXCEPT !.status = "deleted"] \in {NoRef} \cup RefRow
<1>1. ref[f][k] \in {NoRef} \cup RefRow
  BY DEF TypeOK
<1>2. ref[f][k] \in RefRow
  BY <1>1 DEF NoRef
<1> QED BY <1>2 DEF RefRow

\* The steps of a cleanup run preserve the types.
LEMMA CleanStepType ==
  ASSUME TypeOK, NamesExist, NEW c \in Cleaner, CleanStep(c) \/ AbortRun(c)
  PROVE  TypeOK'
<1>0. /\ Idle \in Runs /\ [pc |-> "listPending"] \in Runs
      /\ \A fs \in SUBSET File : PendingTo(fs) \in Runs
  BY DEF Runs, ListRun, PendingRun, PendingTo
<1>1. CASE ListExpired(c)
  <2> DEFINE kept == {f \in File : \E k \in Slot : ref[f][k].status = "active"}
  <2>1. [pc |-> "markRefs", expired |-> ExpiredTempRefs, kept |-> kept] \in Runs
    BY DEF Runs, MarkRun, ExpiredTempRefs
  <2>2. cleaner' \in [Cleaner -> Runs]
    BY <1>0, <1>1, <2>1, CleanToType DEF ListExpired
  <2> QED BY <1>1, <2>2 DEF TypeOK, ListExpired, Data
<1>2. CASE MarkExpired(c)
  <2>1. cleaner[c] \in MarkRun
    BY <1>2, RunVariants DEF MarkExpired
  <2>2. [pc |-> "countRefs", files |-> {r[1] : r \in cleaner[c].expired},
         kept |-> cleaner[c].kept] \in Runs
    BY <2>1 DEF Runs, FilesRun, MarkRun
  <2>3. cleaner' \in [Cleaner -> Runs]
    BY <1>2, <2>2, CleanToType DEF MarkExpired
  <2>4. \A f \in File, k \in Slot : <<f, k>> \in cleaner[c].expired
          => ref[f][k].status # "absent"
    BY <1>2 DEF NamesExist, MarkExpired
  <2>5. ref' \in [File -> [Slot -> {NoRef} \cup RefRow]]
    BY <1>2, <2>4, MarkedRefType DEF MarkExpired, TypeOK
  <2> QED BY <1>2, <2>3, <2>5 DEF TypeOK, MarkExpired
<1>3. ASSUME cleaner[c] \in FileRun
      PROVE  NextFile(c) \in Runs
  BY <1>0, <1>3 DEF NextFile, Runs, FileRun, FilesRun
<1>4. CASE \E f \in File : CountRefs(c, f)
  <2> PICK f \in File : CountRefs(c, f)
    BY <1>4
  <2> DEFINE rest == cleaner[c].files \ {f}
  <2>1. cleaner[c] \in FilesRun
    BY RunVariants DEF CountRefs
  <2>2. /\ [pc |-> "getObject", files |-> rest, file |-> f,
            kept |-> cleaner[c].kept] \in Runs
        /\ [pc |-> "countRefs", files |-> rest, kept |-> cleaner[c].kept] \in Runs
    BY <2>1 DEF Runs, FilesRun, FileRun, TempFilePC
  <2>3. cleaner' \in [Cleaner -> Runs]
    BY <1>0, <2>2, CleanToType DEF CountRefs
  <2> QED BY <2>3 DEF TypeOK, CountRefs, Data
<1>5. CASE GetObject(c)
  <2>1. cleaner[c] \in FileRun
    BY <1>5, RunVariants DEF GetObject, TempFilePC
  <2>2. [cleaner[c] EXCEPT !.pc = "deleteBytes"] \in Runs
    BY <2>1 DEF Runs, FileRun, TempFilePC
  <2>3. cleaner' \in [Cleaner -> Runs]
    BY <1>3, <1>5, <2>1, <2>2, CleanToType DEF GetObject
  <2> QED BY <1>5, <2>3 DEF TypeOK, GetObject, Data
<1>6. CASE DeleteBytes(c)
  <2>1. cleaner[c] \in FileRun
    BY <1>6, RunVariants DEF DeleteBytes, TempFilePC
  <2>2. [cleaner[c] EXCEPT !.pc = "markObject"] \in Runs
    BY <2>1 DEF Runs, FileRun, TempFilePC
  <2>3. cleaner' \in [Cleaner -> Runs]
    BY <1>6, <2>2, CleanToType DEF DeleteBytes
  <2> QED BY <1>6, <2>3 DEF TypeOK, DeleteBytes
<1>7. CASE MarkObject(c)
  <2>1. cleaner[c] \in FileRun /\ Exists(cleaner[c].file)
    BY <1>7, RunVariants DEF MarkObject, TempFilePC, FilePC, NamesExist
  <2>2. cleaner' \in [Cleaner -> Runs]
    BY <1>3, <1>7, <2>1, CleanToType DEF MarkObject
  <2>3. object' \in [File -> {NoObject} \cup ObjectRow]
    BY <1>7, <2>1, StatusType DEF MarkObject, FileRun
  <2> QED BY <1>7, <2>2, <2>3 DEF TypeOK, MarkObject
<1>8. CASE ListPending(c)
  <2>1. StalePending \in SUBSET File
    BY DEF StalePending
  <2>2. cleaner' \in [Cleaner -> Runs]
    BY <1>0, <1>8, <2>1, CleanToType DEF ListPending
  <2> QED BY <1>8, <2>2 DEF TypeOK, ListPending, Data
<1>9. CASE \E f \in File : DeletePendingBytes(c, f)
  <2> PICK f \in File : DeletePendingBytes(c, f)
    BY <1>9
  <2>1. cleaner[c] \in PendingRun
    BY RunVariants DEF DeletePendingBytes, IsNext
  <2>2. [pc |-> "listRefs", files |-> cleaner[c].files \ {f}, file |-> f] \in Runs
    BY <2>1 DEF Runs, PendingRun, PendFileRun
  <2>3. cleaner' \in [Cleaner -> Runs]
    BY <2>2, CleanToType DEF DeletePendingBytes, IsNext
  <2> QED BY <2>3 DEF TypeOK, DeletePendingBytes
<1>10. CASE ListPendingRefs(c)
  <2>1. cleaner[c] \in PendFileRun
    BY <1>10, RunVariants DEF ListPendingRefs
  <2>2. /\ [cleaner[c] EXCEPT !.pc = "markPending"] \in Runs
        /\ [pc |-> "markPendingRefs", files |-> cleaner[c].files,
            file |-> cleaner[c].file, slots |-> LiveSlots(cleaner[c].file)] \in Runs
    BY <2>1 DEF Runs, PendFileRun, PendRefsRun, LiveSlots
  <2>3. cleaner' \in [Cleaner -> Runs]
    BY <1>10, <2>2, CleanToType DEF ListPendingRefs
  <2> QED BY <1>10, <2>3 DEF TypeOK, ListPendingRefs, Data
<1>11. CASE MarkPendingRefs(c)
  <2>1. cleaner[c] \in PendRefsRun
    BY <1>11, RunVariants DEF MarkPendingRefs
  <2>2. [pc |-> "markPending", files |-> cleaner[c].files,
         file |-> cleaner[c].file] \in Runs
    BY <2>1 DEF Runs, PendRefsRun, PendFileRun
  <2>3. cleaner' \in [Cleaner -> Runs]
    BY <1>11, <2>2, CleanToType DEF MarkPendingRefs
  <2>4. \A k \in cleaner[c].slots : ref[cleaner[c].file][k].status # "absent"
    BY <1>11 DEF NamesExist, MarkPendingRefs
  <2>5. [k \in Slot |-> IF k \in cleaner[c].slots
           THEN [ref[cleaner[c].file][k] EXCEPT !.status = "deleted"]
           ELSE ref[cleaner[c].file][k]] \in [Slot -> {NoRef} \cup RefRow]
    BY <2>1, <2>4, MarkedRefType DEF PendRefsRun, TypeOK
  <2>6. ref' \in [File -> [Slot -> {NoRef} \cup RefRow]]
    BY <1>11, <2>5 DEF MarkPendingRefs, TypeOK
  <2> QED BY <1>11, <2>3, <2>6 DEF TypeOK, MarkPendingRefs
<1>12. CASE MarkPending(c)
  <2>1. cleaner[c] \in PendFileRun /\ Exists(cleaner[c].file)
    BY <1>12, RunVariants DEF MarkPending, PendFilePC, FilePC, NamesExist
  <2>2. cleaner' \in [Cleaner -> Runs]
    BY <1>0, <1>12, <2>1, CleanToType DEF MarkPending, PendFileRun
  <2>3. object' \in [File -> {NoObject} \cup ObjectRow]
    BY <1>12, <2>1, StatusType DEF MarkPending, PendFileRun
  <2> QED BY <1>12, <2>2, <2>3 DEF TypeOK, MarkPending
<1>13. CASE AbortRun(c)
  <2>1. cleaner' \in [Cleaner -> Runs]
    BY <1>0, <1>13, CleanToType DEF AbortRun
  <2> QED BY <1>13, <2>1 DEF TypeOK, AbortRun, Data
<1>14. CASE StorageFails(c)
  <2>1. cleaner' \in [Cleaner -> Runs]
    BY <1>0, <1>14, CleanToType DEF StorageFails
  <2> QED BY <1>14, <2>1 DEF TypeOK, StorageFails, Data
<1> QED
  BY <1>1, <1>2, <1>4, <1>5, <1>6, <1>7, <1>8, <1>9, <1>10, <1>11, <1>12,
     <1>13, <1>14 DEF CleanStep

-----------------------------------------------------------------------------
(* Nothing names a row that does not exist.                                *)

\* No step removes an object row or a ref row.
LEMMA RowsStay ==
  ASSUME TypeOK, NamesExist, [Next]_vars
  PROVE  /\ \A f \in File : Exists(f) => Exists(f)'
         /\ \A f \in File, k \in Slot :
              ref[f][k].status # "absent" => ref'[f][k].status # "absent"
<1> USE DEF Exists
<1>1. ASSUME NEW q \in Request, RequestStep(q)
      PROVE  /\ \A f \in File : Exists(f) => Exists(f)'
             /\ \A f \in File, k \in Slot :
                  ref[f][k].status # "absent" => ref'[f][k].status # "absent"
  <2>1. CASE CreateObject(q)
    BY <2>1 DEF CreateObject, TypeOK
  <2>2. CASE CreateRef(q)
    BY <2>2 DEF CreateRef, TypeOK
  <2>3. CASE Activate(q)
    BY <2>3 DEF Activate, TypeOK
  <2>4. CASE BindRefs(q)
    BY <2>4 DEF BindRefs, BoundRef, TypeOK
  <2>5. CASE DeleteObject(q)
    BY <2>5 DEF DeleteObject, TypeOK
  <2>6. CASE UNCHANGED <<object, ref>>
    BY <2>6
  <2> QED
    BY <1>1, <2>1, <2>2, <2>3, <2>4, <2>5, <2>6
    DEF RequestStep, BeginUpload, CheckOwnerQuota, PutBytes, PresignPut,
        BeginComplete, HeadObject, BeginBind, BeginDelete, DeleteCheck, Abort, Data
<1>2. ASSUME NEW c \in Cleaner, CleanStep(c) \/ AbortRun(c)
      PROVE  /\ \A f \in File : Exists(f) => Exists(f)'
             /\ \A f \in File, k \in Slot :
                  ref[f][k].status # "absent" => ref'[f][k].status # "absent"
  <2>1. CASE MarkExpired(c)
    BY <2>1, MarkedRefType DEF MarkExpired, TypeOK, RefRow
  <2>2. CASE MarkObject(c)
    BY <2>2 DEF MarkObject, TypeOK
  <2>3. CASE MarkPendingRefs(c)
    BY <2>3 DEF MarkPendingRefs, TypeOK
  <2>4. CASE MarkPending(c)
    BY <2>4 DEF MarkPending, TypeOK
  <2>5. CASE UNCHANGED <<object, ref>>
    BY <2>5
  <2> QED
    BY <1>2, <2>1, <2>2, <2>3, <2>4, <2>5
    DEF CleanStep, StorageFails, AbortRun, ListExpired, CountRefs, GetObject, DeleteBytes,
        ListPending, DeletePendingBytes, ListPendingRefs, Data
<1> QED
  BY <1>1, <1>2 DEF Next, ClientPut, LoseStorage, Tick, Data, vars

\* What NamesExist says of one handler and of one run, and that a step which
\* leaves their records alone leaves it true.
RequestNames(q) ==
  /\ req[q].pc \in {"createRef", "head", "activate", "delete"}
       => Exists(req[q].file)
  /\ req[q].pc = "bindRefs" => \A f \in req[q].files : Exists(f)

RunNames(c) ==
  /\ cleaner[c].pc = "markRefs"
       => \A r \in cleaner[c].expired : ref[r[1]][r[2]].status # "absent"
  /\ cleaner[c].pc \in FilesPC => \A f \in cleaner[c].files : Exists(f)
  /\ cleaner[c].pc \in FilePC => Exists(cleaner[c].file)
  /\ cleaner[c].pc = "markPendingRefs"
       => \A k \in cleaner[c].slots : ref[cleaner[c].file][k].status # "absent"

RefNames ==
  \A f \in File, k \in Slot : ref[f][k].status # "absent" => Exists(f)

\* NamesExist, actor by actor.
LEMMA NamesByActor ==
  NamesExist <=> /\ RefNames
                 /\ \A q \in Request : RequestNames(q)
                 /\ \A c \in Cleaner : RunNames(c)
BY DEF NamesExist, RefNames, RequestNames, RunNames

\* What a handler names stays while the handler does not move.
LEMMA RequestNamesStay ==
  ASSUME TypeOK, NamesExist, [Next]_vars, NEW q \in Request, req'[q] = req[q]
  PROVE  RequestNames(q)'
<1>1. req[q].pc \in {"createRef", "head", "activate", "delete"}
        => req[q].file \in File
  BY RequestVariants DEF UploadPC, CompletePC, UploadReq, CompleteReq, DeletingReq
<1>2. req[q].pc = "bindRefs" => req[q].files \subseteq File
  BY RequestVariants DEF BindReq
<1>3. RequestNames(q)
  BY NamesByActor
<1> QED
  BY <1>1, <1>2, <1>3, RowsStay DEF RequestNames

\* What a cleanup run names stays while the run does not move.
LEMMA RunNamesStay ==
  ASSUME TypeOK, NamesExist, [Next]_vars, NEW c \in Cleaner, cleaner'[c] = cleaner[c]
  PROVE  RunNames(c)'
<1>1. cleaner[c].pc = "markRefs" => cleaner[c].expired \subseteq File \X Slot
  BY RunVariants DEF MarkRun
<1>2. cleaner[c].pc \in FilesPC => cleaner[c].files \subseteq File
  BY RunVariants DEF FilesPC, FilePC, TempFilePC, PendFilePC, FilesRun, FileRun,
                     PendingRun, PendFileRun, PendRefsRun
<1>3. cleaner[c].pc \in FilePC => cleaner[c].file \in File
  BY RunVariants DEF FilePC, TempFilePC, PendFilePC, FileRun, PendFileRun, PendRefsRun
<1>4. cleaner[c].pc = "markPendingRefs"
        => cleaner[c].file \in File /\ cleaner[c].slots \subseteq Slot
  BY RunVariants DEF PendRefsRun
<1>5. RunNames(c)
  BY NamesByActor
<1> QED
  BY <1>1, <1>2, <1>3, <1>4, <1>5, RowsStay DEF RunNames

\* The steps of a request handler preserve NamesExist.
LEMMA RequestStepNames ==
  ASSUME TypeOK, NamesExist, NEW q \in Request, RequestStep(q)
  PROVE  NamesExist'
<1>1. [Next]_vars
  BY DEF Next
<1>2. /\ \A p \in Request \ {q} : req'[p] = req[p]
      /\ cleaner' = cleaner
  BY DEF TypeOK, RequestStep, BeginUpload, CheckOwnerQuota, PutBytes, PresignPut,
         CreateObject, CreateRef, BeginComplete, HeadObject, Activate, BeginBind,
         BindRefs, BeginDelete, DeleteCheck, DeleteObject, Abort, Goto
<1>3. \A p \in Request \ {q} : RequestNames(p)'
  BY <1>1, <1>2, RequestNamesStay
<1>4. \A c \in Cleaner : RunNames(c)'
  BY <1>1, <1>2, RunNamesStay
<1>5. RefNames'
  <2>0. RefNames
    BY NamesByActor
  <2>1. CASE CreateRef(q)
    <3>1. object'[req[q].file].status # "absent"
      <4>1. req[q].file \in File /\ Exists(req[q].file)
        BY <2>1, RequestVariants DEF CreateRef, NamesExist, UploadPC, UploadReq
      <4> QED BY <1>1, <4>1, RowsStay DEF Exists
    <3> QED BY <1>1, <2>0, <2>1, <3>1, RowsStay DEF RefNames, CreateRef, TypeOK, Exists
  <2>2. CASE BindRefs(q)
    <3>1. \A f \in req[q].files : Exists(f)
      BY <2>2 DEF BindRefs, NamesExist
    <3>2. \A f \in File, k \in Slot : ref'[f][k].status # "absent" => Exists(f)
      BY <2>0, <2>2, <3>1 DEF RefNames, BindRefs
    <3> QED BY <1>1, <3>2, RowsStay DEF RefNames
  <2>3. CASE UNCHANGED ref
    BY <1>1, <2>0, <2>3, RowsStay DEF RefNames
  <2> QED
    BY <2>1, <2>2, <2>3
    DEF RequestStep, BeginUpload, CheckOwnerQuota, PutBytes, PresignPut,
        CreateObject, BeginComplete, HeadObject, Activate, BeginBind,
        BeginDelete, DeleteCheck, DeleteObject, Abort, Data
<1>6. RequestNames(q)'
  <2>1. CASE CreateObject(q)
    <3>1. req[q].file \in File
      BY <2>1, RequestVariants DEF CreateObject, UploadPC, UploadReq
    <3>2. req'[q].pc = "createRef" /\ req'[q].file = req[q].file
      BY <2>1, RequestVariants DEF CreateObject, Goto, TypeOK, UploadPC, UploadReq
    <3>3. object'[req[q].file].status \in {"pending", "active"}
      BY <2>1, <3>1 DEF CreateObject, TypeOK
    <3> QED BY <3>2, <3>3 DEF RequestNames, Exists
  <2>2. CASE \E u \in User, f \in File : BeginComplete(q, u, f)
    BY <1>1, <2>2, RowsStay DEF BeginComplete, Goto, TypeOK, RequestNames, Accessible
  <2>3. CASE HeadObject(q)
    <3>1. req[q].file \in File /\ Exists(req[q].file)
      BY <2>3, RequestVariants DEF HeadObject, CompletePC, CompleteReq, NamesExist
    <3>2. req'[q].pc = "activate" /\ req'[q].file = req[q].file
      BY <2>3, RequestVariants DEF HeadObject, Goto, TypeOK, CompletePC, CompleteReq
    <3> QED BY <1>1, <3>1, <3>2, RowsStay DEF RequestNames
  <2>4. CASE \E u \in User, fs \in SUBSET File, s \in Scene, o \in User :
               BeginBind(q, u, fs, s, o)
    BY <1>1, <2>4, RowsStay DEF BeginBind, Goto, TypeOK, RequestNames, Accessible
  <2>5. CASE \E f \in File : DeleteCheck(q, f)
    BY <1>1, <2>5, RowsStay DEF DeleteCheck, Goto, TypeOK, RequestNames, Accessible
  <2>6. CASE req'[q].pc \in {"idle", "ownerQuota", "put", "presignPut",
                              "createObject", "deleteCheck"}
    BY <2>6 DEF RequestNames
  <2>7. CASE CheckOwnerQuota(q)
    <3>1. req[q] \in UploadReq
      BY <2>7, RequestVariants DEF CheckOwnerQuota, UploadPC
    <3>2. req'[q].pc \in {"put", "presignPut"}
      BY <2>7, <3>1 DEF CheckOwnerQuota, Goto, TypeOK, UploadReq
    <3> QED BY <3>2, <2>6
  <2>8. CASE PutBytes(q) \/ \E ttl \in PutTTL : PresignPut(q, ttl)
    <3>1. req[q] \in UploadReq
      BY <2>8, RequestVariants DEF PutBytes, PresignPut, UploadPC
    <3>2. CASE PutBytes(q)
      BY <2>6, <3>1, <3>2 DEF PutBytes, Goto, TypeOK, UploadReq
    <3>3. CASE \E ttl \in PutTTL : PresignPut(q, ttl)
      <4> PICK ttl \in PutTTL : PresignPut(q, ttl)
        BY <3>3
      <4>1. req'[q] = [req[q] EXCEPT !.pc = "createObject",
                            !.url = [ttl |-> ttl, until |-> now + ttl]]
        BY DEF PresignPut, Goto, TypeOK
      <4>2. req'[q].pc = "createObject"
        BY <3>1, <4>1 DEF UploadReq
      <4> QED BY <2>6, <4>2
    <3> QED BY <2>8, <3>2, <3>3
  <2>9. CASE \E u \in User, f \in File, s \in Scene, o \in User,
                temp \in BOOLEAN, direct \in BOOLEAN :
               BeginUpload(q, u, f, s, o, temp, direct)
    <3>1. req'[q].pc = "ownerQuota"
      BY <2>9 DEF BeginUpload, Goto, TypeOK
    <3> QED BY <2>6, <3>1
  <2>11. CASE \E u \in User, fs \in SUBSET File : BeginDelete(q, u, fs)
    <3>1. req'[q].pc = "deleteCheck"
      BY <2>11 DEF BeginDelete, Goto, TypeOK
    <3> QED BY <2>6, <3>1
  <2>10. CASE CreateRef(q) \/ Activate(q) \/ BindRefs(q) \/ DeleteObject(q) \/ Abort(q)
    BY <2>6, <2>10 DEF CreateRef, Activate, BindRefs, DeleteObject, Abort, Goto,
                       Idle, TypeOK
  <2> QED
    BY <2>1, <2>2, <2>3, <2>4, <2>5, <2>7, <2>8, <2>9, <2>10, <2>11 DEF RequestStep
<1> QED
  BY <1>3, <1>4, <1>5, <1>6 DEF NamesExist, RefNames, RequestNames, RunNames

\* The steps of a cleanup run preserve NamesExist.
LEMMA CleanStepNames ==
  ASSUME TypeOK, NamesExist, NEW c \in Cleaner, CleanStep(c) \/ AbortRun(c)
  PROVE  NamesExist'
<1>1. [Next]_vars
  BY DEF Next
<1>2. /\ \A d \in Cleaner \ {c} : cleaner'[d] = cleaner[d]
      /\ req' = req
  BY DEF TypeOK, CleanStep, ListExpired, MarkExpired, CountRefs, GetObject,
         DeleteBytes, MarkObject, ListPending, DeletePendingBytes, ListPendingRefs,
         MarkPendingRefs, MarkPending, StorageFails, AbortRun, CleanTo
<1>3. \A d \in Cleaner \ {c} : RunNames(d)'
  BY <1>1, <1>2, RunNamesStay
<1>4. \A q \in Request : RequestNames(q)'
  BY <1>1, <1>2, RequestNamesStay
<1>5. RefNames /\ RunNames(c)
  BY NamesByActor
<1>6. RefNames'
  <2>1. \A f \in File, k \in Slot :
          ref'[f][k].status # "absent" => ref[f][k].status # "absent"
    <3>1. CASE MarkExpired(c)
      BY <1>5, <3>1 DEF RunNames, MarkExpired
    <3>2. CASE MarkPendingRefs(c)
      <4>1. cleaner[c] \in PendRefsRun
        BY <3>2, RunVariants DEF MarkPendingRefs
      <4> QED BY <1>5, <3>2, <4>1 DEF RunNames, MarkPendingRefs, PendRefsRun, TypeOK
    <3>3. CASE UNCHANGED ref
      BY <3>3
    <3> QED
      BY <3>1, <3>2, <3>3
      DEF CleanStep, ListExpired, CountRefs, GetObject, DeleteBytes, MarkObject,
          ListPending, DeletePendingBytes, ListPendingRefs, MarkPending, StorageFails, AbortRun, Data
  <2> QED BY <1>1, <1>5, <2>1, RowsStay DEF RefNames
<1>7. RunNames(c)'
  <2> USE <1>1, RowsStay DEF FilesPC, FilePC, TempFilePC, PendFilePC
  <2>0. /\ Idle.pc = "idle"
        /\ \A fs : PendingTo(fs).pc \in {"idle", "nextPending"}
        /\ \A fs : PendingTo(fs).pc = "nextPending" => PendingTo(fs).files = fs
    BY DEF Idle, PendingTo
  <2>1. CASE ListExpired(c)
    <3>1. \A r \in ExpiredTempRefs :
             r \in File \X Slot /\ ref[r[1]][r[2]].status # "absent"
      BY DEF ExpiredTempRefs
    <3>2. ref' = ref
      BY <2>1 DEF ListExpired, Data
    <3> QED BY <2>1, <3>1, <3>2 DEF ListExpired, CleanTo, TypeOK, RunNames
  <2>2. CASE MarkExpired(c)
    <3>1. cleaner[c] \in MarkRun
      BY <2>2, RunVariants DEF MarkExpired
    <3>2. \A r \in cleaner[c].expired : r[1] \in File /\ Exists(r[1])
      BY <1>5, <2>2, <3>1 DEF RunNames, RefNames, MarkExpired, MarkRun
    <3>3. \A r \in cleaner[c].expired : object'[r[1]].status # "absent"
      BY <3>2 DEF Exists
    <3>4. /\ cleaner'[c].pc = "countRefs"
          /\ cleaner'[c].files = {r[1] : r \in cleaner[c].expired}
      BY <2>2 DEF MarkExpired, CleanTo, TypeOK
    <3> QED BY <3>3, <3>4 DEF RunNames, Exists
  <2>3. CASE \E f \in File : CountRefs(c, f)
    <3> PICK f \in File : CountRefs(c, f)
      BY <2>3
    <3>1. cleaner[c] \in FilesRun /\ \A g \in cleaner[c].files : Exists(g)
      BY <1>5, RunVariants DEF CountRefs, RunNames
    <3>2. \A g \in cleaner[c].files : object'[g].status # "absent"
      BY <3>1 DEF Exists, FilesRun
    <3> QED BY <3>2 DEF CountRefs, CleanTo, TypeOK, RunNames, Exists
  <2>4. CASE GetObject(c) \/ DeleteBytes(c) \/ MarkObject(c)
    <3>1. /\ cleaner[c] \in FileRun /\ Exists(cleaner[c].file)
          /\ \A g \in cleaner[c].files : Exists(g)
      BY <1>5, <2>4, RunVariants DEF GetObject, DeleteBytes, MarkObject, RunNames
    <3>2. /\ object'[cleaner[c].file].status # "absent"
          /\ \A g \in cleaner[c].files : object'[g].status # "absent"
      BY <3>1 DEF Exists, FileRun
    <3>3. /\ cleaner'[c].pc \in {"listPending", "countRefs", "deleteBytes", "markObject"}
          /\ cleaner'[c].pc # "listPending" => cleaner'[c].files = cleaner[c].files
          /\ cleaner'[c].pc \in {"deleteBytes", "markObject"}
               => cleaner'[c].file = cleaner[c].file
      BY <2>4, <3>1 DEF GetObject, DeleteBytes, MarkObject, NextFile, CleanTo,
                        TypeOK, FileRun
    <3> QED BY <3>2, <3>3 DEF RunNames, Exists
  <2>5. CASE ListPending(c)
    <3>1. \A f \in StalePending : f \in File /\ Exists(f)
      BY DEF StalePending, Exists
    <3>2. \A f \in StalePending : object'[f].status # "absent"
      BY <3>1 DEF Exists
    <3>3. cleaner'[c] = PendingTo(StalePending)
      BY <2>5 DEF ListPending, CleanTo, TypeOK
    <3> QED BY <2>0, <3>2, <3>3 DEF RunNames, Exists
  <2>6. CASE \E f \in File : DeletePendingBytes(c, f)
    <3> PICK f \in File : DeletePendingBytes(c, f)
      BY <2>6
    <3>1. cleaner[c] \in PendingRun /\ \A g \in cleaner[c].files : Exists(g)
      BY <1>5, RunVariants DEF DeletePendingBytes, IsNext, RunNames
    <3>2. \A g \in cleaner[c].files : object'[g].status # "absent"
      BY <3>1 DEF Exists, PendingRun
    <3> QED BY <3>2 DEF DeletePendingBytes, IsNext, CleanTo, TypeOK, RunNames, Exists
  <2>7. CASE ListPendingRefs(c)
    <3>1. /\ cleaner[c] \in PendFileRun /\ Exists(cleaner[c].file)
          /\ \A g \in cleaner[c].files : Exists(g)
      BY <1>5, <2>7, RunVariants DEF ListPendingRefs, RunNames
    <3>2. /\ object'[cleaner[c].file].status # "absent"
          /\ \A g \in cleaner[c].files : object'[g].status # "absent"
      BY <3>1 DEF Exists, PendFileRun
    <3>3. /\ cleaner'[c].pc \in {"markPending", "markPendingRefs"}
          /\ cleaner'[c].files = cleaner[c].files
          /\ cleaner'[c].file = cleaner[c].file
          /\ cleaner'[c].pc = "markPendingRefs"
               => cleaner'[c].slots = LiveSlots(cleaner[c].file)
      BY <2>7, <3>1 DEF ListPendingRefs, CleanTo, TypeOK, PendFileRun
    <3>4. \A k \in LiveSlots(cleaner[c].file) :
             ref'[cleaner[c].file][k].status # "absent"
      BY <2>7 DEF LiveSlots, Live, ListPendingRefs, Data
    <3> QED BY <3>2, <3>3, <3>4 DEF RunNames, Exists
  <2>8. CASE MarkPendingRefs(c)
    <3>1. /\ cleaner[c] \in PendRefsRun /\ Exists(cleaner[c].file)
          /\ \A g \in cleaner[c].files : Exists(g)
      BY <1>5, <2>8, RunVariants DEF MarkPendingRefs, RunNames
    <3>2. /\ object'[cleaner[c].file].status # "absent"
          /\ \A g \in cleaner[c].files : object'[g].status # "absent"
      BY <3>1 DEF Exists, PendRefsRun
    <3> QED BY <2>8, <3>2 DEF MarkPendingRefs, CleanTo, TypeOK, RunNames, Exists
  <2>9. CASE MarkPending(c)
    <3>1. cleaner[c] \in PendFileRun /\ \A g \in cleaner[c].files : Exists(g)
      BY <1>5, <2>9, RunVariants DEF MarkPending, RunNames
    <3>2. \A g \in cleaner[c].files : object'[g].status # "absent"
      BY <3>1 DEF Exists, PendFileRun
    <3>3. cleaner'[c] = PendingTo(cleaner[c].files)
      BY <2>9 DEF MarkPending, CleanTo, TypeOK
    <3> QED BY <2>0, <3>2, <3>3 DEF RunNames, Exists
  <2>10. CASE AbortRun(c) \/ StorageFails(c)
    BY <2>0, <2>10 DEF AbortRun, StorageFails, CleanTo, TypeOK, RunNames
  <2> QED
    BY <2>1, <2>2, <2>3, <2>4, <2>5, <2>6, <2>7, <2>8, <2>9, <2>10 DEF CleanStep
<1> QED
  BY <1>3, <1>4, <1>6, <1>7 DEF NamesExist, RefNames, RequestNames, RunNames

-----------------------------------------------------------------------------
(* The typing theorem.                                                     *)

\* Every state is well-typed, and no step ever writes by id to a row that was
\* not created: refs, handlers and cleanup runs name existing rows only.
THEOREM TypeCorrect == Spec => [](TypeOK /\ NamesExist)
<1>1. Init => TypeOK /\ NamesExist
  BY TimeAssumption DEF Init, TypeOK, NamesExist, Requests, Runs, Idle, NoObject,
     NoRef, NoURL, URL, FilesPC, FilePC, TempFilePC, PendFilePC
<1>2. TypeOK /\ NamesExist /\ [Next]_vars => (TypeOK /\ NamesExist)'
  <2> SUFFICES ASSUME TypeOK, NamesExist, [Next]_vars
               PROVE  (TypeOK /\ NamesExist)'
    OBVIOUS
  <2>1. CASE \E q \in Request : RequestStep(q)
    BY <2>1, RequestStepType, RequestStepNames
  <2>2. CASE \E c \in Cleaner : CleanStep(c) \/ AbortRun(c)
    BY <2>2, CleanStepType, CleanStepNames
  <2>3. CASE (\E f \in File, content \in Content : ClientPut(f, content))
             \/ (\E f \in File : LoseStorage(f)) \/ Tick \/ UNCHANGED vars
    <3>1. TypeOK'
      BY <2>3, PresignAssumption DEF TypeOK, ClientPut, LoseStorage, Tick, Data, vars
    <3>2. UNCHANGED <<object, ref, req, cleaner>>
      BY <2>3 DEF ClientPut, LoseStorage, Tick, Data, vars
    <3>3. NamesExist'
      BY <3>2 DEF NamesExist, Exists
    <3> QED BY <3>1, <3>3
  <2> QED BY <2>1, <2>2, <2>3 DEF Next
<1> QED BY <1>1, <1>2, PTL DEF Spec

-----------------------------------------------------------------------------
(* The overshoot of the file quota.                                        *)

\* The handlers that will write, or may write, a row they hold the name of.
Claiming == {q \in Request : req[q].pc \in UploadPC \cup CompletePC}

\* The files that count against the quota now or may before another check.
Claimed == UsedFiles \cup {req[q].file : q \in Claiming}

ClaimsBounded ==
  MaxTotalFiles > 0 =>
    Cardinality(Claimed) <= MaxTotalFiles - 1 + Cardinality(Request)

\* Claims are files, so there are finitely many.
LEMMA ClaimedFinite ==
  ASSUME TypeOK
  PROVE  Claimed \subseteq File /\ IsFiniteSet(Claimed)
<1>1. \A q \in Claiming : req[q].file \in File
  BY RequestVariants DEF Claiming, UploadReq, CompleteReq
<1>2. Claimed \subseteq File
  BY <1>1 DEF Claimed, UsedFiles
<1> QED BY <1>2, FileAssumption, FS_Subset

\* The files of a set of claiming handlers are at most as many as they.
LEMMA FilesOfHandlers ==
  ASSUME NEW Q, Q \subseteq Request
  PROVE  LET T == {req[q].file : q \in Q}
         IN  /\ IsFiniteSet(T)
             /\ Cardinality(T) <= Cardinality(Q)
<1> DEFINE T == {req[q].file : q \in Q}
           g == [q \in Q |-> req[q].file]
<1>1. IsFiniteSet(Q)
  BY FileAssumption, FS_Subset
<1>2. g \in Surjection(Q, T)
  BY DEF Surjection
<1> QED BY <1>1, <1>2, FS_Surjection

\* A step that starts no upload adds no claim: what becomes pending or active
\* was claimed by the handler that writes it.
LEMMA ClaimsOnlyShrink ==
  ASSUME TypeOK, NEW q \in Request, RequestStep(q),
         ~ \E u \in User, f \in File, s \in Scene, o \in User,
              temp \in BOOLEAN, direct \in BOOLEAN :
             BeginUpload(q, u, f, s, o, temp, direct)
  PROVE  Claimed' \subseteq Claimed
<1>1. \A p \in Request \ {q} : req'[p] = req[p]
  BY DEF TypeOK, RequestStep, BeginUpload, CheckOwnerQuota, PutBytes, PresignPut,
         CreateObject, CreateRef, BeginComplete, HeadObject, Activate, BeginBind,
         BindRefs, BeginDelete, DeleteCheck, DeleteObject, Abort, Goto
<1>2. SUFFICES /\ \A f \in File : object'[f].status \in {"pending", "active"}
                    => f \in Claimed
               /\ req'[q].pc \in UploadPC \cup CompletePC => req'[q].file \in Claimed
  BY <1>1 DEF Claimed, UsedFiles, Claiming
<1>3. CASE CreateObject(q) \/ Activate(q)
  <2>1. q \in Claiming
    BY <1>3 DEF Claiming, CreateObject, Activate, UploadPC, CompletePC
  <2>2. \A f \in File : object'[f] # object[f] => f = req[q].file
    BY <1>3 DEF CreateObject, Activate, TypeOK
  <2>3. req[q] \in UploadReq \cup CompleteReq
    BY <2>1, RequestVariants DEF Claiming
  <2>4. req'[q].pc = "idle" \/ req'[q].file = req[q].file
    BY <1>3, <2>3 DEF CreateObject, Activate, Goto, Idle, TypeOK, UploadReq, CompleteReq
  <2> QED BY <2>1, <2>2, <2>4 DEF Claimed, UsedFiles, UploadPC, CompletePC
<1>4. CASE CheckOwnerQuota(q) \/ PutBytes(q) \/ HeadObject(q)
  <2>1. q \in Claiming /\ UNCHANGED object
    BY <1>4 DEF Claiming, CheckOwnerQuota, PutBytes, HeadObject, UploadPC,
                CompletePC, Data
  <2>2. req[q] \in UploadReq \cup CompleteReq
    BY <2>1, RequestVariants DEF Claiming
  <2>3. req'[q].file = req[q].file
    BY <1>4, <2>2 DEF CheckOwnerQuota, PutBytes, HeadObject, Goto, TypeOK,
                      UploadReq, CompleteReq
  <2> QED BY <2>1, <2>3 DEF Claimed, UsedFiles
<1>5. CASE \E ttl \in PutTTL : PresignPut(q, ttl)
  <2> PICK ttl \in PutTTL : PresignPut(q, ttl)
    BY <1>5
  <2>1. q \in Claiming /\ UNCHANGED object
    BY DEF Claiming, PresignPut, UploadPC, Data
  <2>2. req'[q] = [req[q] EXCEPT !.pc = "createObject",
                            !.url = [ttl |-> ttl, until |-> now + ttl]]
    BY DEF PresignPut, Goto, TypeOK
  <2>3. req[q] \in UploadReq
    BY RequestVariants DEF PresignPut, UploadPC
  <2>4. req'[q].file = req[q].file
    BY <2>2, <2>3 DEF UploadReq
  <2> QED BY <2>1, <2>4 DEF Claimed, UsedFiles
<1>6. CASE \E u \in User, f \in File : BeginComplete(q, u, f)
  BY <1>6 DEF BeginComplete, Goto, TypeOK, Data, Claimed, UsedFiles
<1>7. CASE DeleteObject(q)
  <2>1. req[q] \in DeletingReq
    BY <1>7, RequestVariants DEF DeleteObject
  <2>2. \A f \in File : object'[f] = object[f] \/ object'[f].status = "deleted"
    BY <1>7 DEF DeleteObject, TypeOK
  <2>3. req'[q].pc \in {"idle", "deleteCheck"}
    BY <1>7, <2>1 DEF DeleteObject, Goto, Idle, TypeOK
  <2> QED BY <2>2, <2>3 DEF Claimed, UsedFiles, UploadPC, CompletePC
<1>8. CASE CreateRef(q) \/ BindRefs(q) \/ Abort(q)
  BY <1>8 DEF CreateRef, BindRefs, Abort, Goto, Idle, TypeOK, Data, Claimed,
              UsedFiles, UploadPC, CompletePC
<1>9. CASE \E u \in User, fs \in SUBSET File, s \in Scene, o \in User :
             BeginBind(q, u, fs, s, o)
  BY <1>9 DEF BeginBind, Goto, TypeOK, Data, Claimed, UsedFiles, UploadPC, CompletePC
<1>10. CASE \E u \in User, fs \in SUBSET File : BeginDelete(q, u, fs)
  BY <1>10 DEF BeginDelete, Goto, TypeOK, Data, Claimed, UsedFiles, UploadPC, CompletePC
<1>11. CASE \E f \in File : DeleteCheck(q, f)
  BY <1>11 DEF DeleteCheck, Goto, TypeOK, Data, Claimed, UsedFiles, UploadPC, CompletePC
<1> QED
  BY <1>3, <1>4, <1>5, <1>6, <1>7, <1>8, <1>9, <1>10, <1>11 DEF RequestStep

\* An upload that passes the check claims one file, and the other handlers at
\* most one each.
LEMMA UploadClaims ==
  ASSUME TypeOK, NEW q \in Request, NEW u \in User, NEW f \in File, NEW s \in Scene,
         NEW o \in User, NEW temp \in BOOLEAN, NEW direct \in BOOLEAN,
         BeginUpload(q, u, f, s, o, temp, direct)
  PROVE  ClaimsBounded'
<1> SUFFICES ASSUME MaxTotalFiles > 0
             PROVE  Cardinality(Claimed') <= MaxTotalFiles - 1 + Cardinality(Request)
  BY DEF ClaimsBounded
<1> DEFINE Others == Claiming \ {q}
           T == {req[p].file : p \in Others}
<1>1. Claimed' = (UsedFiles \cup T) \cup {f}
  <2>1. /\ \A p \in Request \ {q} : req'[p] = req[p]
        /\ req'[q].pc = "ownerQuota" /\ req'[q].file = f
        /\ UNCHANGED object
    BY DEF BeginUpload, Goto, TypeOK, Data
  <2>2. Claiming' = Others \cup {q}
    BY <2>1 DEF Claiming, UploadPC
  <2>3. \A p \in Others : p \in Request \ {q}
    BY DEF Claiming
  <2> QED BY <2>1, <2>2, <2>3 DEF Claimed, UsedFiles
<1>2. IsFiniteSet(UsedFiles) /\ Cardinality(UsedFiles) \in Nat
  BY FileAssumption, FS_Subset, FS_CardinalityType DEF UsedFiles
<1>3. Cardinality(UsedFiles) + 1 <= MaxTotalFiles
  BY <1>2, LimitAssumption DEF BeginUpload, ExceedsFileQuota
<1>4. /\ IsFiniteSet(T) /\ Cardinality(T) \in Nat /\ Cardinality(Request) \in Nat
      /\ Cardinality(T) <= Cardinality(Request) - 1
  <2>1. Others \subseteq Request \ {q} /\ Others \subseteq Request
    BY DEF Claiming
  <2>2. IsFiniteSet(T) /\ Cardinality(T) <= Cardinality(Others)
    BY <2>1, FilesOfHandlers
  <2>3. /\ IsFiniteSet(Request \ {q})
        /\ Cardinality(Request \ {q}) = Cardinality(Request) - 1
    BY FileAssumption, FS_RemoveElement
  <2>4. IsFiniteSet(Others) /\ Cardinality(Others) <= Cardinality(Request \ {q})
    BY <2>1, <2>3, FS_Subset
  <2>5. /\ Cardinality(T) \in Nat /\ Cardinality(Others) \in Nat
        /\ Cardinality(Request) \in Nat
    BY <2>2, <2>4, FileAssumption, FS_CardinalityType
  <2> QED BY <2>2, <2>3, <2>4, <2>5
<1>5. /\ IsFiniteSet(UsedFiles \cup T)
      /\ Cardinality(UsedFiles \cup T) <= Cardinality(UsedFiles) + Cardinality(T)
      /\ Cardinality(UsedFiles \cup T) \in Nat
  <2>1. /\ IsFiniteSet(UsedFiles \cup T)
        /\ Cardinality(UsedFiles \cup T)
             = Cardinality(UsedFiles) + Cardinality(T) - Cardinality(UsedFiles \cap T)
    BY <1>2, <1>4, FS_Union
  <2>2. Cardinality(UsedFiles \cap T) \in Nat
    BY <1>2, FS_Intersection, FS_CardinalityType
  <2>3. Cardinality(UsedFiles \cup T) \in Nat
    BY <2>1, FS_CardinalityType
  <2> QED BY <1>2, <1>4, <2>1, <2>2, <2>3
<1>6. Cardinality(Claimed') <= Cardinality(UsedFiles \cup T) + 1
  <2>1. Cardinality((UsedFiles \cup T) \cup {f}) =
          IF f \in UsedFiles \cup T THEN Cardinality(UsedFiles \cup T)
                                    ELSE Cardinality(UsedFiles \cup T) + 1
    BY <1>5, FS_AddElement
  <2> QED BY <1>1, <1>5, <2>1
<1>7. Cardinality(Claimed') \in Nat
  BY <1>1, <1>5, FS_AddElement, FS_CardinalityType
<1> QED BY <1>2, <1>3, <1>4, <1>5, <1>6, <1>7, LimitAssumption

\* Whatever n handlers interleave with whatever cleanup runs, the files in use
\* never pass the limit by more than n - 1.
THEOREM QuotaOvershoot == Spec => []QuotaOvershootBounded
<1>0. Cardinality(Request) \in Nat
  BY FileAssumption, FS_CardinalityType
<1>1. Init => ClaimsBounded
  <2> SUFFICES ASSUME Init, MaxTotalFiles > 0
               PROVE  Cardinality(Claimed) <= MaxTotalFiles - 1 + Cardinality(Request)
    BY DEF ClaimsBounded
  <2>1. Claimed = {}
    BY DEF Init, Claimed, UsedFiles, Claiming, NoObject, Idle, UploadPC, CompletePC
  <2> QED BY <1>0, <2>1, FS_EmptySet, LimitAssumption
<1>2. TypeOK /\ TypeOK' /\ ClaimsBounded /\ [Next]_vars => ClaimsBounded'
  <2> SUFFICES ASSUME TypeOK, TypeOK', ClaimsBounded, [Next]_vars
               PROVE  ClaimsBounded'
    OBVIOUS
  <2>1. ASSUME Claimed' \subseteq Claimed
        PROVE  ClaimsBounded'
    <3>1. IsFiniteSet(Claimed) /\ Cardinality(Claimed) \in Nat
      BY ClaimedFinite, FS_CardinalityType
    <3>2. /\ IsFiniteSet(Claimed') /\ Cardinality(Claimed') <= Cardinality(Claimed)
          /\ Cardinality(Claimed') \in Nat
      BY <2>1, <3>1, FS_Subset, FS_CardinalityType
    <3> QED BY <1>0, <3>1, <3>2, LimitAssumption DEF ClaimsBounded
  <2>2. CASE \E q \in Request : RequestStep(q)
    <3> PICK q \in Request : RequestStep(q)
      BY <2>2
    <3>1. CASE \E u \in User, f \in File, s \in Scene, o \in User,
                  temp \in BOOLEAN, direct \in BOOLEAN :
                 BeginUpload(q, u, f, s, o, temp, direct)
      BY <3>1, UploadClaims
    <3>2. CASE ~ \E u \in User, f \in File, s \in Scene, o \in User,
                    temp \in BOOLEAN, direct \in BOOLEAN :
                   BeginUpload(q, u, f, s, o, temp, direct)
      BY <2>1, <3>2, ClaimsOnlyShrink
    <3> QED BY <3>1, <3>2
  <2>3. CASE \E c \in Cleaner : CleanStep(c) \/ AbortRun(c)
    <3> PICK c \in Cleaner : CleanStep(c) \/ AbortRun(c)
      BY <2>3
    <3>1. UNCHANGED req
      BY DEF CleanStep, ListExpired, MarkExpired, CountRefs, GetObject,
             DeleteBytes, MarkObject, ListPending, DeletePendingBytes,
             ListPendingRefs, MarkPendingRefs, MarkPending, StorageFails, AbortRun
    <3>2. \/ UNCHANGED object
          \/ object' = [object EXCEPT ![cleaner[c].file].status = "deleted"]
      BY DEF CleanStep, ListExpired, MarkExpired, CountRefs, GetObject,
             DeleteBytes, MarkObject, ListPending, DeletePendingBytes,
             ListPendingRefs, MarkPendingRefs, MarkPending, StorageFails, AbortRun, Data
    <3>3. \A f \in File : object'[f] = object[f] \/ object'[f].status = "deleted"
      BY <3>2 DEF TypeOK, NoObject, ObjectRow
    <3>4. UsedFiles' \subseteq UsedFiles
      BY <3>3 DEF UsedFiles
    <3> QED BY <2>1, <3>1, <3>4 DEF Claimed, Claiming
  <2>4. CASE (\E f \in File, content \in Content : ClientPut(f, content))
             \/ (\E f \in File : LoseStorage(f)) \/ Tick \/ UNCHANGED vars
    <3>1. UNCHANGED <<object, req>>
      BY <2>4 DEF ClientPut, LoseStorage, Tick, Data, vars
    <3> QED BY <2>1, <3>1 DEF Claimed, UsedFiles, Claiming
  <2> QED BY <2>2, <2>3, <2>4 DEF Next
<1>3. TypeOK /\ ClaimsBounded => QuotaOvershootBounded
  <2> SUFFICES ASSUME TypeOK, ClaimsBounded, MaxTotalFiles > 0
               PROVE  Cardinality(UsedFiles) <= MaxTotalFiles - 1 + Cardinality(Request)
    BY DEF QuotaOvershootBounded
  <2>1. UsedFiles \subseteq Claimed
    BY DEF Claimed
  <2>2. /\ Cardinality(UsedFiles) <= Cardinality(Claimed)
        /\ Cardinality(UsedFiles) \in Nat /\ Cardinality(Claimed) \in Nat
    BY <2>1, ClaimedFinite, FS_Subset, FS_CardinalityType
  <2> QED BY <1>0, <2>2, LimitAssumption DEF ClaimsBounded
<1> QED BY <1>1, <1>2, <1>3, TypeCorrect, PTL DEF Spec

-----------------------------------------------------------------------------
(* Ownership.                                                              *)

\* What an upload carries: an owner its user may name, a key of its own that
\* no row has until the handler writes one, and then that row's uploader.
UploadOwns(q) ==
  req[q].pc \in UploadPC =>
    /\ req[q].owner \in {req[q].user} \cup granted[req[q].file]
    /\ req[q].pc # "createRef" => ~Exists(req[q].file)
    /\ req[q].pc = "createRef" => object[req[q].file].uploader = req[q].user

KeysDiffer ==
  \A q, p \in Request :
    q # p /\ req[q].pc \in UploadPC /\ req[p].pc \in UploadPC
      => req[q].file # req[p].file

\* A bind carries an owner that already is one, or that a super admin named.
BindOwns(q) ==
  req[q].pc = "bindRefs" =>
    \A f \in req[q].files : req[q].owner \in {object[f].uploader} \cup granted[f]

Ownership ==
  /\ \A q \in Request : UploadOwns(q) /\ BindOwns(q)
  /\ KeysDiffer
  /\ OwnersAreGranted

\* No step changes the uploader or the creation time of a row or takes a grant
\* back, and only the handler that has the key creates the row.
LEMMA UploaderStays ==
  ASSUME TypeOK, NamesExist, Ownership, [Next]_vars, NEW f \in File
  PROVE  /\ Exists(f) => /\ object'[f].uploader = object[f].uploader
                       /\ object'[f].created = object[f].created
         /\ granted[f] \subseteq granted'[f]
         /\ ~Exists(f) /\ object'[f] # object[f]
              => \E q \in Request : CreateObject(q) /\ req[q].file = f
<1>1. CASE \E q \in Request : RequestStep(q)
  <2> PICK q \in Request : RequestStep(q)
    BY <1>1
  <2>1. granted[f] \subseteq granted'[f]
    <3>1. UNCHANGED granted \/ \E u \in User, fs \in SUBSET File, o \in User : Grant(u, fs, o)
      BY DEF RequestStep, BeginUpload, CheckOwnerQuota, PutBytes, PresignPut,
             CreateObject, CreateRef, BeginComplete, HeadObject, Activate, BeginBind,
             BindRefs, BeginDelete, DeleteCheck, DeleteObject, Abort
    <3> QED BY <3>1 DEF Grant, TypeOK
  <2>2. CASE CreateObject(q)
    <3>1. req[q].pc = "createObject" /\ ~Exists(req[q].file)
      BY <2>2 DEF CreateObject, Ownership, UploadOwns, UploadPC
    <3>2. f # req[q].file => object'[f] = object[f]
      BY <2>2 DEF CreateObject, TypeOK
    <3> QED BY <2>1, <2>2, <3>1, <3>2
  <2>3. CASE Activate(q) \/ DeleteObject(q)
    <3>1. Exists(req[q].file)
      BY <2>3 DEF NamesExist, Activate, DeleteObject
    <3>2. f # req[q].file => object'[f] = object[f]
      BY <2>3 DEF Activate, DeleteObject, TypeOK
    <3>3. Exists(f) => /\ object'[f].uploader = object[f].uploader
                      /\ object'[f].created = object[f].created
      <4>1. PICK st \in {"active", "deleted"} :
              object' = [object EXCEPT ![req[q].file].status = st]
        BY <2>3 DEF Activate, DeleteObject
      <4> QED BY <4>1 DEF TypeOK, Exists, NoObject, ObjectRow
    <3> QED BY <2>1, <3>1, <3>2, <3>3
  <2>4. CASE UNCHANGED object
    BY <2>1, <2>4
  <2> QED
    BY <2>2, <2>3, <2>4
    DEF RequestStep, BeginUpload, CheckOwnerQuota, PutBytes, PresignPut,
        CreateRef, BeginComplete, HeadObject, BeginBind, BindRefs, BeginDelete,
        DeleteCheck, Abort, Data
<1>2. CASE \E c \in Cleaner : CleanStep(c) \/ AbortRun(c)
  <2> PICK c \in Cleaner : CleanStep(c) \/ AbortRun(c)
    BY <1>2
  <2>1. granted' = granted
    BY DEF CleanStep, ListExpired, MarkExpired, CountRefs, GetObject,
           DeleteBytes, MarkObject, ListPending, DeletePendingBytes,
           ListPendingRefs, MarkPendingRefs, MarkPending, StorageFails, AbortRun
  <2>2. CASE MarkObject(c) \/ MarkPending(c)
    <3>1. Exists(cleaner[c].file)
      BY <2>2 DEF NamesExist, MarkObject, MarkPending, FilePC, TempFilePC, PendFilePC
    <3>2. f # cleaner[c].file => object'[f] = object[f]
      BY <2>2 DEF MarkObject, MarkPending, TypeOK
    <3>3. object' = [object EXCEPT ![cleaner[c].file].status = "deleted"]
      BY <2>2 DEF MarkObject, MarkPending
    <3>4. Exists(f) => /\ object'[f].uploader = object[f].uploader
                      /\ object'[f].created = object[f].created
      BY <3>3 DEF TypeOK, Exists, NoObject, ObjectRow
    <3> QED BY <2>1, <3>1, <3>2, <3>4
  <2>3. CASE UNCHANGED object
    BY <2>1, <2>3
  <2> QED
    BY <2>2, <2>3
    DEF CleanStep, ListExpired, MarkExpired, CountRefs, GetObject, DeleteBytes,
        ListPending, DeletePendingBytes, ListPendingRefs, MarkPendingRefs,
        StorageFails, AbortRun, Data
<1>3. CASE (\E g \in File, content \in Content : ClientPut(g, content))
           \/ (\E g \in File : LoseStorage(g)) \/ Tick \/ UNCHANGED vars
  BY <1>3 DEF ClientPut, LoseStorage, Tick, Data, vars
<1> QED BY <1>1, <1>2, <1>3 DEF Next

\* A handler that does not move keeps what it owns.
LEMMA OwnsStay ==
  ASSUME TypeOK, NamesExist, Ownership, [Next]_vars, NEW q \in Request,
         req'[q] = req[q]
  PROVE  UploadOwns(q)' /\ BindOwns(q)'
<1>0. ~CreateObject(q)
  <2> SUFFICES ASSUME CreateObject(q) PROVE FALSE
    OBVIOUS
  <2>1. req[q].pc = "createObject" /\ req[q] \in UploadReq
    BY RequestVariants DEF CreateObject, UploadPC
  <2>2. req'[q].pc = "createRef"
    BY <2>1 DEF CreateObject, Goto, TypeOK, UploadReq
  <2> QED BY <2>1, <2>2
<1>1. UploadOwns(q) /\ BindOwns(q)
  BY DEF Ownership
<1>2. ASSUME req[q].pc \in UploadPC
      PROVE  UploadOwns(q)'
  <2>1. req[q] \in UploadReq /\ req[q].file \in File
    BY <1>2, RequestVariants DEF UploadReq
  <2>2. req[q].owner \in {req[q].user} \cup granted'[req[q].file]
    BY <1>1, <1>2, <2>1, UploaderStays DEF UploadOwns
  <2>3. ASSUME req[q].pc # "createRef"
        PROVE  object'[req[q].file].status = "absent"
    <3>1. ~Exists(req[q].file)
      BY <1>1, <1>2, <2>3 DEF UploadOwns
    <3>2. \A p \in Request : CreateObject(p) => req[p].file # req[q].file
      BY <1>0, <1>2 DEF Ownership, KeysDiffer, CreateObject, UploadPC
    <3>3. object'[req[q].file] = object[req[q].file]
      BY <2>1, <3>1, <3>2, UploaderStays
    <3> QED BY <3>1, <3>3 DEF Exists
  <2>4. ASSUME req[q].pc = "createRef"
        PROVE  object'[req[q].file].uploader = req[q].user
    BY <1>1, <1>2, <2>1, <2>4, UploaderStays DEF UploadOwns, NamesExist
  <2> QED BY <2>2, <2>3, <2>4 DEF UploadOwns, Exists
<1>3. ASSUME req[q].pc = "bindRefs"
      PROVE  BindOwns(q)'
  <2>1. \A f \in req[q].files : f \in File /\ Exists(f)
    BY <1>3, RequestVariants DEF BindReq, NamesExist
  <2>2. \A f \in req[q].files :
          req[q].owner \in {object'[f].uploader} \cup granted'[f]
    BY <1>1, <1>3, <2>1, UploaderStays DEF BindOwns
  <2> QED BY <2>2 DEF BindOwns
<1> QED BY <1>2, <1>3 DEF UploadOwns, BindOwns

\* Live refs keep their owner, but for those a handler creates or binds.
LEMMA OwnersStay ==
  ASSUME TypeOK, NamesExist, Ownership, [Next]_vars,
         \A f \in File, k \in Slot :
           ref'[f][k].status \in Live =>
             \/ ref[f][k].status \in Live /\ ref'[f][k].owner = ref[f][k].owner
             \/ Exists(f) /\ ref'[f][k].owner \in {object[f].uploader} \cup granted[f]
  PROVE  OwnersAreGranted'
<1>1. \A f \in File, k \in Slot : ref[f][k].status \in Live => Exists(f)
  BY DEF NamesExist, Live
<1>2. \A f \in File, k \in Slot :
        ref'[f][k].status \in Live =>
          Exists(f) /\ ref'[f][k].owner \in {object[f].uploader} \cup granted[f]
  BY <1>1 DEF Ownership, OwnersAreGranted
<1> QED BY <1>2, UploaderStays DEF OwnersAreGranted, Live

\* The steps of a request handler preserve Ownership.
LEMMA RequestStepOwns ==
  ASSUME TypeOK, NamesExist, Ownership, NEW q \in Request, RequestStep(q)
  PROVE  Ownership'
<1>1. [Next]_vars
  BY DEF Next
<1>2. \A p \in Request \ {q} : req'[p] = req[p]
  BY DEF TypeOK, RequestStep, BeginUpload, CheckOwnerQuota, PutBytes, PresignPut,
         CreateObject, CreateRef, BeginComplete, HeadObject, Activate, BeginBind,
         BindRefs, BeginDelete, DeleteCheck, DeleteObject, Abort, Goto
<1>3. \A p \in Request \ {q} : UploadOwns(p)' /\ BindOwns(p)'
  BY <1>1, <1>2, OwnsStay
<1>4. UploadOwns(q) /\ BindOwns(q) /\ KeysDiffer
  BY DEF Ownership
<1>5. CASE \E u \in User, f \in File, s \in Scene, o \in User,
              temp \in BOOLEAN, direct \in BOOLEAN :
             BeginUpload(q, u, f, s, o, temp, direct)
  <2> PICK u \in User, f \in File, s \in Scene, o \in User,
           temp \in BOOLEAN, direct \in BOOLEAN :
             BeginUpload(q, u, f, s, o, temp, direct)
    BY <1>5
  <2>1. /\ req'[q].pc = "ownerQuota" /\ req'[q].file = f
        /\ req'[q].user = u /\ req'[q].owner = o
    BY DEF BeginUpload, Goto, TypeOK
  <2>2. o \in {u} \cup granted'[f]
    BY DEF BeginUpload, Grant, AllowsOwner, TypeOK
  <2>3. object' = object /\ ref' = ref /\ ~Exists(f)
    BY DEF BeginUpload, Data, Fresh
  <2>4. UploadOwns(q)' /\ BindOwns(q)'
    BY <2>1, <2>2, <2>3 DEF UploadOwns, BindOwns, Exists
  <2>5. \A p \in Request : req[p].pc \in UploadPC => req[p].file # f
    BY DEF BeginUpload, Fresh
  <2>6. KeysDiffer'
    BY <1>2, <1>4, <2>1, <2>5 DEF KeysDiffer
  <2>7. OwnersAreGranted'
    BY <1>1, <2>3, OwnersStay
  <2> QED BY <1>3, <2>4, <2>6, <2>7 DEF Ownership
<1>6. ASSUME /\ req[q].pc \in UploadPC \ {"createRef"} /\ req'[q].file = req[q].file
             /\ req'[q].user = req[q].user /\ req'[q].owner = req[q].owner
             /\ req'[q].pc \in UploadPC \ {"createRef"}
             /\ UNCHANGED <<object, ref, granted>>
      PROVE  Ownership'
  <2>1. UploadOwns(q)' /\ BindOwns(q)'
    BY <1>4, <1>6 DEF UploadOwns, BindOwns, Exists, UploadPC
  <2>3. KeysDiffer'
    BY <1>2, <1>4, <1>6 DEF KeysDiffer
  <2>4. OwnersAreGranted'
    BY <1>1, <1>6, OwnersStay
  <2> QED BY <1>3, <2>1, <2>3, <2>4 DEF Ownership
<1>7. CASE CheckOwnerQuota(q) \/ PutBytes(q)
  <2>1. req[q] \in UploadReq /\ req[q].pc \in UploadPC \ {"createRef"}
    BY <1>7, RequestVariants DEF CheckOwnerQuota, PutBytes, UploadPC
  <2>2. /\ req'[q].file = req[q].file /\ req'[q].user = req[q].user
        /\ req'[q].owner = req[q].owner
        /\ req'[q].pc \in UploadPC \ {"createRef"}
    BY <1>7, <2>1 DEF CheckOwnerQuota, PutBytes, Goto, TypeOK, UploadReq, UploadPC
  <2> QED BY <1>6, <1>7, <2>1, <2>2 DEF CheckOwnerQuota, PutBytes, Data
<1>8. CASE \E ttl \in PutTTL : PresignPut(q, ttl)
  <2> PICK ttl \in PutTTL : PresignPut(q, ttl)
    BY <1>8
  <2>1. req[q] \in UploadReq /\ req[q].pc \in UploadPC \ {"createRef"}
    BY RequestVariants DEF PresignPut, UploadPC
  <2>2. req'[q] = [req[q] EXCEPT !.pc = "createObject",
                            !.url = [ttl |-> ttl, until |-> now + ttl]]
    BY DEF PresignPut, Goto, TypeOK
  <2>3. /\ req'[q].file = req[q].file /\ req'[q].user = req[q].user
        /\ req'[q].owner = req[q].owner
        /\ req'[q].pc \in UploadPC \ {"createRef"}
    BY <2>1, <2>2 DEF UploadReq, UploadPC
  <2> QED BY <1>6, <2>1, <2>3 DEF PresignPut, Data
<1>9. CASE CreateObject(q)
  <2>1. req[q] \in UploadReq /\ req[q].file \in File
    BY <1>9, RequestVariants DEF CreateObject, UploadPC, UploadReq
  <2>2. /\ req'[q].file = req[q].file /\ req'[q].user = req[q].user
        /\ req'[q].owner = req[q].owner /\ req'[q].pc = "createRef"
    BY <1>9, <2>1 DEF CreateObject, Goto, TypeOK, UploadReq
  <2>3. object'[req[q].file].uploader = req[q].user
    BY <1>9, <2>1 DEF CreateObject, TypeOK
  <2>4. req[q].pc \in UploadPC /\ UNCHANGED <<ref, granted>>
    BY <1>9 DEF CreateObject, UploadPC
  <2>5. UploadOwns(q)' /\ BindOwns(q)'
    BY <1>4, <2>2, <2>3, <2>4 DEF UploadOwns, BindOwns
  <2>6. KeysDiffer'
    BY <1>2, <1>4, <2>2, <2>4 DEF KeysDiffer
  <2>7. OwnersAreGranted'
    BY <1>1, <2>4, OwnersStay
  <2> QED BY <1>3, <2>5, <2>6, <2>7 DEF Ownership
<1>10. ASSUME req'[q].pc \notin UploadPC
       PROVE  UploadOwns(q)' /\ KeysDiffer'
  BY <1>2, <1>4, <1>10 DEF UploadOwns, KeysDiffer
<1>11. CASE \E u \in User, fs \in SUBSET File, s \in Scene, o \in User :
              BeginBind(q, u, fs, s, o)
  <2> PICK u \in User, fs \in SUBSET File, s \in Scene, o \in User :
              BeginBind(q, u, fs, s, o)
    BY <1>11
  <2>1. /\ req'[q].pc = "bindRefs" /\ req'[q].files = fs /\ req'[q].owner = o
        /\ UNCHANGED <<object, ref>>
    BY DEF BeginBind, Goto, TypeOK, Data
  <2>2. ASSUME u \in SuperUser
        PROVE  \A f \in fs : o \in granted'[f]
    BY <2>2 DEF BeginBind, Grant
  <2>3. ASSUME u \notin SuperUser, NEW f \in fs
        PROVE  o \in {object[f].uploader} \cup granted[f]
    <3>1. o = u /\ OwnsObject(u, f)
      BY <2>3 DEF BeginBind, Accessible, AllowsOwner
    <3> QED BY <2>3, <3>1 DEF OwnsObject, AllowsOwner, Ownership, OwnersAreGranted
  <2>4. \A f \in fs : granted[f] \subseteq granted'[f]
    BY <1>1, UploaderStays
  <2>5. BindOwns(q)'
    BY <2>1, <2>2, <2>3, <2>4 DEF BindOwns
  <2>6. OwnersAreGranted'
    BY <1>1, <2>1, OwnersStay
  <2>7. req'[q].pc \notin UploadPC
    BY <2>1 DEF UploadPC
  <2> QED BY <1>3, <1>10, <2>5, <2>6, <2>7 DEF Ownership
<1>12. CASE CreateRef(q)
  <2>1. req[q] \in UploadReq /\ req[q].file \in File /\ Exists(req[q].file)
    BY <1>12, RequestVariants DEF CreateRef, UploadPC, UploadReq, NamesExist
  <2>2. req'[q].pc = "idle"
    BY <1>12 DEF CreateRef, Goto, Idle, TypeOK
  <2>3. req[q].owner \in {object[req[q].file].uploader} \cup granted[req[q].file]
    BY <1>4, <1>12 DEF UploadOwns, CreateRef, UploadPC
  <2>4. \A f \in File, k \in Slot :
          \/ ref'[f][k] = ref[f][k]
          \/ f = req[q].file /\ ref'[f][k].owner = req[q].owner
    BY <1>12 DEF CreateRef, TypeOK
  <2>5. OwnersAreGranted'
    BY <1>1, <2>1, <2>3, <2>4, OwnersStay
  <2> QED BY <1>3, <1>10, <2>2, <2>5 DEF Ownership, BindOwns, UploadPC
<1>13. CASE BindRefs(q)
  <2>1. req'[q].pc = "idle"
    BY <1>13 DEF BindRefs, Goto, Idle, TypeOK
  <2>2. \A f \in req[q].files :
          Exists(f) /\ req[q].owner \in {object[f].uploader} \cup granted[f]
    BY <1>4, <1>13 DEF BindOwns, BindRefs, NamesExist
  <2>3. \A f \in File, k \in Slot :
          \/ ref'[f][k] = ref[f][k]
          \/ f \in req[q].files /\ ref'[f][k].owner = req[q].owner
    BY <1>13 DEF BindRefs, BoundRef
  <2>4. OwnersAreGranted'
    BY <1>1, <2>2, <2>3, OwnersStay
  <2> QED BY <1>3, <1>10, <2>1, <2>4 DEF Ownership, BindOwns, UploadPC
<1>14. ASSUME UNCHANGED ref, req'[q].pc \notin UploadPC \cup {"bindRefs"}
       PROVE  Ownership'
  BY <1>1, <1>3, <1>10, <1>14, OwnersStay DEF Ownership, BindOwns
<1>15. CASE \/ \E u \in User, f \in File : BeginComplete(q, u, f)
            \/ \E u \in User, fs \in SUBSET File : BeginDelete(q, u, fs)
            \/ \E f \in File : DeleteCheck(q, f)
  BY <1>14, <1>15 DEF BeginComplete, BeginDelete, DeleteCheck, Goto, TypeOK, UploadPC, Data
<1>16. CASE HeadObject(q)
  <2>1. req[q] \in CompleteReq
    BY <1>16, RequestVariants DEF HeadObject, CompletePC
  <2>2. req'[q].pc = "activate"
    BY <1>16, <2>1 DEF HeadObject, Goto, TypeOK, CompleteReq
  <2> QED BY <1>14, <1>16, <2>2 DEF HeadObject, UploadPC, Data
<1>17. CASE Activate(q) \/ DeleteObject(q) \/ Abort(q)
  <2>1. req'[q].pc \in {"idle", "deleteCheck"}
    BY <1>17 DEF Activate, DeleteObject, Abort, Goto, Idle, TypeOK
  <2> QED BY <1>14, <1>17, <2>1 DEF Activate, DeleteObject, Abort, UploadPC, Data
<1> QED
  BY <1>5, <1>7, <1>8, <1>9, <1>11, <1>12, <1>13, <1>15, <1>16, <1>17 DEF RequestStep

\* What uploads and binds carry stays right whatever step is taken.
LEMMA OwnershipHolds == Spec => []Ownership
<1>1. Init => Ownership
  BY DEF Init, Ownership, UploadOwns, BindOwns, KeysDiffer, OwnersAreGranted, Idle,
         UploadPC, NoRef, Live
<1>2. TypeOK /\ NamesExist /\ Ownership /\ [Next]_vars => Ownership'
  <2> SUFFICES ASSUME TypeOK, NamesExist, Ownership, [Next]_vars
               PROVE  Ownership'
    OBVIOUS
  <2>1. CASE \E q \in Request : RequestStep(q)
    BY <2>1, RequestStepOwns
  <2>2. ASSUME UNCHANGED req,
               \A f \in File, k \in Slot :
                 ref'[f][k] = ref[f][k] \/ ref'[f][k].status \in {"deleted", "absent"}
        PROVE  Ownership'
    <3>1. \A q \in Request : UploadOwns(q)' /\ BindOwns(q)'
      BY <2>2, OwnsStay
    <3>2. KeysDiffer'
      BY <2>2 DEF Ownership, KeysDiffer
    <3>3. OwnersAreGranted'
      BY <2>2, OwnersStay DEF Live
    <3> QED BY <3>1, <3>2, <3>3 DEF Ownership
  <2>3. CASE \E c \in Cleaner : CleanStep(c) \/ AbortRun(c)
    <3> PICK c \in Cleaner : CleanStep(c) \/ AbortRun(c)
      BY <2>3
    <3>1. UNCHANGED req
      BY DEF CleanStep, ListExpired, MarkExpired, CountRefs, GetObject,
             DeleteBytes, MarkObject, ListPending, DeletePendingBytes,
             ListPendingRefs, MarkPendingRefs, MarkPending, StorageFails, AbortRun
    <3>2. CASE MarkExpired(c)
      <4>1. \A f \in File, k \in Slot :
              ref'[f][k] = ref[f][k] \/ ref'[f][k].status = "deleted"
        <5>1. \A f \in File, k \in Slot : ref[f][k] \in {NoRef} \cup RefRow
          BY DEF TypeOK
        <5>2. \A f \in File, k \in Slot :
                [ref[f][k] EXCEPT !.status = "deleted"].status = "deleted"
          BY <5>1 DEF NoRef, RefRow
        <5> QED BY <3>2, <5>2 DEF MarkExpired
      <4> QED BY <2>2, <3>1, <4>1
    <3>3. CASE MarkPendingRefs(c)
      <4>1. \A f \in File, k \in Slot :
              ref'[f][k] = ref[f][k] \/ ref'[f][k].status = "deleted"
        BY <3>3 DEF MarkPendingRefs, TypeOK, NoRef, RefRow
      <4> QED BY <2>2, <3>1, <4>1
    <3>4. CASE UNCHANGED ref
      BY <2>2, <3>1, <3>4
    <3> QED
      BY <3>2, <3>3, <3>4
      DEF CleanStep, ListExpired, CountRefs, GetObject, DeleteBytes, MarkObject,
          ListPending, DeletePendingBytes, ListPendingRefs, MarkPending, StorageFails, AbortRun, Data
  <2>4. CASE (\E f \in File, content \in Content : ClientPut(f, content))
             \/ (\E f \in File : LoseStorage(f)) \/ Tick \/ UNCHANGED vars
    BY <2>2, <2>4 DEF ClientPut, LoseStorage, Tick, Data, vars
  <2> QED BY <2>1, <2>3, <2>4 DEF Next
<1> QED BY <1>1, <1>2, TypeCorrect, PTL DEF Spec

\* Every owner of a live ref is the file's uploader or was named by a super
\* admin: no chain of requests, whatever cleanup runs interleave with it, lets
\* a normal user gain or give away a file.
THEOREM OwnersGranted == Spec => []OwnersAreGranted
<1>1. Ownership => OwnersAreGranted
  BY DEF Ownership
<1> QED BY <1>1, OwnershipHolds, PTL

-----------------------------------------------------------------------------
(* How long URLs and rows live.                                            *)

PendingPC == PendFilePC \cup {"nextPending"}

\* The URL a client holds, if it holds one, dates from before the row.
UrlDated(f) ==
  IF Exists(f) THEN url[f].until <= object[f].created + url[f].ttl
               ELSE url[f].until = 0

\* So does the one an upload carries; until the row is there, from before now.
UploadDated(q) ==
  LET u == req[q].url IN
  /\ req[q].pc \in UploadPC \ {"createRef"} => u.until <= now + u.ttl
  /\ req[q].pc = "createRef" => u.until <= object[req[q].file].created + u.ttl

\* The grace period of every object a run works on is over.
RunDated(c) ==
  /\ cleaner[c].pc \in PendingPC =>
       \A f \in cleaner[c].files : object[f].created + PendingTTL <= now
  /\ cleaner[c].pc \in PendFilePC =>
       object[cleaner[c].file].created + PendingTTL <= now

Dated ==
  /\ \A f \in File : UrlDated(f)
  /\ \A q \in Request : UploadDated(q)
  /\ \A c \in Cleaner : RunDated(c)

\* A handler and a run move one at a time, and a request leaves the clock.
LEMMA OneMoves ==
  ASSUME TypeOK
  PROVE  /\ \A q \in Request : RequestStep(q) =>
              /\ \A p \in Request \ {q} : req'[p] = req[p]
              /\ UNCHANGED <<cleaner, now>>
         /\ \A c \in Cleaner : CleanStep(c) \/ AbortRun(c) =>
              /\ \A d \in Cleaner \ {c} : cleaner'[d] = cleaner[d]
              /\ UNCHANGED <<req, now, url>>
<1>1. ASSUME NEW q \in Request, RequestStep(q)
      PROVE  /\ \A p \in Request \ {q} : req'[p] = req[p]
             /\ UNCHANGED <<cleaner, now>>
  <2>1. \A p \in Request \ {q} : req'[p] = req[p]
    BY <1>1 DEF TypeOK, RequestStep, BeginUpload, CheckOwnerQuota, PutBytes,
           PresignPut, CreateObject, CreateRef, BeginComplete, HeadObject,
           Activate, BeginBind, BindRefs, BeginDelete, DeleteCheck,
           DeleteObject, Abort, Goto
  <2>2. UNCHANGED <<cleaner, now>>
    BY <1>1 DEF RequestStep, BeginUpload, CheckOwnerQuota, PutBytes,
           PresignPut, CreateObject, CreateRef, BeginComplete, HeadObject,
           Activate, BeginBind, BindRefs, BeginDelete, DeleteCheck,
           DeleteObject, Abort
  <2> QED BY <2>1, <2>2
<1>2. ASSUME NEW c \in Cleaner, CleanStep(c) \/ AbortRun(c)
      PROVE  /\ \A d \in Cleaner \ {c} : cleaner'[d] = cleaner[d]
             /\ UNCHANGED <<req, now, url>>
  <2>1. \A d \in Cleaner \ {c} : cleaner'[d] = cleaner[d]
    BY <1>2 DEF TypeOK, CleanStep, ListExpired, MarkExpired, CountRefs,
           GetObject, DeleteBytes, MarkObject, ListPending, DeletePendingBytes,
           ListPendingRefs, MarkPendingRefs, MarkPending, StorageFails, AbortRun, CleanTo
  <2>2. UNCHANGED <<req, now, url>>
    BY <1>2 DEF CleanStep, ListExpired, MarkExpired, CountRefs, GetObject,
           DeleteBytes, MarkObject, ListPending, DeletePendingBytes,
           ListPendingRefs, MarkPendingRefs, MarkPending, StorageFails, AbortRun, Data
  <2> QED BY <2>1, <2>2
<1> QED BY <1>1, <1>2

\* The clock never goes back.
LEMMA NowGrows ==
  ASSUME TypeOK, [Next]_vars
  PROVE  now' \in Nat /\ now <= now'
BY OneMoves DEF Next, ClientPut, LoseStorage, Tick, vars, TypeOK

\* The creation time of a row is a number.
LEMMA CreatedType ==
  ASSUME TypeOK, NEW f \in File, Exists(f)
  PROVE  object[f].created \in Nat
BY DEF TypeOK, Exists, NoObject, ObjectRow

\* What a handler or a run that does not move has is still dated.
LEMMA DatesStay ==
  ASSUME TypeOK, NamesExist, Ownership, [Next]_vars
  PROVE  /\ \A q \in Request :
              req'[q] = req[q] /\ UploadDated(q) => UploadDated(q)'
         /\ \A c \in Cleaner :
              cleaner'[c] = cleaner[c] /\ RunDated(c) => RunDated(c)'
<1>1. now \in Nat /\ now' \in Nat /\ now <= now' /\ PendingTTL \in Nat
  BY NowGrows, TimeAssumption DEF TypeOK
<1>2. ASSUME NEW q \in Request, req'[q] = req[q], UploadDated(q)
      PROVE  UploadDated(q)'
  <2>1. ASSUME req[q].pc \in UploadPC \ {"createRef"}
        PROVE  req[q].url.until <= now' + req[q].url.ttl
    <3>1. /\ req[q].url.until \in Nat /\ req[q].url.ttl \in Nat
          /\ req[q].url.until <= now + req[q].url.ttl
      BY <1>2, <2>1, RequestVariants DEF UploadReq, UploadDated, URL
    <3> QED BY <1>1, <3>1
  <2>2. ASSUME req[q].pc = "createRef"
        PROVE  req[q].url.until <= object'[req[q].file].created + req[q].url.ttl
    <3>1. req[q].file \in File /\ Exists(req[q].file)
      BY <2>2, RequestVariants DEF UploadReq, UploadPC, NamesExist
    <3>2. object'[req[q].file].created = object[req[q].file].created
      BY <3>1, UploaderStays
    <3> QED BY <1>2, <2>2, <3>2 DEF UploadDated
  <2> QED BY <1>2, <2>1, <2>2 DEF UploadDated
<1>3. ASSUME NEW c \in Cleaner, cleaner'[c] = cleaner[c], RunDated(c)
      PROVE  RunDated(c)'
  <2>1. ASSUME cleaner[c].pc \in PendingPC, NEW f \in cleaner[c].files
        PROVE  object'[f].created + PendingTTL <= now'
    <3>1. f \in File /\ Exists(f)
      BY <2>1, RunVariants
         DEF PendingPC, PendFilePC, FilesPC, FilePC, NamesExist, PendingRun,
             PendFileRun, PendRefsRun
    <3>2. object'[f].created = object[f].created /\ object[f].created \in Nat
      BY <3>1, UploaderStays, CreatedType
    <3>3. object[f].created + PendingTTL <= now
      BY <1>3, <2>1 DEF RunDated
    <3> QED BY <1>1, <3>2, <3>3
  <2>2. ASSUME cleaner[c].pc \in PendFilePC
        PROVE  object'[cleaner[c].file].created + PendingTTL <= now'
    <3> DEFINE f == cleaner[c].file
    <3>1. f \in File /\ Exists(f)
      BY <2>2, RunVariants
         DEF PendFilePC, FilePC, NamesExist, PendFileRun, PendRefsRun
    <3>2. object'[f].created = object[f].created /\ object[f].created \in Nat
      BY <3>1, UploaderStays, CreatedType
    <3>3. object[f].created + PendingTTL <= now
      BY <1>3, <2>2 DEF RunDated
    <3> QED BY <1>1, <3>2, <3>3
  <2> QED BY <1>3, <2>1, <2>2 DEF RunDated
<1> QED BY <1>2, <1>3

\* A run gets to the pending objects by its list of the stale ones, and then
\* takes them from it one by one.
LEMMA PendingSteps ==
  ASSUME TypeOK, NEW c \in Cleaner, CleanStep(c) \/ AbortRun(c),
         cleaner'[c].pc \in PendingPC
  PROVE  \/ /\ cleaner'[c].pc = "nextPending" /\ UNCHANGED object
            /\ cleaner'[c].files = StalePending
         \/ /\ cleaner[c].pc \in PendingPC
            /\ cleaner'[c].files \subseteq cleaner[c].files
            /\ cleaner'[c].pc \in PendFilePC =>
                 \/ cleaner'[c].file \in cleaner[c].files
                 \/ /\ cleaner[c].pc \in PendFilePC
                    /\ cleaner'[c].file = cleaner[c].file
<1> USE DEF PendingPC, PendFilePC
<1>0. Idle.pc = "idle"
  BY DEF Idle
<1>1. CASE ListPending(c)
  <2>1. cleaner'[c] = PendingTo(StalePending) /\ UNCHANGED object
    BY <1>1 DEF ListPending, CleanTo, TypeOK, Data
  <2> QED BY <1>0, <2>1 DEF PendingTo
<1>2. CASE \E f \in File : DeletePendingBytes(c, f)
  BY <1>2 DEF DeletePendingBytes, IsNext, CleanTo, TypeOK
<1>3. CASE ListPendingRefs(c)
  <2>1. cleaner[c] \in PendFileRun
    BY <1>3, RunVariants DEF ListPendingRefs
  <2> QED BY <1>3, <2>1 DEF ListPendingRefs, CleanTo, TypeOK, PendFileRun
<1>4. CASE MarkPendingRefs(c)
  BY <1>4 DEF MarkPendingRefs, CleanTo, TypeOK
<1>5. CASE MarkPending(c)
  <2>1. cleaner'[c] = PendingTo(cleaner[c].files)
    BY <1>5 DEF MarkPending, CleanTo, TypeOK
  <2> QED BY <1>0, <1>5, <2>1 DEF PendingTo, MarkPending
<1>6. CASE ListExpired(c) \/ MarkExpired(c) \/ (\E f \in File : CountRefs(c, f))
           \/ AbortRun(c) \/ StorageFails(c)
  <2>1. cleaner'[c].pc \in {"listPending", "markRefs", "countRefs", "getObject",
                            "idle"}
    BY <1>0, <1>6
       DEF ListExpired, MarkExpired, CountRefs, AbortRun, StorageFails, CleanTo,
           TypeOK
  <2> QED BY <2>1
<1>7. CASE GetObject(c) \/ DeleteBytes(c) \/ MarkObject(c)
  <2>1. cleaner[c] \in FileRun
    BY <1>7, RunVariants DEF GetObject, DeleteBytes, MarkObject, TempFilePC
  <2>2. cleaner'[c].pc \in {"listPending", "countRefs", "deleteBytes",
                            "markObject"}
    BY <1>7, <2>1 DEF GetObject, DeleteBytes, MarkObject, NextFile, CleanTo,
                      TypeOK, FileRun
  <2> QED BY <2>2
<1> QED
  BY <1>1, <1>2, <1>3, <1>4, <1>5, <1>6, <1>7 DEF CleanStep

\* The steps of a request handler keep the dates.
LEMMA RequestStepDated ==
  ASSUME TypeOK, NamesExist, Ownership,
         \A f \in File : UrlDated(f), \A p \in Request : UploadDated(p),
         NEW q \in Request, RequestStep(q)
  PROVE  (\A f \in File : UrlDated(f)) ' /\ UploadDated(q)'
<1>0. [Next]_vars
  BY DEF Next
<1>1. now \in Nat /\ PendingTTL \in Nat /\ now' = now
  BY TimeAssumption, OneMoves DEF TypeOK
<1>2. Idle.pc = "idle"
  BY DEF Idle
<1>3. UploadDated(q)
  OBVIOUS
<1>4. ASSUME UNCHANGED <<object, url>>
      PROVE  (\A f \in File : UrlDated(f))'
  BY <1>4 DEF UrlDated, Exists
<1>5. CASE CreateObject(q)
  <2>1. req[q] \in UploadReq /\ req[q].file \in File
    BY <1>5, RequestVariants DEF CreateObject, UploadPC, UploadReq
  <2>2. /\ req'[q].pc = "createRef" /\ req'[q].file = req[q].file
        /\ req'[q].url = req[q].url
    BY <1>5, <2>1 DEF CreateObject, Goto, TypeOK, UploadReq
  <2>3. /\ object'[req[q].file].created = now
        /\ object'[req[q].file].status # "absent"
        /\ \A f \in File \ {req[q].file} : object'[f] = object[f]
        /\ UNCHANGED url
    BY <1>5, <2>1 DEF CreateObject, TypeOK
  <2>4. req[q].url.until <= now + req[q].url.ttl
    BY <1>3, <1>5 DEF UploadDated, CreateObject, UploadPC
  <2>5. url[req[q].file].until = 0 /\ url[req[q].file].ttl \in Nat
    <3>1. ~Exists(req[q].file)
      BY <1>5 DEF Ownership, UploadOwns, CreateObject, UploadPC
    <3> QED BY <2>1, <3>1 DEF UrlDated, TypeOK, URL
  <2>6. UploadDated(q)'
    BY <2>2, <2>3, <2>4 DEF UploadDated
  <2>7. ASSUME NEW f \in File PROVE UrlDated(f)'
    <3>1. CASE f = req[q].file
      BY <1>1, <2>3, <2>5, <3>1 DEF UrlDated, Exists
    <3>2. CASE f # req[q].file
      BY <2>3, <3>2 DEF UrlDated, Exists
    <3> QED BY <3>1, <3>2
  <2> QED BY <2>6, <2>7
<1>6. CASE CreateRef(q)
  <2>1. req[q] \in UploadReq /\ req[q].file \in File /\ Exists(req[q].file)
    BY <1>6, RequestVariants DEF CreateRef, UploadPC, UploadReq, NamesExist
  <2>2. req'[q].pc = "idle"
    BY <1>2, <1>6 DEF CreateRef, Goto, TypeOK
  <2>3. req[q].url.until <= object[req[q].file].created + req[q].url.ttl
    BY <1>3, <1>6 DEF UploadDated, CreateRef
  <2>4. UNCHANGED object /\ \A f \in File :
          url'[f] = IF f = req[q].file THEN req[q].url ELSE url[f]
    BY <1>6, <2>1 DEF CreateRef, TypeOK
  <2>5. (\A f \in File : UrlDated(f))'
    BY <2>1, <2>3, <2>4 DEF UrlDated, Exists
  <2> QED BY <2>2, <2>5 DEF UploadDated, UploadPC
<1>7. CASE Activate(q) \/ DeleteObject(q)
  <2>1. req'[q].pc \in {"idle", "deleteCheck"} /\ UNCHANGED url
    BY <1>2, <1>7 DEF Activate, DeleteObject, Goto, TypeOK
  <2>2. UploadDated(q)'
    BY <2>1 DEF UploadDated, UploadPC
  <2>3. ASSUME NEW f \in File PROVE UrlDated(f)'
    <3>1. req[q].file \in File /\ Exists(req[q].file)
      BY <1>7, RequestVariants DEF Activate, DeleteObject, CompletePC,
                                   CompleteReq, DeletingReq, NamesExist
    <3>2. f # req[q].file => object'[f] = object[f]
      BY <1>7 DEF Activate, DeleteObject, TypeOK
    <3>3. CASE f = req[q].file
      <4>1. Exists(f) /\ Exists(f)'
        BY <1>0, <3>1, <3>3, RowsStay
      <4>2. object'[f].created = object[f].created
        BY <1>0, <4>1, UploaderStays
      <4> QED BY <2>1, <4>1, <4>2 DEF UrlDated
    <3> QED BY <2>1, <3>2, <3>3 DEF UrlDated, Exists
  <2> QED BY <2>2, <2>3
<1>8. CASE \E ttl \in PutTTL : PresignPut(q, ttl)
  <2> PICK ttl \in PutTTL : PresignPut(q, ttl)
    BY <1>8
  <2>1. req[q] \in UploadReq /\ now + ttl \in Nat /\ ttl \in Nat
    BY RequestVariants, TimeAssumption DEF PresignPut, UploadPC, TypeOK
  <2>2. req'[q] = [req[q] EXCEPT !.pc = "createObject",
                            !.url = [ttl |-> ttl, until |-> now + ttl]]
    BY DEF PresignPut, Goto, TypeOK
  <2>3. /\ req'[q].pc = "createObject"
        /\ req'[q].url.until = now + ttl /\ req'[q].url.ttl = ttl
    BY <2>1, <2>2 DEF UploadReq
  <2>4. UploadDated(q)'
    BY <1>1, <2>1, <2>3 DEF UploadDated
  <2> QED BY <1>4, <2>4 DEF PresignPut, Data
<1>9. CASE CheckOwnerQuota(q) \/ PutBytes(q)
  <2>1. req[q] \in UploadReq /\ req[q].pc \in UploadPC \ {"createRef"}
    BY <1>9, RequestVariants DEF CheckOwnerQuota, PutBytes, UploadPC
  <2>2. req'[q].url = req[q].url /\ req'[q].pc # "createRef"
    BY <1>9, <2>1 DEF CheckOwnerQuota, PutBytes, Goto, TypeOK, UploadReq
  <2>3. req[q].url.until <= now + req[q].url.ttl
    BY <1>3, <2>1 DEF UploadDated
  <2>4. UploadDated(q)'
    BY <1>1, <2>2, <2>3 DEF UploadDated
  <2> QED BY <1>4, <1>9, <2>4 DEF CheckOwnerQuota, PutBytes, Data
<1>10. CASE \E u \in User, f \in File, s \in Scene, o \in User,
               temp \in BOOLEAN, direct \in BOOLEAN :
              BeginUpload(q, u, f, s, o, temp, direct)
  <2>1. req'[q].url = NoURL /\ req'[q].pc = "ownerQuota"
    BY <1>10 DEF BeginUpload, Goto, TypeOK
  <2>2. UploadDated(q)'
    BY <1>1, <2>1 DEF UploadDated, NoURL
  <2> QED BY <1>4, <1>10, <2>2 DEF BeginUpload, Data
<1>11. ASSUME req'[q].pc \notin UploadPC, UNCHANGED <<object, url>>
       PROVE  (\A f \in File : UrlDated(f))' /\ UploadDated(q)'
  BY <1>4, <1>11 DEF UploadDated, UploadPC
<1>12. CASE HeadObject(q)
  <2>1. req[q] \in CompleteReq
    BY <1>12, RequestVariants DEF HeadObject, CompletePC
  <2>2. req'[q].pc = "activate"
    BY <1>12, <2>1 DEF HeadObject, Goto, TypeOK, CompleteReq
  <2> QED BY <1>11, <1>12, <2>2 DEF HeadObject, UploadPC, Data
<1>13. CASE BindRefs(q) \/ Abort(q)
  <2>1. req'[q].pc = "idle"
    BY <1>2, <1>13 DEF BindRefs, Abort, Goto, TypeOK
  <2> QED BY <1>11, <1>13, <2>1 DEF BindRefs, Abort, UploadPC, Data
<1>14. CASE \/ \E u \in User, f \in File : BeginComplete(q, u, f)
            \/ \E u \in User, fs \in SUBSET File, s \in Scene, o \in User :
                 BeginBind(q, u, fs, s, o)
            \/ \E u \in User, fs \in SUBSET File : BeginDelete(q, u, fs)
            \/ \E f \in File : DeleteCheck(q, f)
  BY <1>11, <1>14 DEF BeginComplete, BeginBind, BeginDelete, DeleteCheck, Goto,
                      TypeOK, UploadPC, Data
<1> QED
  BY <1>5, <1>6, <1>7, <1>8, <1>9, <1>10, <1>12, <1>13, <1>14 DEF RequestStep

\* The steps of a run keep the dates: it lists an object when its grace period
\* is over.
LEMMA CleanStepDated ==
  ASSUME TypeOK, NamesExist, Ownership,
         \A f \in File : UrlDated(f), NEW c \in Cleaner, RunDated(c),
         CleanStep(c) \/ AbortRun(c)
  PROVE  (\A f \in File : UrlDated(f))' /\ RunDated(c)'
<1>1. [Next]_vars
  BY DEF Next
<1>2. now' = now /\ url' = url
  BY OneMoves
<1>3. ASSUME NEW f \in File PROVE UrlDated(f)'
  <2>1. CASE Exists(f)
    <3>1. Exists(f)' /\ object'[f].created = object[f].created
      BY <1>1, <2>1, RowsStay, UploaderStays
    <3> QED BY <1>2, <2>1, <3>1 DEF UrlDated
  <2>2. CASE ~Exists(f)
    <3>1. \A q \in Request : ~CreateObject(q)
      <4> SUFFICES ASSUME NEW q \in Request, CreateObject(q) PROVE FALSE
        OBVIOUS
      <4>1. req[q].pc = "createObject" /\ req[q] \in UploadReq
        BY RequestVariants DEF CreateObject, UploadPC
      <4>2. req'[q].pc = "createRef"
        BY <4>1 DEF CreateObject, Goto, TypeOK, UploadReq
      <4>3. req' = req
        BY OneMoves
      <4> QED BY <4>1, <4>2, <4>3
    <3>2. object'[f] = object[f]
      BY <1>1, <2>2, <3>1, UploaderStays
    <3> QED BY <1>2, <3>2 DEF UrlDated, Exists
  <2> QED BY <2>1, <2>2
<1>4. RunDated(c)'
  <2> SUFFICES ASSUME cleaner'[c].pc \in PendingPC
               PROVE  RunDated(c)'
    BY DEF RunDated, PendingPC
  <2>1. CASE /\ cleaner'[c].pc = "nextPending" /\ UNCHANGED object
             /\ cleaner'[c].files = StalePending
    BY <1>2, <2>1 DEF RunDated, StalePending, PendFilePC
  <2>2. CASE cleaner[c].pc \in PendingPC
    <3>1. \A f \in cleaner[c].files : f \in File /\ Exists(f)
      BY <2>2, RunVariants
         DEF PendingPC, PendFilePC, FilesPC, FilePC, NamesExist, PendingRun,
             PendFileRun, PendRefsRun
    <3>2. cleaner[c].pc \in PendFilePC =>
            cleaner[c].file \in File /\ Exists(cleaner[c].file)
      BY RunVariants
         DEF PendFilePC, FilePC, NamesExist, PendFileRun, PendRefsRun
    <3>3. \A f \in cleaner[c].files : object'[f].created + PendingTTL <= now
      BY <1>1, <2>2, <3>1, UploaderStays DEF RunDated
    <3>4. cleaner[c].pc \in PendFilePC =>
            object'[cleaner[c].file].created + PendingTTL <= now
      BY <1>1, <3>2, UploaderStays DEF RunDated
    <3>5. \/ /\ cleaner'[c].pc = "nextPending" /\ UNCHANGED object
             /\ cleaner'[c].files = StalePending
          \/ /\ cleaner'[c].files \subseteq cleaner[c].files
             /\ cleaner'[c].pc \in PendFilePC =>
                  \/ cleaner'[c].file \in cleaner[c].files
                  \/ /\ cleaner[c].pc \in PendFilePC
                     /\ cleaner'[c].file = cleaner[c].file
      BY PendingSteps
    <3> QED BY <1>2, <2>1, <3>3, <3>4, <3>5 DEF RunDated
  <2> QED BY <2>1, <2>2, PendingSteps
<1> QED BY <1>3, <1>4

\* Whatever lifetime a client asks for and whatever the grace period is, the URL
\* of what the pending cleanup works on outlives it by their difference at most,
\* with any number of handlers and runs.
THEOREM LateUploads == Spec => []LateUploadIsBounded
<1>1. Init => Dated
  BY DEF Init, Dated, UrlDated, UploadDated, RunDated, Exists, NoObject, NoURL, Idle,
         UploadPC, PendingPC, PendFilePC
<1>2. TypeOK /\ NamesExist /\ Ownership /\ Dated /\ [Next]_vars => Dated'
  <2> SUFFICES ASSUME TypeOK, NamesExist, Ownership, Dated, [Next]_vars
               PROVE  Dated'
    OBVIOUS
  <2>0. /\ \A f \in File : UrlDated(f)
        /\ \A q \in Request : UploadDated(q)
        /\ \A c \in Cleaner : RunDated(c)
    BY DEF Dated
  <2>1. ASSUME NEW q \in Request, RequestStep(q) PROVE Dated'
    <3>1. /\ \A p \in Request \ {q} : req'[p] = req[p]
          /\ cleaner' = cleaner
      BY <2>1, OneMoves
    <3>2. \A p \in Request \ {q} : UploadDated(p)'
      BY <2>0, <3>1, DatesStay
    <3>3. \A c \in Cleaner : RunDated(c)'
      BY <2>0, <3>1, DatesStay
    <3>4. (\A f \in File : UrlDated(f))' /\ UploadDated(q)'
      BY <2>0, <2>1, RequestStepDated
    <3> QED BY <3>2, <3>3, <3>4 DEF Dated
  <2>2. ASSUME NEW c \in Cleaner, CleanStep(c) \/ AbortRun(c) PROVE Dated'
    <3>1. /\ \A d \in Cleaner \ {c} : cleaner'[d] = cleaner[d]
          /\ req' = req
      BY <2>2, OneMoves
    <3>2. \A q \in Request : UploadDated(q)'
      BY <2>0, <3>1, DatesStay
    <3>3. \A d \in Cleaner \ {c} : RunDated(d)'
      BY <2>0, <3>1, DatesStay
    <3>4. (\A f \in File : UrlDated(f))' /\ RunDated(c)'
      BY <2>0, <2>2, CleanStepDated
    <3> QED BY <3>2, <3>3, <3>4 DEF Dated
  <2>3. CASE (\E f \in File, content \in Content : ClientPut(f, content))
             \/ (\E f \in File : LoseStorage(f)) \/ Tick \/ UNCHANGED vars
    <3>1. UNCHANGED <<object, req, cleaner, url>>
      BY <2>3 DEF ClientPut, LoseStorage, Tick, Data, vars
    <3>2. /\ \A q \in Request : UploadDated(q)'
          /\ \A c \in Cleaner : RunDated(c)'
      BY <2>0, <3>1, DatesStay
    <3>3. (\A f \in File : UrlDated(f))'
      BY <2>0, <3>1 DEF UrlDated, Exists
    <3> QED BY <3>2, <3>3 DEF Dated
  <2> QED BY <2>1, <2>2, <2>3 DEF Next
<1>3. TypeOK /\ NamesExist /\ Dated => LateUploadIsBounded
  <2> DEFINE Bounded(f) == url[f].until + PendingTTL <= now + url[f].ttl
  <2> SUFFICES ASSUME TypeOK, NamesExist, Dated, NEW c \in Cleaner
               PROVE  /\ cleaner[c].pc \in PendFilePC \cup {"nextPending"}
                           => \A f \in cleaner[c].files : Bounded(f)
                      /\ cleaner[c].pc \in PendFilePC => Bounded(cleaner[c].file)
    BY DEF LateUploadIsBounded
  <2>1. ASSUME NEW f \in File, Exists(f), object[f].created + PendingTTL <= now
        PROVE  Bounded(f)
    <3>1. url[f].until <= object[f].created + url[f].ttl
      BY <2>1 DEF Dated, UrlDated
    <3>2. /\ url[f].until \in Nat /\ url[f].ttl \in Nat
          /\ object[f].created \in Nat /\ now \in Nat /\ PendingTTL \in Nat
      BY <2>1, CreatedType, TimeAssumption DEF TypeOK, URL
    <3> QED BY <2>1, <3>1, <3>2
  <2>2. RunDated(c)
    BY DEF Dated
  <2>3. ASSUME cleaner[c].pc \in PendingPC, NEW f \in cleaner[c].files
        PROVE  Bounded(f)
    <3>1. f \in File /\ Exists(f)
      BY <2>3, RunVariants
         DEF PendingPC, PendFilePC, FilesPC, FilePC, NamesExist, PendingRun,
             PendFileRun, PendRefsRun
    <3> QED BY <2>1, <2>2, <2>3, <3>1 DEF RunDated
  <2>4. ASSUME cleaner[c].pc \in PendFilePC
        PROVE  Bounded(cleaner[c].file)
    <3>1. cleaner[c].file \in File /\ Exists(cleaner[c].file)
      BY <2>4, RunVariants
         DEF PendFilePC, FilePC, NamesExist, PendFileRun, PendRefsRun
    <3> QED BY <2>1, <2>2, <2>4, <3>1 DEF RunDated
  <2> QED BY <2>3, <2>4 DEF PendingPC
<1> QED BY <1>1, <1>2, <1>3, TypeCorrect, OwnershipHolds, PTL DEF Spec

-----------------------------------------------------------------------------
(* What is bound before a cleanup run lists stays, if runs do not overlap.  *)

OneCleaner == \A c, d \in Cleaner : c = d

HasActive(f) == \E k \in Slot : ref[f][k].status = "active"

\* A file the run found bound has an active ref, and one that is not about to
\* be marked; so the file the run counts no refs of is another.
KeepsBound(c) ==
  /\ cleaner[c].pc = "markRefs" =>
       \A f \in cleaner[c].kept :
         \E k \in Slot : /\ ref[f][k].status = "active"
                         /\ <<f, k>> \notin cleaner[c].expired
  /\ cleaner[c].pc \in TempFilePC \cup {"countRefs"} =>
       \A f \in cleaner[c].kept : HasActive(f)
  /\ cleaner[c].pc \in TempFilePC => cleaner[c].file \notin cleaner[c].kept

KeptBound == OneCleaner => \A c \in Cleaner : KeepsBound(c)

\* A nonempty set of numbers has a least one.
LEMMA LeastNat ==
  ASSUME NEW T, T \subseteq Nat, T # {}
  PROVE  \E k \in T : \A j \in T : k <= j
<1> DEFINE R == OpToRel(<, Nat)
<1>1. IsWellFoundedOn(R, Nat)
  BY NatLessThanWellFounded, Zenon
<1>2. \A a, b \in Nat : a < b => <<a, b>> \in R
  BY Zenon DEF OpToRel
<1> HIDE DEF R
<1>3. PICK k \in T : \A j \in T : <<j, k>> \notin R
  BY <1>1, WFMin
<1>4. \A j \in T : ~(j < k)
  BY <1>2, <1>3, Zenon
<1> QED BY <1>4

\* A new ref gets an id no ref of the file has.
LEMMA NextSlotIsFree ==
  ASSUME NEW f \in File, FreeSlots(f) # {}
  PROVE  NextSlot(f) \in FreeSlots(f)
<1>1. FreeSlots(f) \subseteq Nat
  BY SlotAssumption DEF FreeSlots
<1>2. \E k \in FreeSlots(f) : \A j \in FreeSlots(f) : k <= j
  BY <1>1, LeastNat
<1> QED BY <1>2 DEF NextSlot

\* Nothing but a cleanup run marks refs, and it marks those it has listed.
LEMMA ActiveStays ==
  ASSUME TypeOK, [Next]_vars, NEW f \in File, NEW k \in Slot,
         ref[f][k].status = "active"
  PROVE  \/ ref'[f][k].status = "active"
         \/ \E c \in Cleaner : /\ cleaner[c].pc = "markRefs" /\ MarkExpired(c)
                               /\ <<f, k>> \in cleaner[c].expired
         \/ \E c \in Cleaner : /\ cleaner[c].pc = "markPendingRefs"
                               /\ cleaner'[c].pc = "markPending"
<1>1. ASSUME NEW q \in Request, RequestStep(q)
      PROVE  ref'[f][k].status = "active"
  <2>1. CASE CreateRef(q)
    <3>1. req[q].file \in File /\ FreeSlots(req[q].file) # {}
      BY <2>1, RequestVariants DEF CreateRef, UploadPC, UploadReq
    <3>2. NextSlot(req[q].file) \in FreeSlots(req[q].file)
      BY <3>1, NextSlotIsFree
    <3>3. f # req[q].file \/ k # NextSlot(req[q].file)
      BY <3>2 DEF FreeSlots
    <3> DEFINE n == NextSlot(req[q].file)
    <3>4. \E r : ref' = [ref EXCEPT ![req[q].file][n] = r]
      BY <2>1 DEF CreateRef
    <3> HIDE DEF n
    <3>5. ref'[f][k] = ref[f][k]
      BY <3>3, <3>4 DEF TypeOK, n
    <3> QED BY <3>5
  <2>2. CASE BindRefs(q)
    BY <2>2 DEF BindRefs, BoundRef
  <2>3. CASE UNCHANGED ref
    BY <2>3
  <2> QED
    BY <1>1, <2>1, <2>2, <2>3
    DEF RequestStep, BeginUpload, CheckOwnerQuota, PutBytes, PresignPut,
        CreateObject, BeginComplete, HeadObject, Activate, BeginBind,
        BeginDelete, DeleteCheck, DeleteObject, Abort, Data
<1>2. ASSUME NEW c \in Cleaner, CleanStep(c) \/ AbortRun(c)
      PROVE  \/ ref'[f][k].status = "active"
             \/ /\ cleaner[c].pc = "markRefs" /\ MarkExpired(c)
                /\ <<f, k>> \in cleaner[c].expired
             \/ /\ cleaner[c].pc = "markPendingRefs"
                /\ cleaner'[c].pc = "markPending"
  <2>1. CASE MarkExpired(c)
    BY <2>1 DEF MarkExpired
  <2>2. CASE MarkPendingRefs(c)
    BY <2>2 DEF MarkPendingRefs, CleanTo, TypeOK
  <2>3. CASE UNCHANGED ref
    BY <2>3
  <2> QED
    BY <1>2, <2>1, <2>2, <2>3
    DEF CleanStep, ListExpired, CountRefs, GetObject, DeleteBytes, MarkObject,
        ListPending, DeletePendingBytes, ListPendingRefs, MarkPending, StorageFails, AbortRun,
        Data
<1> QED BY <1>1, <1>2 DEF Next, ClientPut, LoseStorage, Tick, Data, vars

\* A run that does not move while no other marks refs keeps what was bound.
LEMMA KeepsBoundStays ==
  ASSUME TypeOK, [Next]_vars, OneCleaner, NEW c \in Cleaner, KeepsBound(c),
         cleaner' = cleaner
  PROVE  KeepsBound(c)'
<1>1. ASSUME NEW f \in File, NEW k \in Slot, ref[f][k].status = "active"
      PROVE  ref'[f][k].status = "active"
  <2> SUFFICES ASSUME ref'[f][k].status # "active" PROVE FALSE
    OBVIOUS
  <2>1. PICK d \in Cleaner :
          \/ cleaner[d].pc = "markRefs" /\ MarkExpired(d)
          \/ /\ cleaner[d].pc = "markPendingRefs"
             /\ cleaner'[d].pc = "markPending"
    BY <1>1, ActiveStays
  <2>2. CASE MarkExpired(d) /\ cleaner[d].pc = "markRefs"
    <3>1. cleaner'[d].pc = "countRefs"
      BY <2>2 DEF MarkExpired, CleanTo, TypeOK
    <3> QED BY <2>2, <3>1
  <2> QED BY <2>1, <2>2
<1>2. cleaner[c].pc \in {"markRefs", "countRefs"} \cup TempFilePC =>
        cleaner[c].kept \subseteq File
  BY RunVariants DEF MarkRun, FilesRun, FileRun
<1>3. ASSUME cleaner[c].pc = "markRefs", NEW f \in cleaner[c].kept
      PROVE  \E k \in Slot : /\ ref'[f][k].status = "active"
                             /\ <<f, k>> \notin cleaner[c].expired
  BY <1>1, <1>2, <1>3 DEF KeepsBound
<1>4. ASSUME cleaner[c].pc \in TempFilePC \cup {"countRefs"},
             NEW f \in cleaner[c].kept
      PROVE  \E k \in Slot : ref'[f][k].status = "active"
  BY <1>1, <1>2, <1>4 DEF KeepsBound, HasActive
<1> QED BY <1>3, <1>4 DEF KeepsBound, HasActive

\* The steps of the one run: it lists, marks, counts and deletes.
LEMMA CleanStepKeeps ==
  ASSUME TypeOK, OneCleaner, NEW c \in Cleaner, KeepsBound(c),
         CleanStep(c) \/ AbortRun(c)
  PROVE  KeepsBound(c)'
<1>0. Idle.pc = "idle"
  BY DEF Idle
<1> USE DEF TempFilePC
<1>1. CASE ListExpired(c)
  <2> DEFINE kept == {f \in File : \E k \in Slot : ref[f][k].status = "active"}
  <2>1. UNCHANGED ref /\ cleaner'[c].pc \in {"listPending", "markRefs"}
    BY <1>1 DEF ListExpired, CleanTo, TypeOK, Data
  <2>2. cleaner'[c].pc = "markRefs" =>
          cleaner'[c].expired = ExpiredTempRefs /\ cleaner'[c].kept = kept
    BY <1>1 DEF ListExpired, CleanTo, TypeOK
  <2>3. \A f \in kept : \E k \in Slot : /\ ref[f][k].status = "active"
                                        /\ <<f, k>> \notin ExpiredTempRefs
    BY DEF ExpiredTempRefs
  <2> HIDE DEF kept
  <2> QED BY <2>1, <2>2, <2>3 DEF KeepsBound
<1>2. CASE MarkExpired(c)
  <2>1. cleaner[c] \in MarkRun
    BY <1>2, RunVariants DEF MarkExpired
  <2>2. cleaner'[c].pc = "countRefs" /\ cleaner'[c].kept = cleaner[c].kept
    BY <1>2 DEF MarkExpired, CleanTo, TypeOK
  <2>3. \A f \in cleaner[c].kept : \E k \in Slot : ref'[f][k].status = "active"
    BY <1>2, <2>1 DEF MarkExpired, KeepsBound, MarkRun
  <2> QED BY <2>2, <2>3 DEF KeepsBound, HasActive
<1>3. CASE \E f \in File : CountRefs(c, f)
  <2> PICK f \in File : CountRefs(c, f)
    BY <1>3
  <2>1. /\ cleaner'[c].pc \in {"getObject", "listPending", "countRefs"}
        /\ cleaner'[c].pc # "listPending" => cleaner'[c].kept = cleaner[c].kept
        /\ cleaner'[c].pc = "getObject" =>
             cleaner'[c].file = f /\ LiveSlots(f) = {}
    BY DEF CountRefs, CleanTo, TypeOK
  <2>2. UNCHANGED ref /\ cleaner[c].pc = "countRefs"
    BY DEF CountRefs, Data
  <2>3. LiveSlots(f) = {} => f \notin cleaner[c].kept
    BY <2>2 DEF KeepsBound, HasActive, LiveSlots, Live
  <2> QED BY <2>1, <2>2, <2>3 DEF KeepsBound, HasActive
<1>4. CASE GetObject(c) \/ DeleteBytes(c) \/ MarkObject(c)
  <2>1. cleaner[c] \in FileRun /\ cleaner[c].pc \in TempFilePC
    BY <1>4, RunVariants DEF GetObject, DeleteBytes, MarkObject
  <2>2. /\ cleaner'[c].pc \in {"listPending", "countRefs", "deleteBytes",
                               "markObject"}
        /\ cleaner'[c].pc # "listPending" => cleaner'[c].kept = cleaner[c].kept
        /\ cleaner'[c].pc \in TempFilePC => cleaner'[c].file = cleaner[c].file
    BY <1>4, <2>1 DEF GetObject, DeleteBytes, MarkObject, NextFile, CleanTo,
                      TypeOK, FileRun
  <2>3. UNCHANGED ref
    BY <1>4 DEF GetObject, DeleteBytes, MarkObject, Data
  <2> QED BY <2>1, <2>2, <2>3 DEF KeepsBound, HasActive
<1>5. ASSUME cleaner'[c].pc \notin TempFilePC \cup {"countRefs", "markRefs"}
      PROVE  KeepsBound(c)'
  BY <1>5 DEF KeepsBound
<1>6. CASE \/ ListPending(c) \/ (\E f \in File : DeletePendingBytes(c, f))
           \/ MarkPendingRefs(c) \/ MarkPending(c) \/ AbortRun(c)
           \/ StorageFails(c)
  <2>1. cleaner'[c].pc \in {"idle", "nextPending", "listRefs", "markPending"}
    BY <1>0, <1>6 DEF ListPending, DeletePendingBytes, MarkPendingRefs,
       MarkPending, StorageFails, AbortRun, PendingTo, CleanTo, TypeOK
  <2> QED BY <1>5, <2>1
<1>7. CASE ListPendingRefs(c)
  <2>1. cleaner[c] \in PendFileRun
    BY <1>7, RunVariants DEF ListPendingRefs
  <2>2. cleaner'[c].pc \in {"markPending", "markPendingRefs"}
    BY <1>7, <2>1 DEF ListPendingRefs, CleanTo, TypeOK, PendFileRun
  <2> QED BY <1>5, <2>2
<1> QED
  BY <1>1, <1>2, <1>3, <1>4, <1>6, <1>7 DEF CleanStep

\* Whatever uploads and binds interleave with it, a run that no other overlaps
\* does not remove a file that had an active ref when it listed.
THEOREM BoundFilesAreKept ==
  ASSUME OneCleaner
  PROVE  Spec => []BoundBeforeRunIsKept
<1>1. Init => KeptBound
  BY DEF Init, KeptBound, KeepsBound, Idle, TempFilePC
<1>2. TypeOK /\ KeptBound /\ [Next]_vars => KeptBound'
  <2> SUFFICES ASSUME TypeOK, [Next]_vars, NEW c \in Cleaner, KeepsBound(c)
               PROVE  KeepsBound(c)'
    BY DEF KeptBound
  <2>1. CASE cleaner' = cleaner
    BY <2>1, KeepsBoundStays
  <2>2. CASE \E d \in Cleaner : CleanStep(d) \/ AbortRun(d)
    <3>1. CleanStep(c) \/ AbortRun(c)
      BY <2>2 DEF OneCleaner
    <3> QED BY <3>1, CleanStepKeeps
  <2>3. CASE \/ \E q \in Request : RequestStep(q)
             \/ \E f \in File, content \in Content : ClientPut(f, content)
             \/ \E f \in File : LoseStorage(f)
             \/ Tick \/ UNCHANGED vars
    BY <2>1, <2>3, OneMoves DEF ClientPut, LoseStorage, Tick, vars
  <2> QED BY <2>2, <2>3 DEF Next
<1>3. KeptBound => BoundBeforeRunIsKept
  BY DEF KeptBound, KeepsBound, BoundBeforeRunIsKept
<1> QED BY <1>1, <1>2, <1>3, TypeCorrect, PTL DEF Spec

-----------------------------------------------------------------------------
(* How often completions in flight bring a deleted file back.              *)

\* The completions of a file that have begun and not written yet.
Reviving(f) == {q \in Request : req[q].pc \in CompletePC /\ req[q].file = f}

New == {"absent", "pending"}

\* Every revival uses up a completion, and none begins once the file was active.
RevivalsCounted(f) ==
  IF object[f].status \in New THEN revived[f] = 0
  ELSE revived[f] + Cardinality(Reviving(f)) <= Cardinality(Request)

\* A file that was active or deleted is never pending again.
LEMMA NeverNewAgain ==
  ASSUME TypeOK, NamesExist, Ownership, [Next]_vars, NEW f \in File,
         object[f].status \notin New
  PROVE  object'[f].status \notin New
<1> USE DEF New
<1>1. ASSUME NEW q \in Request, RequestStep(q)
      PROVE  object'[f].status \notin New
  <2>1. CASE CreateObject(q)
    <3>1. ~Exists(req[q].file)
      BY <2>1 DEF CreateObject, Ownership, UploadOwns, UploadPC
    <3>2. f # req[q].file
      BY <3>1 DEF Exists
    <3> QED BY <2>1, <3>2 DEF CreateObject, TypeOK
  <2>2. CASE Activate(q) \/ DeleteObject(q)
    <3>1. PICK st \in {"active", "deleted"} :
            object' = [object EXCEPT ![req[q].file].status = st]
      BY <2>2 DEF Activate, DeleteObject
    <3>2. object[f] \in ObjectRow
      BY DEF TypeOK, NoObject
    <3> QED BY <3>1, <3>2 DEF TypeOK, ObjectRow
  <2>3. CASE UNCHANGED object
    BY <2>3
  <2> QED
    BY <1>1, <2>1, <2>2, <2>3
    DEF RequestStep, BeginUpload, CheckOwnerQuota, PutBytes, PresignPut,
        CreateRef, BeginComplete, HeadObject, BeginBind, BindRefs, BeginDelete,
        DeleteCheck, Abort, Data
<1>2. ASSUME NEW c \in Cleaner, CleanStep(c) \/ AbortRun(c)
      PROVE  object'[f].status \notin New
  <2>1. \/ UNCHANGED object
        \/ object' = [object EXCEPT ![cleaner[c].file].status = "deleted"]
    BY <1>2 DEF CleanStep, ListExpired, MarkExpired, CountRefs, GetObject,
           DeleteBytes, MarkObject, ListPending, DeletePendingBytes,
           ListPendingRefs, MarkPendingRefs, MarkPending, StorageFails, AbortRun,
           Data
  <2>2. object[f] \in ObjectRow
    BY DEF TypeOK, NoObject
  <2> QED BY <2>1, <2>2 DEF TypeOK, ObjectRow
<1> QED BY <1>1, <1>2 DEF Next, ClientPut, LoseStorage, Tick, Data, vars

\* A revival ends a completion of a deleted file; otherwise no completion of a
\* file that was active begins.
LEMMA RevivalStep ==
  ASSUME TypeOK, NEW q \in Request, RequestStep(q), NEW f \in File
  PROVE  \/ /\ revived'[f] = revived[f]
            /\ object[f].status \notin New => Reviving(f)' \subseteq Reviving(f)
         \/ /\ object[f].status = "deleted" /\ revived'[f] = revived[f] + 1
            /\ q \in Reviving(f) /\ Reviving(f)' \subseteq Reviving(f) \ {q}
<1>0. /\ \A p \in Request \ {q} : req'[p] = req[p]
      /\ Idle.pc = "idle"
  BY OneMoves DEF Idle
<1>1. ASSUME req'[q].pc \notin CompletePC \/ req'[q].file # f
      PROVE  Reviving(f)' \subseteq Reviving(f) \ {q}
  BY <1>0, <1>1 DEF Reviving
<1>2. CASE Activate(q)
  <2>1. req[q] \in CompleteReq /\ req'[q].pc = "idle"
    BY <1>0, <1>2, RequestVariants DEF Activate, CompletePC, Goto, TypeOK
  <2>2. Reviving(f)' \subseteq Reviving(f) \ {q}
    BY <1>1, <2>1 DEF CompletePC
  <2>3. CASE f = req[q].file /\ object[f].status = "deleted"
    <3>1. revived'[f] = revived[f] + 1 /\ q \in Reviving(f)
      BY <1>2, <2>3 DEF Activate, Reviving, CompletePC, TypeOK
    <3> QED BY <2>2, <2>3, <3>1
  <2>4. CASE ~(f = req[q].file /\ object[f].status = "deleted")
    <3>1. revived'[f] = revived[f]
      BY <1>2, <2>4 DEF Activate, TypeOK
    <3> QED BY <2>2, <3>1
  <2> QED BY <2>3, <2>4
<1>3. CASE HeadObject(q)
  <2>1. req[q] \in CompleteReq /\ req[q].pc = "head"
    BY <1>3, RequestVariants DEF HeadObject, CompletePC
  <2>2. req'[q].file = req[q].file
    BY <1>3, <2>1 DEF HeadObject, Goto, TypeOK, CompleteReq
  <2>3. Reviving(f)' \subseteq Reviving(f)
    BY <1>0, <2>1, <2>2 DEF Reviving, CompletePC
  <2> QED BY <1>3, <2>3 DEF HeadObject
<1>4. CASE \E u \in User, g \in File : BeginComplete(q, u, g)
  <2> PICK u \in User, g \in File : BeginComplete(q, u, g)
    BY <1>4
  <2>1. req'[q].file = g /\ object[g].status = "pending" /\ revived' = revived
    BY DEF BeginComplete, Goto, TypeOK
  <2> QED BY <1>1, <2>1 DEF New
<1>5. ASSUME revived' = revived, req'[q].pc \notin CompletePC
      PROVE  /\ revived'[f] = revived[f]
             /\ object[f].status \notin New => Reviving(f)' \subseteq Reviving(f)
  BY <1>1, <1>5
<1>6. CASE CheckOwnerQuota(q) \/ PutBytes(q) \/ CreateObject(q)
  <2>1. req[q] \in UploadReq
    BY <1>6, RequestVariants DEF CheckOwnerQuota, PutBytes, CreateObject, UploadPC
  <2>2. req'[q].pc \notin CompletePC
    BY <1>6, <2>1 DEF CheckOwnerQuota, PutBytes, CreateObject, Goto, TypeOK,
                      UploadReq, CompletePC
  <2> QED BY <1>5, <1>6, <2>2 DEF CheckOwnerQuota, PutBytes, CreateObject
<1>7. CASE \E ttl \in PutTTL : PresignPut(q, ttl)
  <2> PICK ttl \in PutTTL : PresignPut(q, ttl)
    BY <1>7
  <2>1. req[q] \in UploadReq
    BY RequestVariants DEF PresignPut, UploadPC
  <2>2. req'[q].pc = "createObject"
    BY <2>1 DEF PresignPut, Goto, TypeOK, UploadReq
  <2> QED BY <1>5, <2>2 DEF PresignPut, CompletePC
<1>8. CASE CreateRef(q) \/ BindRefs(q) \/ DeleteObject(q) \/ Abort(q)
  <2>1. req'[q].pc \in {"idle", "deleteCheck"}
    BY <1>0, <1>8 DEF CreateRef, BindRefs, DeleteObject, Abort, Goto, TypeOK
  <2> QED BY <1>5, <1>8, <2>1 DEF CreateRef, BindRefs, DeleteObject, Abort, CompletePC
<1>9. CASE \E u \in User, g \in File, s \in Scene, o \in User,
              temp \in BOOLEAN, direct \in BOOLEAN :
             BeginUpload(q, u, g, s, o, temp, direct)
  <2> PICK u \in User, g \in File, s \in Scene, o \in User,
           temp \in BOOLEAN, direct \in BOOLEAN :
             BeginUpload(q, u, g, s, o, temp, direct)
    BY <1>9
  <2>1. req'[q].pc = "ownerQuota" /\ revived' = revived
    BY DEF BeginUpload, Goto, TypeOK
  <2> QED BY <1>5, <2>1 DEF CompletePC
<1>10. CASE \E u \in User, fs \in SUBSET File, s \in Scene, o \in User :
              BeginBind(q, u, fs, s, o)
  <2>1. req'[q].pc = "bindRefs" /\ revived' = revived
    BY <1>10 DEF BeginBind, Goto, TypeOK
  <2> QED BY <1>5, <2>1 DEF CompletePC
<1>11. CASE \/ \E u \in User, fs \in SUBSET File : BeginDelete(q, u, fs)
            \/ \E g \in File : DeleteCheck(q, g)
  <2>1. req'[q].pc \in {"deleteCheck", "delete"} /\ revived' = revived
    BY <1>11 DEF BeginDelete, DeleteCheck, Goto, TypeOK
  <2> QED BY <1>5, <2>1 DEF CompletePC
<1> QED
  BY <1>2, <1>3, <1>4, <1>6, <1>7, <1>8, <1>9, <1>10, <1>11 DEF RequestStep

\* However long uploads, completions, deletions and cleanups go on, a file that
\* was deleted comes back at most once for each handler.
THEOREM Revivals == Spec => []RevivalsBounded
<1>0. /\ Cardinality(Request) \in Nat
      /\ \A Q \in SUBSET Request : /\ IsFiniteSet(Q) /\ Cardinality(Q) \in Nat
                                   /\ Cardinality(Q) <= Cardinality(Request)
  BY FileAssumption, FS_CardinalityType, FS_Subset
<1>1. Init => \A f \in File : RevivalsCounted(f)
  BY DEF Init, RevivalsCounted, New, NoObject
<1>2. /\ TypeOK /\ NamesExist /\ Ownership /\ [Next]_vars
      /\ \A f \in File : RevivalsCounted(f)
      => (\A f \in File : RevivalsCounted(f))'
  <2> SUFFICES ASSUME TypeOK, NamesExist, Ownership, [Next]_vars, NEW f \in File,
                      RevivalsCounted(f)
               PROVE  RevivalsCounted(f)'
    OBVIOUS
  <2> DEFINE R == Reviving(f)
             n == Cardinality(Request)
  <2>0. /\ R \in SUBSET Request /\ R' \in SUBSET Request /\ n \in Nat
        /\ IsFiniteSet(R) /\ Cardinality(R) \in Nat /\ revived[f] \in Nat
        /\ Cardinality(R') \in Nat /\ Cardinality(R') <= n
        /\ object[f].status \notin New => object'[f].status \notin New
    <3>1. R \in SUBSET Request /\ R' \in SUBSET Request
      BY DEF Reviving
    <3>2. object[f].status \notin New => object'[f].status \notin New
      BY NeverNewAgain
    <3>3. revived[f] \in Nat
      BY DEF TypeOK
    <3> HIDE DEF R
    <3> QED BY <1>0, <3>1, <3>2, <3>3
  <2>1. ASSUME revived'[f] = revived[f],
               object[f].status \notin New => R' \subseteq R
        PROVE  RevivalsCounted(f)'
    <3>1. CASE object[f].status \in New
      BY <2>0, <2>1, <3>1 DEF RevivalsCounted
    <3>2. CASE object[f].status \notin New
      <4>1. revived[f] + Cardinality(R) <= n
        BY <3>2 DEF RevivalsCounted
      <4>2. Cardinality(R') <= Cardinality(R)
        <5>1. R' \subseteq R
          BY <2>1, <3>2
        <5> HIDE DEF R
        <5> QED BY <2>0, <5>1, FS_Subset
      <4>3. revived[f] + Cardinality(R') <= n
        BY <2>0, <4>1, <4>2
      <4> QED BY <2>0, <2>1, <3>2, <4>3 DEF RevivalsCounted
    <3> QED BY <3>1, <3>2
  <2>2. CASE \E q \in Request : RequestStep(q)
    <3> PICK q \in Request : RequestStep(q)
      BY <2>2
    <3>1. CASE /\ object[f].status = "deleted" /\ revived'[f] = revived[f] + 1
               /\ q \in R /\ R' \subseteq R \ {q}
      <4>1. object[f].status \notin New
        BY <3>1 DEF New
      <4>2. revived[f] + Cardinality(R) <= n
        BY <4>1 DEF RevivalsCounted
      <4>3. Cardinality(R') <= Cardinality(R) - 1
        <5> HIDE DEF R
        <5>1. /\ IsFiniteSet(R \ {q})
              /\ Cardinality(R \ {q}) = Cardinality(R) - 1
          BY <2>0, <3>1, FS_RemoveElement
        <5>2. Cardinality(R') <= Cardinality(R \ {q})
          BY <3>1, <5>1, FS_Subset
        <5> QED BY <5>1, <5>2
      <4>4. revived[f] + 1 + Cardinality(R') <= n
        BY <2>0, <4>2, <4>3
      <4> QED BY <2>0, <3>1, <4>1, <4>4 DEF RevivalsCounted
    <3> QED BY <2>1, <3>1, RevivalStep
  <2>3. CASE \/ \E c \in Cleaner : CleanStep(c) \/ AbortRun(c)
             \/ \E g \in File, content \in Content : ClientPut(g, content)
             \/ \E g \in File : LoseStorage(g)
             \/ Tick \/ UNCHANGED vars
    <3>1. UNCHANGED <<req, revived>>
      BY <2>3
         DEF CleanStep, ListExpired, MarkExpired, CountRefs, GetObject,
             DeleteBytes, MarkObject, ListPending, DeletePendingBytes,
             ListPendingRefs, MarkPendingRefs, MarkPending, StorageFails, AbortRun,
             ClientPut, LoseStorage, Tick, vars
    <3>2. R' = R
      BY <3>1 DEF Reviving
    <3> QED BY <2>1, <3>1, <3>2
  <2> QED BY <2>2, <2>3 DEF Next
<1>3. TypeOK /\ (\A f \in File : RevivalsCounted(f)) => RevivalsBounded
  <2> SUFFICES ASSUME TypeOK, NEW f \in File, RevivalsCounted(f)
               PROVE  revived[f] <= Cardinality(Request)
    BY DEF RevivalsBounded
  <2>1. Reviving(f) \in SUBSET Request /\ revived[f] \in Nat
    BY DEF Reviving, TypeOK
  <2>2. Cardinality(Reviving(f)) \in Nat
    BY <1>0, <2>1
  <2> QED BY <1>0, <2>1, <2>2 DEF RevivalsCounted
<1> QED
  BY <1>1, <1>2, <1>3, TypeCorrect, OwnershipHolds, PTL DEF Spec
=============================================================================
