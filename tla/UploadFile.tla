----------------------------- MODULE UploadFile -----------------------------
(***************************************************************************)
(* The life of an uploaded file in the uploadfile plugin                   *)
(* (admin/plugins/uploadfile/service/service.go and owner.go over          *)
(* repo/gorm.go and repo/memory.go): multipart and presigned uploads,      *)
(* completion, binding, deletion, and the cleanup task.                    *)
(*                                                                         *)
(* A repository call or a storage call is one atomic step, since every     *)
(* call is its own statement, transaction or critical section; what a      *)
(* handler does between two calls it does with what it read before.        *)
(* Requests and cleanup runs interleave at the calls.                      *)
(***************************************************************************)
EXTENDS Naturals, FiniteSets

CONSTANTS
  File,             \* file ids (the random uuid of an object names its key)
  Slot,             \* ids of the refs one file may have; bounds the refs
  Scene,            \* upload scenes, all enabled and all on one storage
  User,             \* authenticated actors
  SuperUser,        \* the actors with IsSuperAdmin
  Request,          \* request handlers that may run at the same time
  Cleaner,          \* cleanup runs that may overlap: task worker, command
  MaxTotalFiles,    \* UPLOADFILE_MAX_TOTAL_FILES, 0 disables the limit
  MaxOwnerFiles,    \* UPLOADFILE_MAX_OWNER_FILES, 0 disables the limit
  TempTTL,          \* a scene's temp_ttl_seconds
  PutTTL,           \* the ttl_seconds a client may ask of a presigned URL
  PendingTTL,       \* age at which cleanup takes a pending object
  PresignSupported, \* FALSE for the local backend, TRUE for s3 and oss
  Losable,          \* the files whose storage may be lost; bounds the losses
  Content,          \* what clients put: "good" as declared, "bad" not
  MaxTime           \* bound of the clock

ASSUME FileAssumption == IsFiniteSet(File) /\ IsFiniteSet(Request)
ASSUME SlotAssumption == Slot \subseteq Nat
ASSUME UserAssumption == SuperUser \subseteq User
ASSUME LimitAssumption == MaxTotalFiles \in Nat /\ MaxOwnerFiles \in Nat
ASSUME TimeAssumption ==
  /\ TempTTL \in Nat /\ PendingTTL \in Nat /\ PutTTL \subseteq Nat
  /\ MaxTime \in Nat
ASSUME PresignAssumption ==
  PresignSupported \in BOOLEAN /\ Content \subseteq {"good", "bad"}

VARIABLES
  object,    \* upload_file_object rows
  ref,       \* upload_file_ref rows, by file and slot
  blob,      \* what the storage backend holds under the object's key
  url,       \* the presigned URL the client holds: its lifetime and expiry
  req,       \* where each request handler is, with its local variables
  cleaner,   \* where each cleanup run is, with its local variables
  now,       \* the clock s.now()
  granted,   \* history: the owners a super admin named for a file
  revived,   \* history: how often a completion brought a deleted file back
  lost       \* the files whose storage row is gone or has another code

vars == <<object, ref, blob, url, req, cleaner, now, granted, revived, lost>>

-----------------------------------------------------------------------------
(* The rows and the local states of handlers and cleanup runs.             *)

NoObject  == [status |-> "absent"]
ObjectRow == [status: {"pending", "active", "deleted"},
              uploader: User, created: Nat]

NoRef  == [status |-> "absent"]
RefRow == [status: {"temp", "active", "deleted"},
           scene: Scene, owner: User, expires: Nat]
NoExpiry == 0

URL   == [ttl: Nat, until: Nat]
NoURL == [ttl |-> 0, until |-> 0]

Idle == [pc |-> "idle"]

TempFilePC == {"getObject", "deleteBytes", "markObject"}
PendFilePC == {"listRefs", "markPendingRefs", "markPending"}
FilePC  == TempFilePC \cup PendFilePC
FilesPC == FilePC \cup {"countRefs", "nextPending"}

UploadPC   == {"ownerQuota", "put", "presignPut", "createObject", "createRef"}
CompletePC == {"head", "activate"}

UploadReq   == [pc: UploadPC, user: User, file: File, scene: Scene,
                owner: User, temp: BOOLEAN, direct: BOOLEAN, url: URL]
CompleteReq == [pc: CompletePC, file: File]
BindReq     == [pc: {"bindRefs"}, files: SUBSET File, scene: Scene,
                owner: User]
DeleteReq   == [pc: {"deleteCheck"}, user: User, files: SUBSET File]
DeletingReq == [pc: {"delete"}, user: User, files: SUBSET File, file: File]

Requests ==
  {Idle} \cup UploadReq \cup CompleteReq \cup BindReq
         \cup DeleteReq \cup DeletingReq

\* "kept" is history: the files that had an active ref when the run listed.
MarkRun    == [pc: {"markRefs"}, expired: SUBSET (File \X Slot),
               kept: SUBSET File]
FilesRun   == [pc: {"countRefs"}, files: SUBSET File, kept: SUBSET File]
FileRun    == [pc: TempFilePC,
               files: SUBSET File, file: File, kept: SUBSET File]
ListRun    == [pc: {"listPending"}]
PendingRun == [pc: {"nextPending"}, files: SUBSET File]
PendFileRun == [pc: {"listRefs", "markPending"}, files: SUBSET File,
                file: File]
PendRefsRun == [pc: {"markPendingRefs"}, files: SUBSET File, file: File,
                slots: SUBSET Slot]

Runs ==
  {Idle} \cup MarkRun \cup FilesRun \cup FileRun \cup ListRun
         \cup PendingRun \cup PendFileRun \cup PendRefsRun

-----------------------------------------------------------------------------
(* Queries.                                                                *)

Live == {"temp", "active"}

Exists(f) == object[f].status # "absent"

UsedFiles == {f \in File : object[f].status \in {"pending", "active"}}

OwnerFiles(o) ==
  {f \in UsedFiles :
     \E k \in Slot : ref[f][k].status \in Live /\ ref[f][k].owner = o}

\* Mutant: the file being uploaded is not counted.
ExceedsFileQuotaLate(current, limit) == limit > 0 /\ current > limit

ExceedsFileQuota(current, limit) == limit > 0 /\ current + 1 > limit

AllowsOwner(u, o) == u \in SuperUser \/ o = u

OwnsObject(u, f) ==
  \/ u \in SuperUser
  \/ object[f].uploader = u
  \/ \E k \in Slot : ref[f][k].status \in Live /\ AllowsOwner(u, ref[f][k].owner)

\* Mutant: any authenticated actor may use any file.
AccessibleByAll(u, f) == Exists(f)

Accessible(u, f) == Exists(f) /\ OwnsObject(u, f)

\* Mutant: only refs of active objects are listed.
ExpiredTempRefsOfActive ==
  {r \in File \X Slot :
     /\ object[r[1]].status = "active"
     /\ ref[r[1]][r[2]].status = "temp"
     /\ ref[r[1]][r[2]].expires <= now}

ExpiredTempRefs ==
  {r \in File \X Slot :
     /\ ref[r[1]][r[2]].status = "temp"
     /\ ref[r[1]][r[2]].expires <= now}

\* Mutant: the grace period ends one tick early.
StalePendingEarly ==
  {f \in File :
     /\ object[f].status = "pending"
     /\ object[f].created + PendingTTL <= now + 1}

\* Mutant: pending objects are found by their refs.
StalePendingByRefs ==
  {f \in File :
     /\ object[f].status = "pending"
     /\ object[f].created + PendingTTL <= now
     /\ \E k \in Slot : ref[f][k].status \in Live}

StalePending ==
  {f \in File :
     /\ object[f].status = "pending"
     /\ object[f].created + PendingTTL <= now}

\* Mutant: only temp refs are counted.
LiveSlotsTempOnly(f) == {k \in Slot : ref[f][k].status = "temp"}

LiveSlots(f) == {k \in Slot : ref[f][k].status \in Live}
FreeSlots(f) == {k \in Slot : ref[f][k].status = "absent"}
NextSlot(f) == CHOOSE k \in FreeSlots(f) : \A j \in FreeSlots(f) : k <= j

\* A key no row, no stored bytes and no other handler has: randomHex(16).
Fresh(f) ==
  /\ ~Exists(f) /\ blob[f] = "none"
  /\ \A q \in Request : req[q].pc \in UploadPC => req[q].file # f

-----------------------------------------------------------------------------
Init ==
  /\ object = [f \in File |-> NoObject]
  /\ ref = [f \in File |-> [k \in Slot |-> NoRef]]
  /\ blob = [f \in File |-> "none"]
  /\ url = [f \in File |-> NoURL]
  /\ req = [q \in Request |-> Idle]
  /\ cleaner = [c \in Cleaner |-> Idle]
  /\ now = 0
  /\ granted = [f \in File |-> {}]
  /\ revived = [f \in File |-> 0]
  /\ lost = {}

Data == <<object, ref, blob, url>>

Goto(q, r) == req' = [req EXCEPT ![q] = r]
CleanTo(c, r) == cleaner' = [cleaner EXCEPT ![c] = r]

\* A super admin that names an owner shares the files with that owner.
Grant(u, fs, o) ==
  granted' = IF u \in SuperUser
               THEN [f \in File |-> IF f \in fs THEN granted[f] \cup {o}
                                                ELSE granted[f]]
               ELSE granted

-----------------------------------------------------------------------------
(* Upload and CreatePresignedUpload.                                       *)

\* Scene, owner, and the total quota, read before anything is stored.
BeginUpload(q, u, f, s, o, temp, direct) ==
  /\ req[q] = Idle
  /\ Fresh(f)
  /\ AllowsOwner(u, o)
  /\ ~ExceedsFileQuota(Cardinality(UsedFiles), MaxTotalFiles)
  /\ Goto(q, [pc |-> "ownerQuota", user |-> u, file |-> f, scene |-> s,
              owner |-> o, temp |-> temp, direct |-> direct, url |-> NoURL])
  /\ Grant(u, {f}, o)
  /\ UNCHANGED <<Data, cleaner, now, revived, lost>>

CheckOwnerQuota(q) ==
  /\ req[q].pc = "ownerQuota"
  /\ ~ExceedsFileQuota(Cardinality(OwnerFiles(req[q].owner)), MaxOwnerFiles)
  /\ Goto(q, [req[q] EXCEPT !.pc = IF req[q].direct THEN "presignPut" ELSE "put"])
  /\ UNCHANGED <<Data, cleaner, now, granted, revived, lost>>

\* Mutant: the ref is created before the object.
PutBytesThenRef(q) ==
  /\ req[q].pc = "put"
  /\ blob' = [blob EXCEPT ![req[q].file] = "good"]
  /\ Goto(q, [req[q] EXCEPT !.pc = "createRef"])
  /\ UNCHANGED <<object, ref, url, cleaner, now, granted, revived, lost>>

PutBytes(q) ==
  /\ req[q].pc = "put"
  /\ blob' = [blob EXCEPT ![req[q].file] = "good"]
  /\ Goto(q, [req[q] EXCEPT !.pc = "createObject"])
  /\ UNCHANGED <<object, ref, url, cleaner, now, granted, revived, lost>>

PresignPut(q, ttl) ==
  /\ req[q].pc = "presignPut"
  /\ PresignSupported
  /\ Goto(q, [req[q] EXCEPT !.pc = "createObject",
                            !.url = [ttl |-> ttl, until |-> now + ttl]])
  /\ UNCHANGED <<Data, cleaner, now, granted, revived, lost>>

CreateObject(q) ==
  /\ req[q].pc = "createObject"
  /\ object' = [object EXCEPT ![req[q].file] =
       [status |-> IF req[q].direct THEN "pending" ELSE "active",
        uploader |-> req[q].user, created |-> now]]
  /\ Goto(q, [req[q] EXCEPT !.pc = "createRef"])
  /\ UNCHANGED <<ref, blob, url, cleaner, now, granted, revived, lost>>

\* The ref is the handler's last write; its response carries the URL.
CreateRef(q) ==
  LET f == req[q].file IN
  /\ req[q].pc = "createRef"
  /\ FreeSlots(f) # {}
  /\ ref' = [ref EXCEPT ![f][NextSlot(f)] =
       [status |-> IF req[q].temp THEN "temp" ELSE "active",
        scene |-> req[q].scene, owner |-> req[q].owner,
        expires |-> IF req[q].temp THEN now + TempTTL ELSE NoExpiry]]
  /\ url' = [url EXCEPT ![f] = req[q].url]
  /\ Goto(q, Idle)
  /\ UNCHANGED <<object, blob, cleaner, now, granted, revived, lost>>

\* The client stores bytes under the presigned URL, of the declared size and
\* MIME type ("good") or not ("bad"), as often as it likes until it expires.
ClientPut(f, content) ==
  /\ now < url[f].until
  /\ blob' = [blob EXCEPT ![f] = content]
  /\ UNCHANGED <<object, ref, url, req, cleaner, now, granted, revived, lost>>

-----------------------------------------------------------------------------
(* CompletePresignedUpload.                                                *)

\* Mutant: only active objects are left alone.
BeginCompleteDeleted(q, u, f) ==
  /\ req[q] = Idle
  /\ Accessible(u, f)
  /\ object[f].status # "active"
  /\ Goto(q, [pc |-> "head", file |-> f])
  /\ UNCHANGED <<Data, cleaner, now, granted, revived, lost>>

\* Deleted objects are refused and active ones left alone; the status read
\* here is not read again.
BeginComplete(q, u, f) ==
  /\ req[q] = Idle
  /\ Accessible(u, f)
  /\ object[f].status = "pending"
  /\ Goto(q, [pc |-> "head", file |-> f])
  /\ UNCHANGED <<Data, cleaner, now, granted, revived, lost>>

HeadObject(q) ==
  /\ req[q].pc = "head"
  /\ req[q].file \notin lost
  /\ blob[req[q].file] = "good"
  /\ Goto(q, [req[q] EXCEPT !.pc = "activate"])
  /\ UNCHANGED <<Data, cleaner, now, granted, revived, lost>>

\* The status is written whatever it has become.
Activate(q) ==
  LET f == req[q].file IN
  /\ req[q].pc = "activate"
  /\ object' = [object EXCEPT ![f].status = "active"]
  /\ revived' = IF object[f].status = "deleted"
                  THEN [revived EXCEPT ![f] = revived[f] + 1] ELSE revived
  /\ Goto(q, Idle)
  /\ UNCHANGED <<ref, blob, url, cleaner, now, granted, lost>>

-----------------------------------------------------------------------------
(* Bind.                                                                   *)

BeginBind(q, u, fs, s, o) ==
  /\ req[q] = Idle
  /\ fs # {}
  /\ \A f \in fs : Accessible(u, f)
  /\ AllowsOwner(u, o)
  /\ Goto(q, [pc |-> "bindRefs", files |-> fs, scene |-> s, owner |-> o])
  /\ Grant(u, fs, o)
  /\ UNCHANGED <<Data, cleaner, now, revived, lost>>

Bindable(f, s) == {k \in Slot : ref[f][k].status = "temp" /\ ref[f][k].scene = s}

\* Mutant: a status no query selects.
BoundRefUnknown(s, o) ==
  [status |-> "bound", scene |-> s, owner |-> o, expires |-> NoExpiry]

BoundRef(s, o) ==
  [status |-> "active", scene |-> s, owner |-> o, expires |-> NoExpiry]

\* One transaction: every temp ref of the file in the scene becomes active,
\* and a file that has none gets a new active ref.
BindRefs(q) ==
  LET fs == req[q].files
      s == req[q].scene
      Targets(f) == IF Bindable(f, s) # {} THEN Bindable(f, s) ELSE {NextSlot(f)}
  IN
  /\ req[q].pc = "bindRefs"
  /\ \A f \in fs : Bindable(f, s) # {} \/ FreeSlots(f) # {}
  /\ ref' = [f \in File |-> [k \in Slot |->
               IF f \in fs /\ k \in Targets(f) THEN BoundRef(s, req[q].owner)
                                               ELSE ref[f][k]]]
  /\ Goto(q, Idle)
  /\ UNCHANGED <<object, blob, url, cleaner, now, granted, revived, lost>>

-----------------------------------------------------------------------------
(* DeleteFiles: file by file, and only the object's status.                *)

BeginDelete(q, u, fs) ==
  /\ req[q] = Idle
  /\ fs # {}
  /\ Goto(q, [pc |-> "deleteCheck", user |-> u, files |-> fs])
  /\ UNCHANGED <<Data, cleaner, now, granted, revived, lost>>

DeleteCheck(q, f) ==
  /\ req[q].pc = "deleteCheck"
  /\ f \in req[q].files
  /\ Accessible(req[q].user, f)
  /\ Goto(q, [pc |-> "delete", user |-> req[q].user,
              files |-> req[q].files \ {f}, file |-> f])
  /\ UNCHANGED <<Data, cleaner, now, granted, revived, lost>>

DeleteObject(q) ==
  /\ req[q].pc = "delete"
  /\ object' = [object EXCEPT ![req[q].file].status = "deleted"]
  /\ Goto(q, IF req[q].files = {} THEN Idle
             ELSE [pc |-> "deleteCheck", user |-> req[q].user,
                   files |-> req[q].files])
  /\ UNCHANGED <<ref, blob, url, cleaner, now, granted, revived, lost>>

\* A handler stops where it is: a check fails, a call returns an error, the
\* client goes away or the process dies.  Nothing it did is undone.
Abort(q) ==
  /\ req[q] # Idle
  /\ Goto(q, Idle)
  /\ UNCHANGED <<Data, cleaner, now, granted, revived, lost>>

-----------------------------------------------------------------------------
(* CleanupExpiredTemps, first half: expired temp refs.                     *)

ListExpired(c) ==
  LET kept == {f \in File : \E k \in Slot : ref[f][k].status = "active"} IN
  /\ cleaner[c] = Idle
  /\ CleanTo(c, IF ExpiredTempRefs = {} THEN [pc |-> "listPending"]
                ELSE [pc |-> "markRefs", expired |-> ExpiredTempRefs,
                      kept |-> kept])
  /\ UNCHANGED <<Data, req, now, granted, revived, lost>>

\* UpdateRefsStatus writes by id: the refs may have been bound meanwhile.
MarkExpired(c) ==
  LET expired == cleaner[c].expired IN
  /\ cleaner[c].pc = "markRefs"
  /\ ref' = [f \in File |-> [k \in Slot |->
               IF <<f, k>> \in expired
                 THEN [ref[f][k] EXCEPT !.status = "deleted"]
                 ELSE ref[f][k]]]
  /\ CleanTo(c, [pc |-> "countRefs", files |-> {r[1] : r \in expired},
                 kept |-> cleaner[c].kept])
  /\ UNCHANGED <<object, blob, url, req, now, granted, revived, lost>>

\* The loop over the files of the expired refs, in map order: on to the next
\* file, or to the pending objects when none is left.
NextFile(c) ==
  IF cleaner[c].files = {} THEN [pc |-> "listPending"]
  ELSE [pc |-> "countRefs", files |-> cleaner[c].files, kept |-> cleaner[c].kept]

CountRefs(c, f) ==
  LET rest == cleaner[c].files \ {f} IN
  /\ cleaner[c].pc = "countRefs"
  /\ f \in cleaner[c].files
  /\ CleanTo(c,
       IF LiveSlots(f) = {}
         THEN [pc |-> "getObject", files |-> rest, file |-> f,
               kept |-> cleaner[c].kept]
       ELSE IF rest = {} THEN [pc |-> "listPending"]
       ELSE [pc |-> "countRefs", files |-> rest, kept |-> cleaner[c].kept])
  /\ UNCHANGED <<Data, req, now, granted, revived, lost>>

GetObject(c) ==
  /\ cleaner[c].pc = "getObject"
  /\ CleanTo(c, IF object[cleaner[c].file].status = "deleted" THEN NextFile(c)
                ELSE [cleaner[c] EXCEPT !.pc = "deleteBytes"])
  /\ UNCHANGED <<Data, req, now, granted, revived, lost>>

DeleteBytes(c) ==
  /\ cleaner[c].pc = "deleteBytes"
  /\ cleaner[c].file \notin lost
  /\ blob' = [blob EXCEPT ![cleaner[c].file] = "none"]
  /\ CleanTo(c, [cleaner[c] EXCEPT !.pc = "markObject"])
  /\ UNCHANGED <<object, ref, url, req, now, granted, revived, lost>>

MarkObject(c) ==
  /\ cleaner[c].pc = "markObject"
  /\ object' = [object EXCEPT ![cleaner[c].file].status = "deleted"]
  /\ CleanTo(c, NextFile(c))
  /\ UNCHANGED <<ref, blob, url, req, now, granted, revived, lost>>

-----------------------------------------------------------------------------
(* CleanupExpiredTemps, second half: cleanupPendingUploads.                *)

PendingTo(fs) == IF fs = {} THEN Idle ELSE [pc |-> "nextPending", files |-> fs]

ListPending(c) ==
  /\ cleaner[c].pc = "listPending"
  /\ CleanTo(c, PendingTo(StalePending))
  /\ UNCHANGED <<Data, req, now, granted, revived, lost>>

\* Mutant: the newest first.
IsNextByAge(c, f) ==
  /\ cleaner[c].pc = "nextPending"
  /\ f \in cleaner[c].files
  /\ \A g \in cleaner[c].files : object[f].created >= object[g].created

\* The loop takes the pending objects by ascending id, the order of their
\* creation; those of one instant come in either order.
IsNext(c, f) ==
  /\ cleaner[c].pc = "nextPending"
  /\ f \in cleaner[c].files
  /\ \A g \in cleaner[c].files : object[f].created <= object[g].created

\* The object comes from the list and is not read again.
DeletePendingBytes(c, f) ==
  /\ IsNext(c, f)
  /\ f \notin lost
  /\ blob' = [blob EXCEPT ![f] = "none"]
  /\ CleanTo(c, [pc |-> "listRefs", files |-> cleaner[c].files \ {f}, file |-> f])
  /\ UNCHANGED <<object, ref, url, req, now, granted, revived, lost>>

ListPendingRefs(c) ==
  LET slots == LiveSlots(cleaner[c].file) IN
  /\ cleaner[c].pc = "listRefs"
  /\ CleanTo(c, IF slots = {} THEN [cleaner[c] EXCEPT !.pc = "markPending"]
                ELSE [pc |-> "markPendingRefs", files |-> cleaner[c].files,
                      file |-> cleaner[c].file, slots |-> slots])
  /\ UNCHANGED <<Data, req, now, granted, revived, lost>>

MarkPendingRefs(c) ==
  LET f == cleaner[c].file IN
  /\ cleaner[c].pc = "markPendingRefs"
  /\ ref' = [ref EXCEPT ![f] = [k \in Slot |->
               IF k \in cleaner[c].slots
                 THEN [ref[f][k] EXCEPT !.status = "deleted"]
                 ELSE ref[f][k]]]
  /\ CleanTo(c, [pc |-> "markPending", files |-> cleaner[c].files, file |-> f])
  /\ UNCHANGED <<object, blob, url, req, now, granted, revived, lost>>

MarkPending(c) ==
  /\ cleaner[c].pc = "markPending"
  /\ object' = [object EXCEPT ![cleaner[c].file].status = "deleted"]
  /\ CleanTo(c, PendingTo(cleaner[c].files))
  /\ UNCHANGED <<ref, blob, url, req, now, granted, revived, lost>>

\* A run that comes to an object of a lost storage returns (backendForObject),
\* before the objects that follow it.
StorageFails(c) ==
  /\ \/ cleaner[c].pc = "deleteBytes" /\ cleaner[c].file \in lost
     \/ \E f \in lost : IsNext(c, f)
  /\ CleanTo(c, Idle)
  /\ UNCHANGED <<Data, req, now, granted, revived, lost>>

\* A cleanup run returns at its first error, or its process dies.
AbortRun(c) ==
  /\ cleaner[c] # Idle
  /\ CleanTo(c, Idle)
  /\ UNCHANGED <<Data, req, now, granted, revived, lost>>

\* An administrator gives the file's storage another code, or its row goes;
\* the storage code the object keeps finds nothing from then on.
LoseStorage(f) ==
  /\ f \in Losable
  /\ Exists(f)
  /\ lost' = lost \cup {f}
  /\ UNCHANGED <<Data, req, cleaner, now, granted, revived>>

Tick ==
  /\ now < MaxTime
  /\ now' = now + 1
  /\ UNCHANGED <<Data, req, cleaner, granted, revived, lost>>

-----------------------------------------------------------------------------
RequestStep(q) ==
  \/ \E u \in User, f \in File, s \in Scene, o \in User,
        temp \in BOOLEAN, direct \in BOOLEAN :
       BeginUpload(q, u, f, s, o, temp, direct)
  \/ CheckOwnerQuota(q)
  \/ PutBytes(q)
  \/ \E ttl \in PutTTL : PresignPut(q, ttl)
  \/ CreateObject(q)
  \/ CreateRef(q)
  \/ \E u \in User, f \in File : BeginComplete(q, u, f)
  \/ HeadObject(q)
  \/ Activate(q)
  \/ \E u \in User, fs \in SUBSET File, s \in Scene, o \in User :
       BeginBind(q, u, fs, s, o)
  \/ BindRefs(q)
  \/ \E u \in User, fs \in SUBSET File : BeginDelete(q, u, fs)
  \/ \E f \in File : DeleteCheck(q, f)
  \/ DeleteObject(q)
  \/ Abort(q)

CleanStep(c) ==
  \/ ListExpired(c)
  \/ MarkExpired(c)
  \/ \E f \in File : CountRefs(c, f)
  \/ GetObject(c)
  \/ DeleteBytes(c)
  \/ MarkObject(c)
  \/ ListPending(c)
  \/ \E f \in File : DeletePendingBytes(c, f)
  \/ ListPendingRefs(c)
  \/ MarkPendingRefs(c)
  \/ MarkPending(c)
  \/ StorageFails(c)

Next ==
  \/ \E q \in Request : RequestStep(q)
  \/ \E f \in File, content \in Content : ClientPut(f, content)
  \/ \E c \in Cleaner : CleanStep(c) \/ AbortRun(c)
  \/ \E f \in File : LoseStorage(f)
  \/ Tick

Spec == Init /\ [][Next]_vars

-----------------------------------------------------------------------------
(* Fairness.  Someone schedules the cleanup task, and now and then a run of  *)
(* it is not cut short: it does all its work, or ends at a storage that is   *)
(* gone.  The clock advances; requests are owed nothing.                     *)

RunEnds(c) ==
  \/ ListPending(c) /\ StalePending = {}
  \/ MarkPending(c) /\ cleaner[c].files = {}
  \/ StorageFails(c)

Fairness == WF_vars(Tick) /\ \A c \in Cleaner : []<><<RunEnds(c)>>_vars

FairSpec == Spec /\ Fairness

-----------------------------------------------------------------------------
(* Invariants.                                                             *)

TypeOK ==
  /\ object \in [File -> {NoObject} \cup ObjectRow]
  /\ ref \in [File -> [Slot -> {NoRef} \cup RefRow]]
  /\ blob \in [File -> {"none", "good", "bad"}]
  /\ url \in [File -> URL]
  /\ req \in [Request -> Requests]
  /\ cleaner \in [Cleaner -> Runs]
  /\ now \in Nat
  /\ granted \in [File -> SUBSET User]
  /\ revived \in [File -> Nat]
  /\ lost \in SUBSET File

\* Every ref, and every row a handler or a cleanup run is about to write by
\* id, is there: no step writes to a row that was never created.
NamesExist ==
  /\ \A f \in File, k \in Slot : ref[f][k].status # "absent" => Exists(f)
  /\ \A q \in Request :
       /\ req[q].pc \in {"createRef", "head", "activate", "delete"}
            => Exists(req[q].file)
       /\ req[q].pc = "bindRefs" => \A f \in req[q].files : Exists(f)
  /\ \A c \in Cleaner :
       /\ cleaner[c].pc = "markRefs"
            => \A r \in cleaner[c].expired : ref[r[1]][r[2]].status # "absent"
       /\ cleaner[c].pc \in FilesPC => \A f \in cleaner[c].files : Exists(f)
       /\ cleaner[c].pc \in FilePC => Exists(cleaner[c].file)
       /\ cleaner[c].pc = "markPendingRefs"
            => \A k \in cleaner[c].slots :
                 ref[cleaner[c].file][k].status # "absent"

\* The quota check (enforceUploadQuota) and the row it admits (CreateObject)
\* are separate statements, so concurrent uploads overshoot the limit; and a
\* stale completion counts a deleted file in again.  Still no interleaving of
\* n handlers ever gets more than n - 1 files past the limit, and a single
\* handler respects it.
QuotaOvershootBounded ==
  MaxTotalFiles > 0 =>
    Cardinality(UsedFiles) <= MaxTotalFiles - 1 + Cardinality(Request)

\* A file is owned by its uploader and by whom a super admin named: no chain
\* of uploads, binds, expirations and deletions lets a normal user make a
\* third user an owner, or become one itself (owner.go: allowsOwner,
\* ownsObject; the owner Bind writes into a ref).
OwnersAreGranted ==
  \A f \in File, k \in Slot :
    ref[f][k].status \in Live =>
      ref[f][k].owner \in {object[f].uploader} \cup granted[f]

\* While cleanup runs do not overlap, a file that had an active ref when the
\* run listed its expired refs is not removed by that run, whatever binds,
\* uploads and aborted runs interleave with it (CleanupExpiredTemps marks,
\* then counts, then deletes).
BoundBeforeRunIsKept ==
  \A c \in Cleaner :
    cleaner[c].pc \in TempFilePC => cleaner[c].file \notin cleaner[c].kept

\* The client chooses how long its presigned URL lives and the operator how
\* long a pending row is left alone, and nothing compares the two.  Still the
\* URL of whatever the pending cleanup has listed outlives the reclaim by no
\* more than its own lifetime exceeds the grace period; a URL that does not
\* exceed it is dead, and no client can put bytes under a reclaimed key
\* (CreatePresignedUpload dates the URL before the row,
\* ListPendingObjectsBefore goes by the row's date).
LateUploadIsBounded ==
  \A c \in Cleaner :
    /\ cleaner[c].pc \in PendFilePC \cup {"nextPending"}
         => \A f \in cleaner[c].files :
              url[f].until + PendingTTL <= now + url[f].ttl
    /\ cleaner[c].pc \in PendFilePC
         => LET u == url[cleaner[c].file] IN u.until + PendingTTL <= now + u.ttl

\* CompletePresignedUpload refuses a deleted file by a status it read before
\* it asked the backend, so a completion in flight brings a deleted file back.
\* A file can be deleted and completed for ever; yet it comes back at most once
\* for each handler, because no completion begins once it was active or deleted.
RevivalsBounded == \A f \in File : revived[f] <= Cardinality(Request)

-----------------------------------------------------------------------------
(* Liveness.                                                               *)

\* The runs of the pending cleanup end at f or before it: an older pending
\* object, or f itself, is on a storage that is gone.
Blocked(f) ==
  \E g \in lost :
    object[g].status = "pending" /\ object[g].created <= object[f].created

\* A pending object does not stay pending past the grace period: the cleanup
\* task, run again after every failure, gets to it (cleanupPendingUploads
\* lists by the object's own status, so an aborted run loses nothing), unless
\* an object that sorts before it is on a lost storage: every run returns there.
PendingIsResolved ==
  \A f \in File :
    (object[f].status = "pending" /\ object[f].created + PendingTTL <= MaxTime)
      ~> (object[f].status # "pending" \/ Blocked(f))

\* An expired temp ref does not stay temp.
ExpiredRefIsCleared ==
  \A f \in File, k \in Slot :
    (ref[f][k].status = "temp" /\ ref[f][k].expires <= MaxTime)
      ~> ref[f][k].status # "temp"

-----------------------------------------------------------------------------
(* What the design says and the code does not do.                          *)

\* "Physical delete should happen only when no active refs remain" (the
\* design): the bytes of an active file stay while an active ref names it.  The
\* code does not keep this: a Bind may come between the count of refs and the
\* deletion (CleanupExpiredTemps), hence BoundBeforeRunIsKept.
BoundBytesAreKept ==
  [][\A f \in File :
       (/\ object[f].status = "active"
        /\ \E k \in Slot : ref[f][k].status = "active")
         => (blob'[f] = "none" => blob[f] = "none")]_vars
=============================================================================
