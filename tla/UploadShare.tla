----------------------------- MODULE UploadShare -----------------------------
(***************************************************************************)
(* Access to stored files without a login: share links, with an optional   *)
(* password, expiry and download limit, and short-lived tokens for private *)
(* files (admin/plugins/uploadfile/service/service.go, token.go).          *)
(*                                                                         *)
(* As in UploadFile, a repository or storage call is one atomic step.      *)
(* Signatures are sound: a client has the tokens it was given, no others.  *)
(***************************************************************************)
EXTENDS Integers, FiniteSets

CONSTANTS
  File,         \* files; each has a row, bytes, and a visibility
  Public,       \* the files of public visibility
  Share,        \* share ids
  Request,      \* downloads that may be in progress at the same time
  Limit,        \* the max_downloads a creator may choose
  Lifetime,     \* the lifetimes of shares a creator may choose
  TokenTTL,     \* s.tokenTTL
  AskedTTL,     \* the ttl_seconds a client may ask of a file token
  AccessMaxTTL, \* s.accessTokenMaxTTL
  Registered,   \* the files whose storage has a Backend added by code
  CountBound,   \* bound of the downloads of one share
  MaxTime       \* bound of the clock

ASSUME RequestAssumption == IsFiniteSet(Request)
ASSUME FileAssumption == Public \subseteq File /\ Registered \subseteq File
ASSUME NumberAssumption ==
  /\ Limit \subseteq Nat /\ Lifetime \subseteq Nat
  /\ TokenTTL \in Nat /\ AskedTTL \subseteq Int /\ AccessMaxTTL \in Nat
  /\ CountBound \in Nat /\ MaxTime \in Nat

VARIABLES
  deleted,    \* the files whose row has status deleted
  stored,     \* the files whose bytes are stored
  share,      \* upload_share rows
  verified,   \* latest expiry of a download token of the share, -1 for none
  fileToken,  \* latest expiry of an access token of the file, -1 for none
  req,        \* where each download is, with its local variables
  served,     \* history: downloads answered with the bytes, by share
  late,       \* history: those answered after the share had ended
  now         \* the clock s.now()

vars == <<deleted, stored, share, verified, fileToken, req, served, late, now>>

-----------------------------------------------------------------------------
(* Rows.  A nullable column is a set: {} for NULL, else {value}.           *)

Nullable(S) == {{}} \cup {{x} : x \in S}

NoShare  == [status |-> "absent"]
ShareRow == [status: {"active", "disabled"}, file: File, protected: BOOLEAN,
             expires: SUBSET Nat, limit: SUBSET Nat, count: Nat]

Idle == [pc |-> "idle"]
OpenReq == [pc: {"storage", "count", "answer"}, share: Share]
FileReq == [pc: {"openFile"}, file: File]

Ended(s) ==
  \/ share[s].status = "disabled"
  \/ \E e \in share[s].expires : now > e

\* Mutant: the limit itself still passes.
ValidShareLate(s) ==
  /\ share[s].status = "active"
  /\ ~Ended(s)
  /\ \A m \in share[s].limit : share[s].count <= m

\* Mutant: the expiry is not looked at.
ValidShareForever(s) ==
  /\ share[s].status = "active"
  /\ \A m \in share[s].limit : share[s].count < m

ValidShare(s) ==
  /\ share[s].status = "active"
  /\ ~Ended(s)
  /\ \A m \in share[s].limit : share[s].count < m

\* Mutant: the default lifetime is not capped.
FileTokenTTLUncapped(asked) == IF asked <= 0 THEN TokenTTL ELSE asked

FileTokenTTL(asked) ==
  IF asked > 0 THEN asked
  ELSE IF TokenTTL > AccessMaxTTL THEN AccessMaxTTL ELSE TokenTTL

Later(a, b) == IF a > b THEN a ELSE b

-----------------------------------------------------------------------------
Init ==
  /\ deleted = {}
  /\ stored = File
  /\ share = [s \in Share |-> NoShare]
  /\ verified = [s \in Share |-> -1]
  /\ fileToken = [f \in File |-> -1]
  /\ req = [q \in Request |-> Idle]
  /\ served = [s \in Share |-> 0]
  /\ late = [s \in Share |-> 0]
  /\ now = 0

Goto(q, r) == req' = [req EXCEPT ![q] = r]

\* The actor has access to the file; its status is not looked at.
CreateShare(s, f, protected, expires, limit) ==
  /\ share[s] = NoShare
  /\ share' = [share EXCEPT ![s] =
       [status |-> "active", file |-> f, protected |-> protected,
        expires |-> {now + t : t \in expires}, limit |-> limit, count |-> 0]]
  /\ UNCHANGED <<deleted, stored, verified, fileToken, req, served, late, now>>

\* Mutant: a status the rows do not have.
DisableShareDeleted(s) ==
  /\ share[s] # NoShare
  /\ share' = [share EXCEPT ![s].status = "deleted"]
  /\ UNCHANGED <<deleted, stored, verified, fileToken, req, served, late, now>>

\* By id, whatever the status of the share is by now.
DisableShare(s) ==
  /\ share[s] # NoShare
  /\ share' = [share EXCEPT ![s].status = "disabled"]
  /\ UNCHANGED <<deleted, stored, verified, fileToken, req, served, late, now>>

\* The client knows the password and gets a signed download token.
VerifySharePassword(s) ==
  /\ ValidShare(s)
  /\ share[s].protected
  /\ verified' = [verified EXCEPT ![s] = Later(@, now + TokenTTL)]
  /\ UNCHANGED <<deleted, stored, share, fileToken, req, served, late, now>>

-----------------------------------------------------------------------------
(* OpenShare: the share is checked first and counted last.                 *)

BeginOpen(q, s) ==
  /\ req[q] = Idle
  /\ ValidShare(s)
  /\ share[s].protected => now <= verified[s]
  /\ share[s].count < CountBound
  /\ Goto(q, [pc |-> "storage", share |-> s])
  /\ UNCHANGED <<deleted, stored, share, verified, fileToken, served, late, now>>

\* Mutant: the bytes are handed out without waiting for the count.
OpenStorageUncounted(q) ==
  /\ req[q].pc = "storage"
  /\ share[req[q].share].file \in Registered \cap stored
  /\ Goto(q, [req[q] EXCEPT !.pc = "answer"])
  /\ UNCHANGED <<deleted, stored, share, verified, fileToken, served, late, now>>

\* Only the registered backends are asked, unlike backendForObject, and the
\* file's status is not read.
OpenStorage(q) ==
  /\ req[q].pc = "storage"
  /\ share[req[q].share].file \in Registered \cap stored
  /\ Goto(q, [req[q] EXCEPT !.pc = "count"])
  /\ UNCHANGED <<deleted, stored, share, verified, fileToken, served, late, now>>

\* "storage backend not found"
NoStorage(q) ==
  /\ req[q].pc = "storage"
  /\ share[req[q].share].file \notin Registered
  /\ Goto(q, Idle)
  /\ UNCHANGED <<deleted, stored, share, verified, fileToken, served, late, now>>

\* download_count + 1 in the database, whatever it is by now.
CountDownload(q) ==
  /\ req[q].pc = "count"
  /\ share' = [share EXCEPT ![req[q].share].count = @ + 1]
  /\ Goto(q, [req[q] EXCEPT !.pc = "answer"])
  /\ UNCHANGED <<deleted, stored, verified, fileToken, served, late, now>>

Answer(q) ==
  LET s == req[q].share IN
  /\ req[q].pc = "answer"
  /\ served' = [served EXCEPT ![s] = @ + 1]
  /\ late' = [late EXCEPT ![s] = IF Ended(s) THEN @ + 1 ELSE @]
  /\ Goto(q, Idle)
  /\ UNCHANGED <<deleted, stored, share, verified, fileToken, now>>

-----------------------------------------------------------------------------
(* Private files.                                                          *)

CreateFileAccessToken(f, asked) ==
  /\ f \notin deleted
  /\ asked <= AccessMaxTTL
  /\ fileToken' = [fileToken EXCEPT ![f] = Later(@, now + FileTokenTTL(asked))]
  /\ UNCHANGED <<deleted, stored, share, verified, req, served, late, now>>

BeginOpenFile(q, f) ==
  /\ req[q] = Idle
  /\ f \notin deleted
  /\ f \in Public \/ now <= fileToken[f]
  /\ Goto(q, [pc |-> "openFile", file |-> f])
  /\ UNCHANGED <<deleted, stored, share, verified, fileToken, served, late, now>>

OpenFile(q) ==
  /\ req[q].pc = "openFile"
  /\ req[q].file \in stored
  /\ Goto(q, Idle)
  /\ UNCHANGED <<deleted, stored, share, verified, fileToken, served, late, now>>

\* A download stops where it is: an error, or the client or process is gone.
Abort(q) ==
  /\ req[q] # Idle
  /\ Goto(q, Idle)
  /\ UNCHANGED <<deleted, stored, share, verified, fileToken, served, late, now>>

-----------------------------------------------------------------------------
(* What UploadFile does to the file.                                       *)

DeleteObject(f) ==
  /\ f \notin deleted
  /\ deleted' = deleted \cup {f}
  /\ UNCHANGED <<stored, share, verified, fileToken, req, served, late, now>>

DeleteBytes(f) ==
  /\ f \in stored
  /\ stored' = stored \ {f}
  /\ UNCHANGED <<deleted, share, verified, fileToken, req, served, late, now>>

Tick ==
  /\ now < MaxTime
  /\ now' = now + 1
  /\ UNCHANGED <<deleted, stored, share, verified, fileToken, req, served, late>>

Next ==
  \/ \E s \in Share, f \in File, protected \in BOOLEAN,
        expires \in Nullable(Lifetime), limit \in Nullable(Limit) :
       CreateShare(s, f, protected, expires, limit)
  \/ \E s \in Share : DisableShare(s) \/ VerifySharePassword(s)
  \/ \E q \in Request :
       \/ \E s \in Share : BeginOpen(q, s)
       \/ OpenStorage(q)
       \/ NoStorage(q)
       \/ CountDownload(q)
       \/ Answer(q)
       \/ \E f \in File : BeginOpenFile(q, f)
       \/ OpenFile(q)
       \/ Abort(q)
  \/ \E f \in File, asked \in AskedTTL : CreateFileAccessToken(f, asked)
  \/ \E f \in File : DeleteObject(f) \/ DeleteBytes(f)
  \/ Tick

Spec == Init /\ [][Next]_vars

-----------------------------------------------------------------------------
(* Invariants.                                                             *)

TypeOK ==
  /\ deleted \subseteq File /\ stored \subseteq File
  /\ share \in [Share -> {NoShare} \cup ShareRow]
  /\ verified \in [Share -> Int]
  /\ fileToken \in [File -> Int]
  /\ req \in [Request -> {Idle} \cup OpenReq \cup FileReq]
  /\ served \in [Share -> Nat] /\ late \in [Share -> Nat]
  /\ now \in Nat

\* The limit is checked when a download begins and counted when it ends, so
\* n concurrent downloads pass it, but by n - 1 at most, and a share of limit
\* 0 is never counted (validShare, IncrementShareDownload).
DownloadOvershootBounded ==
  \A s \in Share : share[s] # NoShare =>
    \A m \in share[s].limit :
      share[s].count <= IF m = 0 THEN 0 ELSE m - 1 + Cardinality(Request)

\* No download is answered uncounted: what clients got is at most what
\* download_count says (OpenShare returns the reader after the increment).
ServedIsCounted ==
  \A s \in Share : share[s] # NoShare => served[s] <= share[s].count

\* A share that was disabled or has expired still answers the downloads that
\* had begun, and only those (OpenShare looks at the share once).
EndedShareDrains ==
  \A s \in Share : late[s] <= Cardinality(Request)

\* No access token of a private file outlives the configured maximum, asked
\* for or by default (CreateFileAccessToken).
FileTokensAreShort ==
  \A f \in File : fileToken[f] <= now + AccessMaxTTL
=============================================================================
