--------------------------- MODULE UploadShareProofs ---------------------------
(***************************************************************************)
(* Theorems about UploadShare, for every number of shares, files and       *)
(* concurrent downloads, and every limit and lifetime.                     *)
(***************************************************************************)
EXTENDS UploadShare, FiniteSetTheorems, TLAPS

OpenPC == {"storage", "count", "answer"}

-----------------------------------------------------------------------------
(* Type correctness.                                                       *)

\* A download is of a share that is there: shares are never removed.
Typed ==
  /\ TypeOK
  /\ \A q \in Request : req[q].pc \in OpenPC => share[req[q].share] # NoShare

\* A nullable column holds values of its type.
LEMMA NullableSet == \A S : \A x \in Nullable(S) : x \subseteq S
BY DEF Nullable

\* Where a handler is tells what it holds.
LEMMA Variants ==
  ASSUME TypeOK, NEW q \in Request
  PROVE  /\ req[q].pc \in OpenPC => req[q] \in OpenReq
         /\ req[q].pc = "openFile" => req[q] \in FileReq
         /\ req[q] \in {Idle} \cup OpenReq \cup FileReq
BY DEF TypeOK, Idle, OpenReq, FileReq, OpenPC

\* A handler that goes to a typed place leaves the handlers typed.
LEMMA GotoTyped ==
  ASSUME Typed, NEW q \in Request, NEW h \in {Idle} \cup OpenReq \cup FileReq,
         Goto(q, h), h.pc \in OpenPC => share[h.share] # NoShare
  PROVE  /\ req' \in [Request -> {Idle} \cup OpenReq \cup FileReq]
         /\ \A p \in Request : req'[p].pc \in OpenPC => share[req'[p].share] # NoShare
BY DEF Typed, TypeOK, Goto

\* The initial state is typed.
LEMMA TypedInit == Init => Typed
BY DEF Init, Typed, TypeOK, Idle, OpenPC

\* A step of a handler that changes no row keeps the types.
LEMMA MoveTyped ==
  ASSUME Typed, NEW q \in Request,
         \/ \E s \in Share : BeginOpen(q, s)
         \/ OpenStorage(q) \/ NoStorage(q)
         \/ \E f \in File : BeginOpenFile(q, f)
         \/ OpenFile(q) \/ Abort(q)
  PROVE  Typed'
<1>1. UNCHANGED <<deleted, stored, share, verified, fileToken, served, late, now>>
  BY DEF BeginOpen, OpenStorage, NoStorage, BeginOpenFile, OpenFile, Abort
<1>2. ASSUME NEW h \in {Idle} \cup OpenReq \cup FileReq, Goto(q, h),
             h.pc \in OpenPC => share[h.share] # NoShare
      PROVE  Typed'
  BY <1>1, <1>2, GotoTyped DEF Typed, TypeOK
<1>3. ASSUME NEW s \in Share, BeginOpen(q, s)
      PROVE  Typed'
  <2>1. [pc |-> "storage", share |-> s] \in OpenReq
    BY DEF OpenReq
  <2>2. share[s] # NoShare
    BY <1>3 DEF BeginOpen, ValidShare, NoShare
  <2> QED BY <1>2, <1>3, <2>1, <2>2 DEF BeginOpen
<1>4. CASE OpenStorage(q)
  <2>1. req[q] \in OpenReq /\ share[req[q].share] # NoShare
    BY <1>4, Variants DEF OpenStorage, Typed, OpenPC
  <2>2. /\ [req[q] EXCEPT !.pc = "count"] \in OpenReq
        /\ [req[q] EXCEPT !.pc = "count"].share = req[q].share
    BY <2>1 DEF OpenReq
  <2> QED BY <1>2, <1>4, <2>1, <2>2 DEF OpenStorage
<1>5. ASSUME NEW f \in File, BeginOpenFile(q, f)
      PROVE  Typed'
  <2>1. /\ [pc |-> "openFile", file |-> f] \in FileReq
        /\ [pc |-> "openFile", file |-> f].pc \notin OpenPC
    BY DEF FileReq, OpenPC
  <2> QED BY <1>2, <1>5, <2>1 DEF BeginOpenFile
<1>6. CASE Goto(q, Idle)
  BY <1>2, <1>6 DEF Idle, OpenPC
<1> QED BY <1>3, <1>4, <1>5, <1>6 DEF NoStorage, OpenFile, Abort

\* A step that changes one share, which is there, and keeps it there.
LEMMA ShareTyped ==
  ASSUME Typed, NEW s \in Share, NEW r \in ShareRow,
         share' = [share EXCEPT ![s] = r],
         req' \in [Request -> {Idle} \cup OpenReq \cup FileReq],
         \A p \in Request : req'[p].pc \in OpenPC => share[req'[p].share] # NoShare,
         UNCHANGED <<deleted, stored, verified, fileToken, served, late, now>>
  PROVE  Typed'
<1>1. r # NoShare
  BY DEF ShareRow, NoShare
<1>2. \A t \in Share : share'[t] = IF t = s THEN r ELSE share[t]
  BY DEF Typed, TypeOK
<1>3. TypeOK'
  BY DEF Typed, TypeOK
<1>4. \A p \in Request : req'[p].pc \in OpenPC => req'[p].share \in Share
  BY DEF Idle, OpenReq, FileReq, OpenPC
<1>5. \A p \in Request : req'[p].pc \in OpenPC => share'[req'[p].share] # NoShare
  BY <1>1, <1>2, <1>4
<1> QED BY <1>3, <1>5 DEF Typed

\* Every step keeps the types.
LEMMA TypedStep ==
  ASSUME Typed, [Next]_vars
  PROVE  Typed'
<1>0. /\ req \in [Request -> {Idle} \cup OpenReq \cup FileReq]
      /\ \A p \in Request : req[p].pc \in OpenPC => share[req[p].share] # NoShare
  BY DEF Typed, TypeOK
<1>1. ASSUME NEW s \in Share, NEW f \in File, NEW protected \in BOOLEAN,
             NEW expires \in Nullable(Lifetime), NEW limit \in Nullable(Limit),
             CreateShare(s, f, protected, expires, limit)
      PROVE  Typed'
  <2> DEFINE r == [status |-> "active", file |-> f, protected |-> protected,
                   expires |-> {now + t : t \in expires}, limit |-> limit,
                   count |-> 0]
  <2>1. expires \subseteq Nat /\ limit \subseteq Nat /\ now \in Nat
    BY NumberAssumption, NullableSet DEF Typed, TypeOK
  <2>2. {now + t : t \in expires} \subseteq Nat
    BY <2>1
  <2>3. r \in ShareRow
    BY <2>1, <2>2 DEF ShareRow
  <2>4. share' = [share EXCEPT ![s] = r] /\ UNCHANGED req
    BY <1>1 DEF CreateShare
  <2> HIDE DEF r
  <2> QED BY <1>0, <1>1, <2>3, <2>4, ShareTyped DEF CreateShare
<1>2. ASSUME NEW s \in Share, DisableShare(s)
      PROVE  Typed'
  <2> DEFINE r == [share[s] EXCEPT !.status = "disabled"]
  <2>1. share[s] \in ShareRow
    BY <1>2 DEF DisableShare, Typed, TypeOK
  <2>2. r \in ShareRow
    BY <2>1 DEF ShareRow
  <2>3. share' = [share EXCEPT ![s] = r] /\ UNCHANGED req
    BY <1>2 DEF DisableShare
  <2> HIDE DEF r
  <2> QED BY <1>0, <1>2, <2>2, <2>3, ShareTyped DEF DisableShare
<1>3. ASSUME NEW s \in Share, VerifySharePassword(s)
      PROVE  Typed'
  BY <1>3, NumberAssumption DEF VerifySharePassword, Typed, TypeOK, Later
<1>4. ASSUME NEW q \in Request, CountDownload(q)
      PROVE  Typed'
  <2>1. req[q] \in OpenReq /\ share[req[q].share] # NoShare
    BY <1>4, Variants DEF CountDownload, Typed, OpenPC
  <2>2. PICK s \in Share : s = req[q].share
    BY <2>1 DEF OpenReq
  <2> DEFINE r == [share[s] EXCEPT !.count = @ + 1]
  <2> DEFINE h == [req[q] EXCEPT !.pc = "answer"]
  <2>3. share[s] \in ShareRow
    BY <2>1, <2>2 DEF Typed, TypeOK
  <2>4. r \in ShareRow
    BY <2>3 DEF ShareRow
  <2>5. h \in OpenReq /\ h.share = req[q].share
    BY <2>1 DEF OpenReq
  <2>6. share' = [share EXCEPT ![s] = r] /\ Goto(q, h)
    BY <1>4, <2>2 DEF CountDownload
  <2> HIDE DEF r, h
  <2>7. /\ req' \in [Request -> {Idle} \cup OpenReq \cup FileReq]
        /\ \A p \in Request : req'[p].pc \in OpenPC => share[req'[p].share] # NoShare
    BY <2>1, <2>5, <2>6, GotoTyped
  <2> QED BY <1>4, <2>4, <2>6, <2>7, ShareTyped DEF CountDownload
<1>5. ASSUME NEW q \in Request, Answer(q)
      PROVE  Typed'
  <2>1. /\ req' \in [Request -> {Idle} \cup OpenReq \cup FileReq]
        /\ \A p \in Request : req'[p].pc \in OpenPC => share[req'[p].share] # NoShare
    BY <1>5, GotoTyped DEF Answer, Idle, OpenPC
  <2>2. PICK s \in Share : s = req[q].share
    BY <1>5, Variants DEF Answer, Typed, OpenPC, OpenReq
  <2>3. served' = [served EXCEPT ![s] = @ + 1] /\ served' \in [Share -> Nat]
    BY <1>5, <2>2 DEF Answer, Typed, TypeOK
  <2>4. late' = [late EXCEPT ![s] = IF Ended(s) THEN @ + 1 ELSE @]
    BY <1>5, <2>2 DEF Answer
  <2>5. late' \in [Share -> Nat]
    BY <2>4 DEF Typed, TypeOK
  <2> QED BY <1>5, <2>1, <2>3, <2>5 DEF Answer, Typed, TypeOK
<1>6. ASSUME NEW f \in File, NEW asked \in AskedTTL, CreateFileAccessToken(f, asked)
      PROVE  Typed'
  <2>1. FileTokenTTL(asked) \in Int /\ now \in Int
    BY <1>6, NumberAssumption DEF FileTokenTTL, Typed, TypeOK
  <2>2. fileToken' \in [File -> Int]
    BY <1>6, <2>1 DEF CreateFileAccessToken, Typed, TypeOK, Later
  <2> QED BY <1>6, <2>2 DEF CreateFileAccessToken, Typed, TypeOK
<1>7. ASSUME NEW f \in File, DeleteObject(f) \/ DeleteBytes(f)
      PROVE  Typed'
  BY <1>7 DEF DeleteObject, DeleteBytes, Typed, TypeOK
<1>8. CASE Tick
  BY <1>8 DEF Tick, Typed, TypeOK
<1>9. CASE UNCHANGED vars
  BY <1>9 DEF vars, Typed, TypeOK
<1> QED
  BY <1>1, <1>2, <1>3, <1>4, <1>5, <1>6, <1>7, <1>8, <1>9, MoveTyped DEF Next

\* Shares, tokens and downloads in progress are well-typed in every reachable
\* state.
THEOREM TypeCorrect == Spec => []TypeOK
<1>1. Typed => TypeOK
  BY DEF Typed
<1> QED BY <1>1, TypedInit, TypedStep, PTL DEF Spec

\* No access token of a private file outlives the maximum: the default is
\* capped, what is asked for is refused above it, and an older token only
\* comes nearer to its end.
THEOREM FileTokens == Spec => []FileTokensAreShort
<1>1. Init => FileTokensAreShort
  BY NumberAssumption DEF Init, FileTokensAreShort
<1>2. Typed /\ FileTokensAreShort /\ [Next]_vars => FileTokensAreShort'
  <2> SUFFICES ASSUME Typed, FileTokensAreShort, [Next]_vars
               PROVE  FileTokensAreShort'
    OBVIOUS
  <2>1. ASSUME NEW f \in File, NEW asked \in AskedTTL, CreateFileAccessToken(f, asked)
        PROVE  FileTokensAreShort'
    <3>1. /\ FileTokenTTL(asked) \in Int /\ now \in Int
          /\ FileTokenTTL(asked) <= AccessMaxTTL
      BY <2>1, NumberAssumption DEF FileTokenTTL, CreateFileAccessToken, Typed, TypeOK
    <3>2. fileToken[f] \in Int /\ fileToken[f] <= now + AccessMaxTTL
      BY DEF Typed, TypeOK, FileTokensAreShort
    <3>3. Later(fileToken[f], now + FileTokenTTL(asked)) <= now + AccessMaxTTL
      BY <3>1, <3>2, NumberAssumption DEF Later
    <3> QED BY <2>1, <3>3 DEF CreateFileAccessToken, Typed, TypeOK, FileTokensAreShort
  <2>2. CASE Tick
    BY <2>2, NumberAssumption DEF Tick, Typed, TypeOK, FileTokensAreShort
  <2>3. CASE UNCHANGED <<fileToken, now>>
    BY <2>3 DEF FileTokensAreShort
  <2> QED
    BY <2>1, <2>2, <2>3
    DEF Next, vars, CreateShare, DisableShare, VerifySharePassword, BeginOpen,
        OpenStorage, NoStorage, CountDownload, Answer, BeginOpenFile, OpenFile,
        Abort, DeleteObject, DeleteBytes
<1> QED BY <1>1, <1>2, TypedInit, TypedStep, PTL DEF Spec

-----------------------------------------------------------------------------
(* Counts of one share.  The downloads in progress are counted with what   *)
(* they have still to do, so that no step can pass the bounds.             *)

\* The downloads of a share that are at one of some places.
Doing(s, P) == {q \in Request : req[q].pc \in P /\ req[q].share = s}

Begun     == OpenPC
Uncounted == {"storage", "count"}
Counted   == {"answer"}

LimitKept(s) ==
  \A m \in share[s].limit :
    share[s].count + Cardinality(Doing(s, Uncounted))
      <= IF m = 0 THEN 0 ELSE m - 1 + Cardinality(Request)

AnswersKept(s) == served[s] + Cardinality(Doing(s, Counted)) <= share[s].count

EndKept(s) ==
  IF Ended(s) THEN late[s] + Cardinality(Doing(s, Begun)) <= Cardinality(Request)
  ELSE late[s] = 0

Bounded(s) ==
  IF share[s] = NoShare THEN served[s] = 0 /\ late[s] = 0
  ELSE LimitKept(s) /\ AnswersKept(s) /\ EndKept(s)

\* The downloads of a share are finitely many, and as many as there are
\* handlers at most.
LEMMA DoingFinite ==
  ASSUME NEW s, NEW P
  PROVE  /\ IsFiniteSet(Doing(s, P)) /\ Cardinality(Doing(s, P)) \in Nat
         /\ Cardinality(Request) \in Nat
         /\ Cardinality(Doing(s, P)) <= Cardinality(Request)
BY RequestAssumption, FS_Subset, FS_CardinalityType DEF Doing

\* After a step that adds no download there are no more than before.
LEMMA DoingShrinks ==
  ASSUME NEW s, NEW P, Doing(s, P)' \subseteq Doing(s, P)
  PROVE  /\ Cardinality(Doing(s, P)') \in Nat
         /\ Cardinality(Doing(s, P)') <= Cardinality(Doing(s, P))
BY DoingFinite, FS_Subset, FS_CardinalityType

\* After a step that takes one away there is one less.
LEMMA DoingLoses ==
  ASSUME NEW s, NEW P, NEW q \in Doing(s, P), Doing(s, P)' \subseteq Doing(s, P) \ {q}
  PROVE  /\ Cardinality(Doing(s, P)') \in Nat
         /\ Cardinality(Doing(s, P)') <= Cardinality(Doing(s, P)) - 1
<1>1. IsFiniteSet(Doing(s, P)) /\ Cardinality(Doing(s, P)) \in Nat
  BY DoingFinite
<1>2. /\ IsFiniteSet(Doing(s, P) \ {q})
      /\ Cardinality(Doing(s, P) \ {q}) = Cardinality(Doing(s, P)) - 1
  BY <1>1, FS_RemoveElement
<1> QED BY <1>2, FS_Subset, FS_CardinalityType

\* After a step of one handler there is one more at most.
LEMMA DoingGains ==
  ASSUME NEW s, NEW P, NEW q, Doing(s, P)' \subseteq Doing(s, P) \cup {q}
  PROVE  /\ Cardinality(Doing(s, P)') \in Nat
         /\ Cardinality(Doing(s, P)') <= Cardinality(Doing(s, P)) + 1
<1>1. IsFiniteSet(Doing(s, P)) /\ Cardinality(Doing(s, P)) \in Nat
  BY DoingFinite
<1>2. /\ IsFiniteSet(Doing(s, P) \cup {q})
      /\ Cardinality(Doing(s, P) \cup {q}) \in Nat
      /\ Cardinality(Doing(s, P) \cup {q}) <= Cardinality(Doing(s, P)) + 1
  BY <1>1, FS_AddElement
<1> QED BY <1>2, FS_Subset, FS_CardinalityType

\* Nobody downloads a share that is not there.
LEMMA NothingDone ==
  ASSUME Typed, NEW s \in Share, share[s] = NoShare, NEW P \in SUBSET OpenPC
  PROVE  Doing(s, P) = {} /\ Cardinality(Doing(s, P)) = 0
<1>1. Doing(s, P) = {}
  BY DEF Doing, Typed
<1> QED BY <1>1, FS_EmptySet

\* Where the downloads of a share are after a handler has moved.
LEMMA DoingMoves ==
  ASSUME Typed, NEW q \in Request, NEW h, Goto(q, h), NEW s, NEW P
  PROVE  /\ Doing(s, P)' \subseteq Doing(s, P) \cup {q}
         /\ (h.pc \notin P \/ h.share # s) => Doing(s, P)' \subseteq Doing(s, P) \ {q}
         /\ (req[q].pc \in P /\ req[q].share = s) => Doing(s, P)' \subseteq Doing(s, P)
<1>1. \A p \in Request : req'[p] = IF p = q THEN h ELSE req[p]
  BY DEF Goto, Typed, TypeOK
<1> QED BY <1>1 DEF Doing

\* The types of the numbers of a share.
LEMMA Numbers ==
  ASSUME Typed, NEW s \in Share, share[s] # NoShare
  PROVE  /\ share[s] \in ShareRow /\ share[s].count \in Nat
         /\ share[s].limit \subseteq Nat /\ share[s].expires \subseteq Nat
         /\ served[s] \in Nat /\ late[s] \in Nat
BY DEF Typed, TypeOK, ShareRow

\* A step that leaves a share alone, and only takes downloads from it, keeps
\* its bounds.
LEMMA BoundKept ==
  ASSUME Typed, NEW s \in Share, Bounded(s),
         share'[s] = share[s], served'[s] = served[s], late'[s] = late[s],
         now' = now,
         Doing(s, Uncounted)' \subseteq Doing(s, Uncounted),
         Doing(s, Counted)' \subseteq Doing(s, Counted),
         Doing(s, Begun)' \subseteq Doing(s, Begun)
  PROVE  Bounded(s)'
<1>1. CASE share[s] = NoShare
  BY <1>1 DEF Bounded
<1>2. CASE share[s] # NoShare
  <2>1. LimitKept(s) /\ AnswersKept(s) /\ EndKept(s)
    BY <1>2 DEF Bounded
  <2>2. LimitKept(s)'
    <3> SUFFICES ASSUME NEW m \in share[s].limit
                 PROVE  share[s].count + Cardinality(Doing(s, Uncounted)')
                          <= IF m = 0 THEN 0 ELSE m - 1 + Cardinality(Request)
      BY DEF LimitKept
    <3>1. share[s].count + Cardinality(Doing(s, Uncounted))
            <= IF m = 0 THEN 0 ELSE m - 1 + Cardinality(Request)
      BY <2>1 DEF LimitKept
    <3>2. m \in Nat /\ share[s].count \in Nat
      BY <1>2, Numbers
    <3>3. /\ Cardinality(Doing(s, Uncounted)') \in Nat
          /\ Cardinality(Doing(s, Uncounted)) \in Nat
          /\ Cardinality(Request) \in Nat
          /\ Cardinality(Doing(s, Uncounted)') <= Cardinality(Doing(s, Uncounted))
      BY DoingShrinks, DoingFinite
    <3> QED BY <3>1, <3>2, <3>3
  <2>3. AnswersKept(s)'
    <3>1. /\ Cardinality(Doing(s, Counted)') \in Nat
          /\ Cardinality(Doing(s, Counted)) \in Nat
          /\ Cardinality(Doing(s, Counted)') <= Cardinality(Doing(s, Counted))
      BY DoingShrinks, DoingFinite
    <3>2. served[s] \in Nat /\ share[s].count \in Nat
      BY <1>2, Numbers
    <3> QED BY <2>1, <3>1, <3>2 DEF AnswersKept
  <2>4. EndKept(s)'
    <3>1. /\ Cardinality(Doing(s, Begun)') \in Nat
          /\ Cardinality(Doing(s, Begun)) \in Nat
          /\ Cardinality(Request) \in Nat
          /\ Cardinality(Doing(s, Begun)') <= Cardinality(Doing(s, Begun))
      BY DoingShrinks, DoingFinite
    <3>2. late[s] \in Nat
      BY <1>2, Numbers
    <3>3. Ended(s)' <=> Ended(s)
      BY DEF Ended
    <3> QED BY <2>1, <3>1, <3>2, <3>3 DEF EndKept
  <2> QED BY <1>2, <2>2, <2>3, <2>4 DEF Bounded
<1> QED BY <1>1, <1>2

\* A share that is created has no downloads yet.
LEMMA CreateBound ==
  ASSUME Typed, NEW s \in Share, Bounded(s), NEW f, NEW protected, NEW expires,
         NEW limit \in Nullable(Limit), CreateShare(s, f, protected, expires, limit)
  PROVE  Bounded(s)'
<1>1. /\ share'[s].count = 0 /\ share'[s].limit = limit
      /\ share'[s].status = "active"
      /\ served'[s] = 0 /\ late'[s] = 0 /\ share[s] = NoShare
  BY DEF CreateShare, Bounded, Typed, TypeOK
<1>2. \A P : Doing(s, P)' = Doing(s, P)
  BY DEF CreateShare, Doing
<1>3. /\ Cardinality(Doing(s, Uncounted)') = 0
      /\ Cardinality(Doing(s, Counted)') = 0
      /\ Cardinality(Doing(s, Begun)') = 0
  BY <1>1, <1>2, NothingDone DEF Uncounted, Counted, Begun, OpenPC
<1>4. limit \subseteq Nat /\ Cardinality(Request) \in Nat
  BY NumberAssumption, NullableSet, DoingFinite
<1>5. LimitKept(s)'
  <2> SUFFICES ASSUME NEW m \in limit
               PROVE  0 + 0 <= IF m = 0 THEN 0 ELSE m - 1 + Cardinality(Request)
    BY <1>1, <1>3 DEF LimitKept
  <2> QED BY <1>4
<1>6. AnswersKept(s)'
  BY <1>1, <1>3 DEF AnswersKept
<1>7. EndKept(s)'
  BY <1>1, <1>3, <1>4 DEF EndKept
<1> QED BY <1>1, <1>5, <1>6, <1>7 DEF Bounded, NoShare

\* An end, by a switch or by the clock: until then nothing was answered late,
\* and only the downloads in progress can be.
LEMMA EndBound ==
  ASSUME Typed, NEW s \in Share, Bounded(s), share[s] # NoShare,
         share'[s] # NoShare, share'[s].count = share[s].count,
         share'[s].limit = share[s].limit, Ended(s) => Ended(s)',
         UNCHANGED <<req, served, late>>
  PROVE  Bounded(s)'
<1>1. \A P : Doing(s, P)' = Doing(s, P)
  BY DEF Doing
<1>2. LimitKept(s) /\ AnswersKept(s) /\ EndKept(s)
  BY DEF Bounded
<1>3. LimitKept(s)' /\ AnswersKept(s)'
  BY <1>1, <1>2 DEF LimitKept, AnswersKept
<1>4. EndKept(s)'
  <2>1. Cardinality(Doing(s, Begun)') = Cardinality(Doing(s, Begun))
    BY <1>1
  <2>2. /\ Cardinality(Doing(s, Begun)) <= Cardinality(Request)
        /\ Cardinality(Doing(s, Begun)) \in Nat /\ Cardinality(Request) \in Nat
    BY DoingFinite
  <2>3. CASE Ended(s)
    BY <1>2, <2>1, <2>3 DEF EndKept
  <2>4. CASE ~Ended(s)
    <3>1. late'[s] = 0
      BY <1>2, <2>4 DEF EndKept
    <3> QED BY <2>1, <2>2, <3>1 DEF EndKept
  <2> QED BY <2>3, <2>4
<1> QED BY <1>3, <1>4 DEF Bounded

\* A download begins: the count is below the limit, and there is room for all
\* the handlers.
LEMMA BeginBound ==
  ASSUME Typed, NEW s \in Share, Bounded(s), NEW q \in Request, BeginOpen(q, s)
  PROVE  Bounded(s)'
<1>1. share[s] # NoShare /\ ~Ended(s) /\ \A m \in share[s].limit : share[s].count < m
  BY DEF BeginOpen, ValidShare, NoShare
<1>2. LimitKept(s) /\ AnswersKept(s) /\ EndKept(s)
  BY <1>1 DEF Bounded
<1>3. UNCHANGED <<share, served, late, now>>
  BY DEF BeginOpen
<1>4. share[s].limit \subseteq Nat /\ share[s].count \in Nat /\ served[s] \in Nat
  BY <1>1, Numbers
<1>5. LimitKept(s)'
  <2> SUFFICES ASSUME NEW m \in share[s].limit
               PROVE  share[s].count + Cardinality(Doing(s, Uncounted)')
                        <= IF m = 0 THEN 0 ELSE m - 1 + Cardinality(Request)
    BY <1>3 DEF LimitKept
  <2>1. /\ Cardinality(Doing(s, Uncounted)') \in Nat /\ Cardinality(Request) \in Nat
        /\ Cardinality(Doing(s, Uncounted)') <= Cardinality(Request)
    BY RequestAssumption, FS_Subset, FS_CardinalityType DEF Doing
  <2>2. m \in Nat /\ share[s].count < m
    BY <1>1, <1>4
  <2> QED BY <1>4, <2>1, <2>2
<1>6. AnswersKept(s)'
  <2>1. Doing(s, Counted)' \subseteq Doing(s, Counted) \ {q}
    BY DoingMoves DEF BeginOpen, Counted
  <2>2. /\ Cardinality(Doing(s, Counted)') \in Nat
        /\ Cardinality(Doing(s, Counted)) \in Nat
        /\ Cardinality(Doing(s, Counted)') <= Cardinality(Doing(s, Counted))
    BY <2>1, DoingShrinks, DoingFinite
  <2> QED BY <1>2, <1>3, <1>4, <2>2 DEF AnswersKept
<1>7. EndKept(s)'
  <2>1. ~Ended(s)' /\ late'[s] = 0
    BY <1>1, <1>2, <1>3 DEF Ended, EndKept
  <2> QED BY <2>1 DEF EndKept
<1> QED BY <1>1, <1>3, <1>5, <1>6, <1>7 DEF Bounded

\* A download is counted: what it had a claim to it has used.
LEMMA DownloadBound ==
  ASSUME Typed, NEW s \in Share, Bounded(s), NEW q \in Request, CountDownload(q),
         req[q].share = s
  PROVE  Bounded(s)'
<1> DEFINE h == [req[q] EXCEPT !.pc = "answer"]
<1>1. req[q] \in OpenReq /\ share[s] # NoShare
  BY Variants DEF CountDownload, Typed, OpenPC
<1>2. Goto(q, h) /\ h.pc = "answer" /\ h.share = s
  BY <1>1 DEF CountDownload, OpenReq
<1> HIDE DEF h
<1>3. LimitKept(s) /\ AnswersKept(s) /\ EndKept(s)
  BY <1>1 DEF Bounded
<1>4. share[s].limit \subseteq Nat /\ share[s].count \in Nat /\ served[s] \in Nat
      /\ share[s] \in ShareRow
  BY <1>1, Numbers
<1>5. /\ share'[s].count = share[s].count + 1 /\ share'[s].limit = share[s].limit
      /\ share'[s].status = share[s].status /\ share'[s].expires = share[s].expires
      /\ UNCHANGED <<served, late, now>>
  BY <1>4 DEF CountDownload, Typed, TypeOK, ShareRow
<1>6. share'[s] # NoShare
  BY <1>4, <1>5 DEF ShareRow, NoShare
<1>7. q \in Doing(s, Uncounted)
  BY DEF CountDownload, Doing, Uncounted
<1>8. LimitKept(s)'
  <2> SUFFICES ASSUME NEW m \in share[s].limit
               PROVE  share[s].count + 1 + Cardinality(Doing(s, Uncounted)')
                        <= IF m = 0 THEN 0 ELSE m - 1 + Cardinality(Request)
    BY <1>5 DEF LimitKept
  <2>1. Doing(s, Uncounted)' \subseteq Doing(s, Uncounted) \ {q}
    BY <1>2, DoingMoves DEF Uncounted
  <2>2. /\ Cardinality(Doing(s, Uncounted)') \in Nat
        /\ Cardinality(Doing(s, Uncounted)) \in Nat
        /\ Cardinality(Doing(s, Uncounted)') <= Cardinality(Doing(s, Uncounted)) - 1
    BY <1>7, <2>1, DoingLoses, DoingFinite
  <2>3. share[s].count + Cardinality(Doing(s, Uncounted))
          <= IF m = 0 THEN 0 ELSE m - 1 + Cardinality(Request)
    BY <1>3 DEF LimitKept
  <2>4. m \in Nat /\ Cardinality(Request) \in Nat
    BY <1>4, DoingFinite
  <2> QED BY <1>4, <2>2, <2>3, <2>4
<1>9. AnswersKept(s)'
  <2>1. Doing(s, Counted)' \subseteq Doing(s, Counted) \cup {q}
    BY <1>2, DoingMoves
  <2>2. /\ Cardinality(Doing(s, Counted)') \in Nat
        /\ Cardinality(Doing(s, Counted)) \in Nat
        /\ Cardinality(Doing(s, Counted)') <= Cardinality(Doing(s, Counted)) + 1
    BY <2>1, DoingGains, DoingFinite
  <2> QED BY <1>3, <1>4, <1>5, <2>2 DEF AnswersKept
<1>10. EndKept(s)'
  <2>1. Ended(s)' <=> Ended(s)
    BY <1>5 DEF Ended
  <2>2. Doing(s, Begun)' \subseteq Doing(s, Begun)
    BY <1>2, DoingMoves DEF CountDownload, Begun, OpenPC
  <2>3. /\ Cardinality(Doing(s, Begun)') \in Nat
        /\ Cardinality(Doing(s, Begun)) \in Nat /\ Cardinality(Request) \in Nat
        /\ Cardinality(Doing(s, Begun)') <= Cardinality(Doing(s, Begun))
    BY <2>2, DoingShrinks, DoingFinite
  <2>4. late[s] \in Nat /\ late'[s] = late[s]
    BY <1>1, <1>5, Numbers
  <2> QED BY <1>3, <2>1, <2>3, <2>4 DEF EndKept
<1> QED BY <1>6, <1>8, <1>9, <1>10 DEF Bounded

\* A download is answered: it was counted, and it is over.
LEMMA AnswerBound ==
  ASSUME Typed, NEW s \in Share, Bounded(s), NEW q \in Request, Answer(q),
         req[q].share = s
  PROVE  Bounded(s)'
<1>1. share[s] # NoShare
  BY Variants DEF Answer, Typed, OpenPC
<1>2. LimitKept(s) /\ AnswersKept(s) /\ EndKept(s)
  BY <1>1 DEF Bounded
<1>3. /\ UNCHANGED <<share, now>>
      /\ served'[s] = served[s] + 1
      /\ late'[s] = IF Ended(s) THEN late[s] + 1 ELSE late[s]
  BY DEF Answer, Typed, TypeOK
<1>4. /\ share[s].limit \subseteq Nat /\ share[s].count \in Nat
      /\ served[s] \in Nat /\ late[s] \in Nat
  BY <1>1, Numbers
<1>5. Goto(q, Idle) /\ Idle.pc \notin OpenPC
  BY DEF Answer, Idle, OpenPC
<1>6. LimitKept(s)'
  <2> SUFFICES ASSUME NEW m \in share[s].limit
               PROVE  share[s].count + Cardinality(Doing(s, Uncounted)')
                        <= IF m = 0 THEN 0 ELSE m - 1 + Cardinality(Request)
    BY <1>3 DEF LimitKept
  <2>1. Doing(s, Uncounted)' \subseteq Doing(s, Uncounted)
    BY <1>5, DoingMoves DEF Uncounted, OpenPC
  <2>2. /\ Cardinality(Doing(s, Uncounted)') \in Nat
        /\ Cardinality(Doing(s, Uncounted)) \in Nat
        /\ Cardinality(Doing(s, Uncounted)') <= Cardinality(Doing(s, Uncounted))
    BY <2>1, DoingShrinks, DoingFinite
  <2>3. share[s].count + Cardinality(Doing(s, Uncounted))
          <= IF m = 0 THEN 0 ELSE m - 1 + Cardinality(Request)
    BY <1>2 DEF LimitKept
  <2>4. m \in Nat /\ Cardinality(Request) \in Nat
    BY <1>4, DoingFinite
  <2> QED BY <1>4, <2>2, <2>3, <2>4
<1>7. AnswersKept(s)'
  <2>0. q \in Doing(s, Counted)
    BY DEF Answer, Doing, Counted, OpenPC
  <2>1. Doing(s, Counted)' \subseteq Doing(s, Counted) \ {q}
    <3>1. Idle.pc \notin Counted
      BY <1>5 DEF Counted, OpenPC
    <3> QED BY <1>5, <3>1, DoingMoves
  <2>2. /\ Cardinality(Doing(s, Counted)') \in Nat
        /\ Cardinality(Doing(s, Counted)) \in Nat
        /\ Cardinality(Doing(s, Counted)') <= Cardinality(Doing(s, Counted)) - 1
    BY <2>0, <2>1, DoingLoses, DoingFinite
  <2> QED BY <1>2, <1>3, <1>4, <2>2 DEF AnswersKept
<1>8. EndKept(s)'
  <2>0. q \in Doing(s, Begun)
    BY DEF Answer, Doing, Begun, OpenPC
  <2>1. Doing(s, Begun)' \subseteq Doing(s, Begun) \ {q}
    <3>1. Idle.pc \notin Begun
      BY <1>5 DEF Begun, OpenPC
    <3> QED BY <1>5, <3>1, DoingMoves
  <2>2. /\ Cardinality(Doing(s, Begun)') \in Nat
        /\ Cardinality(Doing(s, Begun)) \in Nat /\ Cardinality(Request) \in Nat
        /\ Cardinality(Doing(s, Begun)') <= Cardinality(Doing(s, Begun)) - 1
    BY <2>0, <2>1, DoingLoses, DoingFinite
  <2>3. Ended(s)' <=> Ended(s)
    BY <1>3 DEF Ended
  <2> QED BY <1>2, <1>3, <1>4, <2>2, <2>3 DEF EndKept
<1> QED BY <1>1, <1>3, <1>6, <1>7, <1>8 DEF Bounded

\* A step of a handler that is not about the numbers of a share, or not about
\* this share.
LEMMA MoveBound ==
  ASSUME Typed, NEW s \in Share, Bounded(s), NEW q \in Request, NEW h, Goto(q, h),
         share'[s] = share[s], served'[s] = served[s], late'[s] = late[s], now' = now,
         \/ h.pc \notin OpenPC \/ h.share # s
         \/ /\ req[q].share = s
            /\ req[q].pc = "storage" /\ h.pc = "count"
  PROVE  Bounded(s)'
<1>1. CASE h.pc \notin OpenPC \/ h.share # s
  <2>1. ASSUME NEW P \in SUBSET OpenPC
        PROVE  Doing(s, P)' \subseteq Doing(s, P)
    <3>1. h.pc \notin P \/ h.share # s
      BY <1>1
    <3> QED BY <3>1, DoingMoves
  <2> QED BY <2>1, BoundKept DEF Uncounted, Counted, Begun, OpenPC
<1>2. CASE req[q].share = s /\ req[q].pc = "storage" /\ h.pc = "count"
  <2>1. Doing(s, Uncounted)' \subseteq Doing(s, Uncounted)
    BY <1>2, DoingMoves DEF Uncounted
  <2>2. Doing(s, Counted)' \subseteq Doing(s, Counted)
    BY <1>2, DoingMoves DEF Counted
  <2>3. Doing(s, Begun)' \subseteq Doing(s, Begun)
    BY <1>2, DoingMoves DEF Begun, OpenPC
  <2> QED BY <2>1, <2>2, <2>3, BoundKept
<1> QED BY <1>1, <1>2

\* A step that leaves the handlers and a share alone.
LEMMA QuietBound ==
  ASSUME Typed, NEW s \in Share, Bounded(s), UNCHANGED <<req, served, late, now>>,
         share'[s] = share[s]
  PROVE  Bounded(s)'
<1>1. \A P : Doing(s, P)' = Doing(s, P)
  BY DEF Doing
<1> QED BY <1>1, BoundKept

\* The steps of the downloads keep the bounds of each share.
LEMMA DownloadStep ==
  ASSUME Typed, NEW s \in Share, Bounded(s), NEW q \in Request,
         \/ \E t \in Share : BeginOpen(q, t)
         \/ OpenStorage(q) \/ NoStorage(q) \/ CountDownload(q) \/ Answer(q)
         \/ \E f \in File : BeginOpenFile(q, f)
         \/ OpenFile(q) \/ Abort(q)
  PROVE  Bounded(s)'
<1>1. ASSUME NEW t \in Share, BeginOpen(q, t)
      PROVE  Bounded(s)'
  <2> DEFINE h == [pc |-> "storage", share |-> t]
  <2>1. CASE s = t
    BY <1>1, <2>1, BeginBound
  <2>2. CASE s # t
    <3>1. Goto(q, h) /\ h.share # s
      BY <1>1, <2>2 DEF BeginOpen
    <3>2. UNCHANGED <<share, served, late, now>>
      BY <1>1 DEF BeginOpen
    <3> QED BY <3>1, <3>2, MoveBound
  <2> QED BY <2>1, <2>2
<1>2. CASE OpenStorage(q)
  <2> DEFINE h == [req[q] EXCEPT !.pc = "count"]
  <2>1. req[q] \in OpenReq
    BY <1>2, Variants DEF OpenStorage, Typed, OpenPC
  <2>2. h.pc = "count" /\ h.share = req[q].share /\ Goto(q, h)
    BY <1>2, <2>1 DEF OpenReq, OpenStorage
  <2>3. UNCHANGED <<share, served, late, now>> /\ req[q].pc = "storage"
    BY <1>2 DEF OpenStorage
  <2> HIDE DEF h
  <2> QED BY <2>2, <2>3, MoveBound
<1>3. CASE CountDownload(q)
  <2> DEFINE h == [req[q] EXCEPT !.pc = "answer"]
  <2>1. req[q] \in OpenReq
    BY <1>3, Variants DEF CountDownload, Typed, OpenPC
  <2>2. h.share = req[q].share /\ Goto(q, h)
    BY <1>3, <2>1 DEF OpenReq, CountDownload
  <2> HIDE DEF h
  <2>3. CASE req[q].share = s
    BY <1>3, <2>3, DownloadBound
  <2>4. CASE req[q].share # s
    <3>1. share'[s] = share[s] /\ UNCHANGED <<served, late, now>>
      BY <1>3, <2>4 DEF CountDownload, Typed, TypeOK
    <3> QED BY <2>2, <2>4, <3>1, MoveBound
  <2> QED BY <2>3, <2>4
<1>4. CASE Answer(q)
  <2>1. CASE req[q].share = s
    BY <1>4, <2>1, AnswerBound
  <2>2. CASE req[q].share # s
    <3>1. /\ served'[s] = served[s] /\ late'[s] = late[s]
          /\ UNCHANGED <<share, now>>
      BY <1>4, <2>2 DEF Answer, Typed, TypeOK
    <3>2. Goto(q, Idle) /\ Idle.pc \notin OpenPC
      BY <1>4 DEF Answer, Idle, OpenPC
    <3> QED BY <3>1, <3>2, MoveBound
  <2> QED BY <2>1, <2>2
<1>5. ASSUME NEW f \in File, BeginOpenFile(q, f)
      PROVE  Bounded(s)'
  <2> DEFINE h == [pc |-> "openFile", file |-> f]
  <2>1. Goto(q, h) /\ h.pc \notin OpenPC
    BY <1>5 DEF BeginOpenFile, OpenPC
  <2>2. UNCHANGED <<share, served, late, now>>
    BY <1>5 DEF BeginOpenFile
  <2> QED BY <2>1, <2>2, MoveBound
<1>6. CASE NoStorage(q) \/ OpenFile(q) \/ Abort(q)
  <2>1. Goto(q, Idle) /\ Idle.pc \notin OpenPC
    BY <1>6 DEF NoStorage, OpenFile, Abort, Idle, OpenPC
  <2>2. UNCHANGED <<share, served, late, now>>
    BY <1>6 DEF NoStorage, OpenFile, Abort
  <2> QED BY <2>1, <2>2, MoveBound
<1> QED BY <1>1, <1>2, <1>3, <1>4, <1>5, <1>6

\* Every step keeps the bounds of each share.
LEMMA BoundedStep ==
  ASSUME Typed, NEW s \in Share, Bounded(s), [Next]_vars
  PROVE  Bounded(s)'
<1>1. ASSUME NEW t \in Share, NEW f \in File, NEW protected \in BOOLEAN,
             NEW expires \in Nullable(Lifetime), NEW limit \in Nullable(Limit),
             CreateShare(t, f, protected, expires, limit)
      PROVE  Bounded(s)'
  <2>1. CASE s = t
    BY <1>1, <2>1, CreateBound
  <2>2. CASE s # t
    <3>1. share'[s] = share[s]
      BY <1>1, <2>2 DEF CreateShare, Typed, TypeOK
    <3> QED BY <1>1, <3>1, QuietBound DEF CreateShare
  <2> QED BY <2>1, <2>2
<1>2. ASSUME NEW t \in Share, DisableShare(t)
      PROVE  Bounded(s)'
  <2>1. CASE s = t
    <3>1. share[s] # NoShare
      BY <1>2, <2>1 DEF DisableShare
    <3>2. share[s] \in ShareRow
      BY <3>1, Numbers
    <3>3. share'[s] = [share[s] EXCEPT !.status = "disabled"]
      BY <1>2, <2>1 DEF DisableShare, Typed, TypeOK
    <3>4. /\ share'[s].count = share[s].count /\ share'[s].limit = share[s].limit
          /\ share'[s].status = "disabled"
      BY <3>2, <3>3 DEF ShareRow
    <3>5. share'[s] # NoShare /\ Ended(s)'
      BY <3>4 DEF NoShare, Ended
    <3>6. UNCHANGED <<req, served, late>>
      BY <1>2 DEF DisableShare
    <3> QED BY <3>1, <3>4, <3>5, <3>6, EndBound
  <2>2. CASE s # t
    <3>1. share'[s] = share[s]
      BY <1>2, <2>2 DEF DisableShare, Typed, TypeOK
    <3> QED BY <1>2, <3>1, QuietBound DEF DisableShare
  <2> QED BY <2>1, <2>2
<1>3. CASE Tick
  <2>1. UNCHANGED <<share, req, served, late>> /\ now' = now + 1
    BY <1>3 DEF Tick
  <2>2. CASE share[s] = NoShare
    BY <2>1, <2>2 DEF Bounded
  <2>3. CASE share[s] # NoShare
    <3>1. share[s].expires \subseteq Nat /\ now \in Nat
      BY <2>3, Numbers DEF Typed, TypeOK
    <3>2. Ended(s) => Ended(s)'
      BY <2>1, <3>1 DEF Ended
    <3> QED BY <2>1, <2>3, <3>2, EndBound
  <2> QED BY <2>2, <2>3
<1>4. CASE UNCHANGED <<share, req, served, late, now>>
  BY <1>4, QuietBound
<1> QED
  BY <1>1, <1>2, <1>3, <1>4, DownloadStep
  DEF Next, vars, VerifySharePassword, CreateFileAccessToken, DeleteObject,
      DeleteBytes

\* The bounds of every share hold in every reachable state.
LEMMA BoundsHold == Spec => [](Typed /\ \A s \in Share : Bounded(s))
<1>1. Init => \A s \in Share : Bounded(s)
  BY DEF Init, Bounded
<1>2. Typed /\ (\A s \in Share : Bounded(s)) /\ [Next]_vars
        => (\A s \in Share : Bounded(s))'
  BY BoundedStep
<1> QED BY <1>1, <1>2, TypedInit, TypedStep, PTL DEF Spec

\* However many downloads run together, they pass a limit by their number less
\* one at most, and never a limit of zero.
THEOREM DownloadOvershoot == Spec => []DownloadOvershootBounded
<1>1. Typed /\ (\A s \in Share : Bounded(s)) => DownloadOvershootBounded
  <2> SUFFICES ASSUME Typed, \A s \in Share : Bounded(s),
                      NEW s \in Share, share[s] # NoShare, NEW m \in share[s].limit
               PROVE  share[s].count <= IF m = 0 THEN 0 ELSE m - 1 + Cardinality(Request)
    BY DEF DownloadOvershootBounded
  <2>1. share[s].count + Cardinality(Doing(s, Uncounted))
          <= IF m = 0 THEN 0 ELSE m - 1 + Cardinality(Request)
    BY DEF Bounded, LimitKept
  <2>2. /\ Cardinality(Doing(s, Uncounted)) \in Nat /\ Cardinality(Request) \in Nat
        /\ share[s].count \in Nat /\ m \in Nat
    BY DoingFinite, Numbers
  <2> QED BY <2>1, <2>2
<1> QED BY <1>1, BoundsHold, PTL

\* No client gets bytes that were not counted, whatever fails in between.
THEOREM DownloadsCounted == Spec => []ServedIsCounted
<1>1. Typed /\ (\A s \in Share : Bounded(s)) => ServedIsCounted
  <2> SUFFICES ASSUME Typed, \A s \in Share : Bounded(s),
                      NEW s \in Share, share[s] # NoShare
               PROVE  served[s] <= share[s].count
    BY DEF ServedIsCounted
  <2>1. served[s] + Cardinality(Doing(s, Counted)) <= share[s].count
    BY DEF Bounded, AnswersKept
  <2>2. /\ Cardinality(Doing(s, Counted)) \in Nat
        /\ share[s].count \in Nat /\ served[s] \in Nat
    BY DoingFinite, Numbers
  <2> QED BY <2>1, <2>2
<1> QED BY <1>1, BoundsHold, PTL

\* A share that has ended answers what had begun, and nothing else.
THEOREM SharesDrain == Spec => []EndedShareDrains
<1>1. Typed /\ (\A s \in Share : Bounded(s)) => EndedShareDrains
  <2> SUFFICES ASSUME Typed, \A s \in Share : Bounded(s), NEW s \in Share
               PROVE  late[s] <= Cardinality(Request)
    BY DEF EndedShareDrains
  <2>1. Cardinality(Request) \in Nat /\ Cardinality(Doing(s, Begun)) \in Nat
    BY DoingFinite
  <2>2. late[s] \in Nat
    BY DEF Typed, TypeOK
  <2>3. \/ late[s] = 0
        \/ late[s] + Cardinality(Doing(s, Begun)) <= Cardinality(Request)
    BY DEF Bounded, EndKept
  <2> QED BY <2>1, <2>2, <2>3
<1> QED BY <1>1, BoundsHold, PTL
=============================================================================
