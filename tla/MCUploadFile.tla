---------------------------- MODULE MCUploadFile ----------------------------
(* Small instances of UploadFile for TLC.                                    *)
EXTENDS UploadFile, TLC

\* Files, request slots and cleanup runs are interchangeable.
Symmetry == Permutations(File) \cup Permutations(Request) \cup Permutations(Cleaner)

\* Every file has been presigned, with a temporary or an active ref: where the
\* uploads of Spec lead when nothing else happens meanwhile.
PresignedInit ==
  \E user \in User, scene \in Scene, ttl \in PutTTL,
     date \in [File -> 0..MaxTime], temp \in [File -> BOOLEAN] :
    /\ now \in {n \in 0..MaxTime : \A f \in File : date[f] <= n}
    /\ object = [f \in File |->
         [status |-> "pending", uploader |-> user, created |-> date[f]]]
    /\ ref = [f \in File |-> [k \in Slot |->
         IF k # 1 THEN NoRef
         ELSE [status |-> IF temp[f] THEN "temp" ELSE "active",
               scene |-> scene, owner |-> user,
               expires |-> IF temp[f] THEN date[f] + TempTTL ELSE NoExpiry]]]
    /\ url = [f \in File |-> [ttl |-> ttl, until |-> date[f] + ttl]]
    /\ blob = [f \in File |-> "none"]
    /\ req = [q \in Request |-> Idle]
    /\ cleaner = [c \in Cleaner |-> Idle]
    /\ granted = [f \in File |-> {}]
    /\ revived = [f \in File |-> 0]
    /\ lost = {}

\* The cleanup of what has been presigned.
FairPresignedSpec == PresignedInit /\ [][Next]_vars /\ Fairness
=============================================================================
