---------------------------- MODULE MCAdminSession ----------------------------
(* Small instances of AdminSession for TLC.                                  *)
EXTENDS AdminSession, TLC

\* Handlers, uuids, names and passwords are interchangeable.
Symmetry ==
  Permutations(Request) \cup Permutations(Sid)
    \cup Permutations(Name) \cup Permutations(Password)
=============================================================================
