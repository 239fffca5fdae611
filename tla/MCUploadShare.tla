---------------------------- MODULE MCUploadShare ----------------------------
(* Small instances of UploadShare for TLC.                                   *)
EXTENDS UploadShare, TLC

\* Downloads and shares are interchangeable.
Symmetry == Permutations(Request) \cup Permutations(Share)
=============================================================================
