----------------------------- MODULE MCLoginGuard -----------------------------
(* Small instances of LoginGuard for TLC.                                    *)
EXTENDS LoginGuard, TLC
=============================================================================
