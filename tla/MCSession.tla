------------------------------ MODULE MCSession ------------------------------
(***************************************************************************)
(* Session for TLC.                                                        *)
(***************************************************************************)
EXTENDS Session

CONSTANTS general, dm, u
=============================================================================
