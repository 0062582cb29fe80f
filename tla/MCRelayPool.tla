----------------------------- MODULE MCRelayPool -----------------------------
(***************************************************************************)
(* RelayPool for TLC.                                                      *)
(***************************************************************************)
EXTENDS RelayPool
=============================================================================
