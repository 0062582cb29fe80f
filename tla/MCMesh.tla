------------------------------- MODULE MCMesh -------------------------------
(***************************************************************************)
(* Mesh for TLC.                                                           *)
(***************************************************************************)
EXTENDS Mesh
=============================================================================
