---------------------------- MODULE MCFileTransfer ----------------------------
(***************************************************************************)
(* FileTransfer for TLC: one file of two chunks; one peer has it, one has a  *)
(* damaged copy, one has none.                                              *)
(***************************************************************************)
EXTENDS FileTransfer

CONSTANTS whole, damaged, none, c

OneSize == [f \in Cid |-> 2]

Copies ==
  [p \in Peer |-> [f \in Cid |-> CASE p = whole -> <<"good", "good">>
                                  [] p = damaged -> <<"good", "bad">>
                                  [] p = none -> NoBlob]]
=============================================================================
