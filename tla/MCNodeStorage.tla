---------------------------- MODULE MCNodeStorage ----------------------------
(* NodeStorage on the instances of MCCommandLog. *)
EXTENDS MCCommandLog, NodeStorage
=============================================================================
