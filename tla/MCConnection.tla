---------------------------- MODULE MCConnection ----------------------------
(* Instances of Connection for TLC: the bounds are in the .cfg files. *)
EXTENDS Connection
=============================================================================
