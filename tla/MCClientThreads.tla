-------------------------- MODULE MCClientThreads --------------------------
(* Instances of ClientThreads for TLC: the bound is in the .cfg file. *)
EXTENDS ClientThreads
=============================================================================
