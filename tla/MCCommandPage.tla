---------------------------- MODULE MCCommandPage ----------------------------
(* A small instance of CommandPage for TLC. *)
EXTENDS CommandPage
=============================================================================
