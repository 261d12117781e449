-------------------------- MODULE MCMessageFraming ---------------------------
(***************************************************************************)
(* Instances of MessageFraming for TLC.                                     *)
(***************************************************************************)
EXTENDS MessageFraming
=============================================================================
