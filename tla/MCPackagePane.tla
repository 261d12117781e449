---------------------------- MODULE MCPackagePane ----------------------------
(***************************************************************************)
(* Instances of PackagePane for TLC.                                        *)
(***************************************************************************)
EXTENDS PackagePane

CONSTANTS p1, p2
=============================================================================
