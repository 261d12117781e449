--------------------------- MODULE MCJuliaConsole ----------------------------
(***************************************************************************)
(* Instances of JuliaConsole for TLC.                                       *)
(***************************************************************************)
EXTENDS JuliaConsole
=============================================================================
