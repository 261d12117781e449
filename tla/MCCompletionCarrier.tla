------------------------- MODULE MCCompletionCarrier -------------------------
(***************************************************************************)
(* Instances of CompletionCarrier for TLC.                                  *)
(***************************************************************************)
EXTENDS CompletionCarrier, TLC

CONSTANTS console, editor
Widgets == Permutations({console, editor})
=============================================================================
