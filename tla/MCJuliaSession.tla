--------------------------- MODULE MCJuliaSession ----------------------------
(***************************************************************************)
(* Instances of JuliaSession for TLC.                                       *)
(***************************************************************************)
EXTENDS ServiceRefinement

CONSTANTS c1, d1, d2   \* one text to evaluate or complete, two directories

TwoPanes == <<"Functions", "Objects">>
OnePane  == <<"Objects">>
NoPanes  == <<>>

\* A command, and the two requests of a package action.
Commands == {<<EvalMsg(c1)>>, <<PackageMsg("add"), PackageMsg("installed")>>}
OneCommand == {<<EvalMsg(c1)>>}

Completions == {<<CompleteMsg(c1)>>}
OnlyCd == {<<CdMsg(d1)>>}

Throws   == {DirMsg(d1), CompleteMsg(c1)}
EvalHang == {EvalMsg(c1)}
LongReplies == {"output-package", "output-watch"}
Quiet    == {<<>>}
AnyInit  == {<<>>, <<"text">>}
=============================================================================
