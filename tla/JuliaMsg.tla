------------------------------ MODULE JuliaMsg ------------------------------
(***************************************************************************)
(* The messages the IDE and the Julia process exchange: EvaluatorMessage    *)
(* (a type name and string parameters), the type names of juliamsg.h, and   *)
(* which replies the handlers of ConsoleLogic.jl give to which request.     *)
(* A message is abstracted to its type name and its first parameter.        *)
(***************************************************************************)
EXTENDS Naturals, Sequences

CONSTANTS
  Code,    \* texts a user can have evaluated or completed
  Dirs,    \* directories an editor or the file system pane can name
  NoDir    \* the empty curr_working_dir; also "Julia still in its start directory"

ASSUME NoDirAssumption == NoDir \notin Dirs

EvalMsg(c)     == [typnam |-> "eval",        arg |-> c]
CdMsg(d)       == [typnam |-> "eval-silent", arg |-> d]
DirMsg(d)      == [typnam |-> "dir",         arg |-> d]
CompleteMsg(c) == [typnam |-> "complete",    arg |-> c]
WatchMsg(k)    == [typnam |-> "watch",       arg |-> k]
PackageMsg(c)  == [typnam |-> "package",     arg |-> c]

WatchKinds      == {"Functions", "Objects"}
PackageCommands == {"available", "installed", "add", "remove", "update"}

Request ==
  [typnam : {"eval", "complete"},   arg : Code] \union
  [typnam : {"eval-silent", "dir"}, arg : Dirs] \union
  [typnam : {"watch"},              arg : WatchKinds] \union
  [typnam : {"package"},            arg : PackageCommands]

ReplyTypes ==
  {"output-eval", "output-eval-silent", "output-error", "output-dir",
   "output-complete", "output-watch", "output-package"}

\* A reply carries no identifier: "to" is the request whose data it holds.
Reply == [typnam : ReplyTypes, to : Request]

\* The replies handle_input can post for a request; every handler that returns
\* has posted exactly one.
RepliesTo(r) ==
  LET types == CASE r.typnam = "eval"        -> {"output-eval", "output-error"}
                 [] r.typnam = "eval-silent" -> {"output-eval-silent", "output-error"}
                 [] r.typnam = "dir"         -> {"output-dir"}
                 [] r.typnam = "complete"    -> {"output-complete"}
                 [] r.typnam = "watch"       -> {"output-watch"}
                 [] OTHER                    -> {"output-package"}
  IN  [typnam : types, to : {r}]
=============================================================================
