----------------------------- MODULE PackagePane -----------------------------
(***************************************************************************)
(* The Packages pane: the package controller and its model                  *)
(* (packagecontroller.cpp, packagemodel.cpp) over the package handler of    *)
(* ConsoleLogic.jl.  The command channel between them is what               *)
(* CommandService promises: a queue, answered one request after the other.  *)
(***************************************************************************)
EXTENDS Naturals, Sequences, SequencesExt

CONSTANTS
  Package,      \* the packages of METADATA.jl
  MayFail,      \* commands that may be answered "failed"
  ConsoleRuns,  \* what commands of the console do to packages: "add" or "nothing"
  MaxQueue,     \* bound: the user acts only while fewer requests wait
  MaxResets     \* bound on the number of resets

Commands == {"available", "installed", "add", "remove", "update", "eval", "dir"}

ASSUME PackageAssumption ==
  /\ MayFail \subseteq Commands
  /\ ConsoleRuns \subseteq {"add", "nothing"}
  /\ MaxQueue \in Nat /\ MaxResets \in Nat

VARIABLES
  shown,           \* PackageModel: a package has no row, a plain or a bold one
  busy,            \* PackageController.busy: double-clicks are ignored
  queue,           \* requests not answered, the oldest first
  installed,       \* the packages Julia has installed
  connected,       \* Julia is up: the head of the queue is under way
  refreshOnReady,  \* ResetOnConsoleReady is connected to the console's Ready
  resets           \* resets so far

vars == <<shown, busy, queue, installed, connected, refreshOnReady, resets>>

Req(cmd, ps) == [cmd |-> cmd, pkgs |-> ps]
GetAvailable == Req("available", {})
GetRequired  == Req("installed", {})

Bold == {p \in Package : shown[p] = "bold"}

Init ==
  /\ shown = [p \in Package |-> "none"]
  /\ busy = FALSE
  /\ queue = <<GetAvailable, GetRequired>>
  /\ installed \in SUBSET Package
  /\ connected = FALSE
  /\ refreshOnReady = FALSE
  /\ resets = 0

-----------------------------------------------------------------------------
\* TogglePackage: a bold package is removed, another one added; what is installed is
\* asked for behind it.
TogglePackage ==
  /\ ~busy
  /\ Len(queue) < MaxQueue
  /\ \E p \in {q \in Package : shown[q] # "none"} :
       queue' = queue \o <<Req(IF shown[p] = "bold" THEN "remove" ELSE "add", {p}), GetRequired>>
  /\ busy' = TRUE
  /\ UNCHANGED <<shown, installed, connected, refreshOnReady, resets>>

UpdatePackages ==
  /\ ~busy
  /\ Len(queue) < MaxQueue
  /\ queue' = queue \o <<Req("update", {}), GetAvailable, GetRequired>>
  /\ busy' = TRUE
  /\ UNCHANGED <<shown, installed, connected, refreshOnReady, resets>>

\* A command in the console; the pane does not know what it does.
ConsoleCommand ==
  /\ Len(queue) < MaxQueue
  /\ \E run \in ConsoleRuns, p \in Package :
       queue' = Append(queue, Req("eval", IF run = "add" THEN {p} ELSE {}))
  /\ UNCHANGED <<shown, busy, installed, connected, refreshOnReady, resets>>

-----------------------------------------------------------------------------
\* Mutant of Effect: the list of packages is taken for a package.
EffectOnList(r) ==
  CASE r.cmd \in {"add", "eval"} -> installed \union {r.pkgs}
    [] r.cmd = "remove"          -> installed \ {r.pkgs}
    [] OTHER                     -> installed

\* on_pkg_msg and on_eval_msg: what Julia has installed after request r.
Effect(r) ==
  CASE r.cmd \in {"add", "eval"} -> installed \union r.pkgs
    [] r.cmd = "remove"          -> installed \ r.pkgs
    [] OTHER                     -> installed

\* Mutant of InstalledRows: invalidateAll() is not called.
InstalledRowsAdded(s) == [p \in Package |-> IF p \in installed THEN "bold" ELSE s[p]]

\* An "installed" list on rows s: invalidateAll() and insertRows().
InstalledRows(s) ==
  [p \in Package |-> IF p \in installed THEN "bold"
                     ELSE IF s[p] = "bold" THEN "plain" ELSE s[p]]

\* An "available" list: an existing row is replaced, and is bold no more.
AvailableRows == [p \in Package |-> "plain"]

\* The pane's slot on output(), for a package reply whose first parameter is kind.  The
\* failure of an action starts with the action's name, so only a failed list is seen.
EvaluatorOutput(kind) ==
  CASE kind = "available" -> [busy |-> FALSE, shown |-> AvailableRows]
    [] kind = "installed" -> [busy |-> FALSE, shown |-> InstalledRows(shown)]
    [] kind = "failed"    -> [busy |-> FALSE, shown |-> shown]
    [] OTHER              -> [busy |-> busy, shown |-> shown]

IsList(r) == r.cmd \in {"available", "installed"}

\* What the pane may be told of request r once it is handled, and what r leaves installed.
Outcomes(r) ==
  {[pane |-> EvaluatorOutput(r.cmd), installed |-> Effect(r)]} \union
  (IF r.cmd \in MayFail
   THEN {[pane |-> EvaluatorOutput(IF IsList(r) THEN "failed" ELSE r.cmd), installed |-> installed]}
   ELSE {})

Lists == <<GetAvailable, GetRequired>>

\* ready() with q left to do and the pane's busy: ResetOnConsoleReady, if connected,
\* clears busy and asks for the lists.
Ready(q, b) ==
  /\ queue' = IF refreshOnReady THEN q \o Lists ELSE q
  /\ busy' = (b /\ ~refreshOnReady)
  /\ refreshOnReady' = FALSE

\* The head of the queue is executed, its reply is delivered and, with nothing left,
\* ready() is emitted.
Answer ==
  /\ connected
  /\ queue # <<>>
  /\ \E out \in Outcomes(Head(queue)) :
       /\ shown' = out.pane.shown
       /\ installed' = out.installed
       /\ IF Tail(queue) = <<>>
          THEN Ready(<<>>, out.pane.busy)
          ELSE queue' = Tail(queue) /\ busy' = out.pane.busy /\ UNCHANGED refreshOnReady
  /\ UNCHANGED <<connected, resets>>

\* Mutant of Connect: ready() is not emitted.
ConnectSilently ==
  /\ ~connected
  /\ connected' = TRUE
  /\ UNCHANGED <<queue, busy, refreshOnReady, shown, installed, resets>>

\* Julia is up.  The directory of the current editor, if there is one, goes first.
Connect ==
  /\ ~connected
  /\ connected' = TRUE
  /\ \/ queue' = <<Req("dir", {})>> \o queue /\ UNCHANGED <<busy, refreshOnReady>>
     \/ queue # <<>> /\ UNCHANGED <<queue, busy, refreshOnReady>>
     \/ queue = <<>> /\ Ready(queue, busy)
  /\ UNCHANGED <<shown, installed, resets>>

\* Clearing the console shows a prompt, and so emits Ready, whatever is under way.
ClearConsole ==
  /\ refreshOnReady
  /\ Ready(queue, busy)
  /\ UNCHANGED <<shown, installed, connected, resets>>

\* Mutant of Reset: OnConsoleReset is not connected to Resetting.
ResetUnnoticed ==
  /\ resets < MaxResets
  /\ resets' = resets + 1
  /\ installed' \in {installed} \union
       (IF connected /\ queue # <<>> THEN {Effect(Head(queue))} ELSE {})
  /\ queue' = <<>>
  /\ connected' = FALSE
  /\ UNCHANGED <<shown, busy, refreshOnReady>>

\* Reset Console: what was queued is gone, what was under way may have had its effect.
Reset ==
  /\ resets < MaxResets
  /\ resets' = resets + 1
  /\ installed' \in {installed} \union
       (IF connected /\ queue # <<>> THEN {Effect(Head(queue))} ELSE {})
  /\ queue' = <<>>
  /\ connected' = FALSE
  /\ refreshOnReady' = TRUE
  /\ UNCHANGED <<shown, busy>>

Next ==
  \/ TogglePackage \/ UpdatePackages \/ ConsoleCommand \/ ClearConsole \/ Reset
  \/ Answer \/ Connect

Spec == Init /\ [][Next]_vars

\* Julia starts and answers; nothing obliges the user to act.
FairSpec == Spec /\ WF_vars(Answer) /\ WF_vars(Connect)

-----------------------------------------------------------------------------
TypeOK ==
  /\ shown \in [Package -> {"none", "plain", "bold"}]
  /\ busy \in BOOLEAN
  /\ queue \in Seq([cmd : Commands, pkgs : SUBSET Package])
  /\ installed \subseteq Package
  /\ connected \in BOOLEAN
  /\ refreshOnReady \in BOOLEAN
  /\ resets \in Nat

\* Whenever the bold packages are not the installed ones, the list that will correct the
\* pane is already on its way, or the console's next Ready asks for it, whatever failed
\* and wherever a reset fell (GetRequired behind every action, ResetOnConsoleReady).
StaleMeansRefresh ==
  Bold # installed => refreshOnReady \/ Contains(queue, GetRequired)

\* The pane ignores double-clicks only while something is under way that ends it.
BusyMeansPending ==
  busy => refreshOnReady \/ \E i \in DOMAIN queue : IsList(queue[i])

\* An action ends for the user, the pane takes double-clicks again, unless the console
\* is kept busy for ever: a refresh after a reset waits until there is nothing to do.
BusyEnds == []<>(queue = <<>>) => (busy ~> ~busy)
=============================================================================
