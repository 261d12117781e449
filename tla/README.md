# TLA+ models of Julia Studio

Julia Studio is Qt Creator with one plugin of its own, `src/src/plugins/juliaeditor`,
and a Julia program that the plugin starts, `src/share/julia-studio/Console` with the
Juliet event engine and a JSON reader beside it. Everything particular to Julia Studio
is a conversation between the two: the console, the editors, the package pane, the
object panes and code completion all put requests into one queue, one Julia process
answers them over one socket, and either side may stop at any time. These modules model
that conversation and what depends on it. The rest of the tree is Qt Creator; of it two
parts with long-lived state of their own are modelled, the session manager and the build
queue of `src/src/plugins/projectexplorer`.

Contents: [the system](#1-the-system), [the modules](#2-the-modules),
[the runs](#3-the-runs), [fairness](#4-fairness), [the proofs](#5-the-proofs),
[where the program and its documents differ](#6-where-the-program-and-its-documents-differ),
[what is not modelled](#7-what-is-not-modelled), [the plan](#8-the-plan).

Paths below are relative to `src/src/plugins/juliaeditor` unless they begin with
`share/`, which is `src/share/julia-studio`, or name another plugin.

## 1. The system

### 1.1 Components, their state and how they interact

| component | source | state | operations |
|---|---|---|---|
| evaluator | `localtcpevaluator.cpp` | `process`, `socket`, `busy`, `work_queue`, `curr_working_dir` | `eval`, `reset`, `setWorkingDir`, and the slots on the process and the socket |
| Juliet engine | `share/juliet/src/modules/{event,network}` | pending events, the loop's place in them, a signal | a reader task per connection, the event loop, the callback that writes replies |
| console logic | `share/Console/ConsoleLogic.jl` | Julia's own: directory, packages, objects | a handler per type of request |
| session wiring | `juliaeditorplugin.cpp` | none | connects signals and slots; run file, run selection, editor changed |
| console | `console.cpp`, `juliaconsolepane.cpp`, `commandhistoryview.cpp` | the text, the cursor, `begin_command_pos`, `busy`, the history | a handler per key, `SetBusy`, `BeginCommand`, `Reset`, Clear |
| package pane | `packagecontroller.cpp`, `packagemodel.cpp` | rows, `busy` | double-click, update, replies, reset |
| object panes | `objectwatch.cpp` | rows | ask again after each evaluation |
| completion | `juliacompletionassist.cpp`, `texteditor/codeassist/codeassistant.cpp` | a carrier per request, the one waited for, the proposal shown | invoke, process, timeout, receive, edit |
| message format | `projectexplorer/ievaluator.h`, `share/JSON` | the bytes under way | `toBytes`, `JSON.parse(io)` |
| session manager | `projectexplorer/session.cpp` | open projects, the active one, `m_depMap`, `m_failedProjects`, the session file | open, unload, depend, save, load step by step, restart |
| build queue | `projectexplorer/buildmanager.cpp`, `projectexplorer.cpp` | the queue and its counters, a thread, its event, the run that waits | build, clean, deploy, run, cancel, unload; a step ends, its event is handled |

Everything in the IDE runs on the Qt thread; an event handler runs to its end, but an
emitted signal runs other objects' slots in the middle of it. `eval` on a busy or
unconnected evaluator appends to `work_queue`; otherwise it writes the request to the
socket and sets `busy`. In Julia two cooperative tasks share an array of events: the
reader of the connection turns a request into a `networkIn` event, the event loop runs
its handler, which posts a `networkOut` event, whose callback writes the reply. In the
IDE a `readyRead` parses what has arrived as one reply, emits `output()` (the object
panes evaluate their own requests inside that call), clears `busy` and either takes the
next request or emits `ready()`, on which the console shows its prompt and, after a
reset, the package controller asks for its lists. The console's `Reset` kills Julia,
drops the queue and starts anew.

The session manager and the build queue do not touch Julia. The project explorer asks the
session for projects in the order of their dependencies, hands their steps to the build
manager, and is told when the queue is worked off; the session tells the build manager
which project is about to be removed. A step runs in a thread of its own and ends with an
event, which the Qt thread handles some time later. Loading a session opens its projects
one by one, with the event loop running between them.

### 1.2 What is hard

* Two cooperative tasks in Julia and the Qt event loop at the other end of the socket:
  the order of steps is nobody's decision, and a wake-up can come at any point.
* Slots that evaluate requests from inside `output()` and `ready()`, while the evaluator
  is half way through its own transition.
* Julia dies, or is killed, at any moment; the directory, the completion carriers, the
  package rows and `begin_command_pos` survive that, the queue does not.
* Replies have no identifier and no length: who they are for and where they end is a
  guess.
* The console is one editable text in which an integer says where the command begins.
* A session is loaded in part when projects fail, saved in that state, and loaded again.
* A queue of steps is added to, cancelled and robbed of its projects while a thread works
  on it, with a counter per project that has to agree with it.

Every hazard found is listed, with its line and the properties about it, under
`hazards` in `PROJECT.json`.

### 1.3 What makes each component correct

* evaluator and engine: one request at a time, in order, one answer each; no request
  lost while Julia lives; no event slept on; a reset session works again; Julia is in
  the directory of the current editor whenever it is idle, unless evaluated code has taken it
  elsewhere since it was last put there.
* console: it is a prompt with a line to edit; nothing above the line changes, by the keys
  the console handles itself; what is recorded is what was typed and what was sent.
* package pane: it ends up showing what is installed, and accepts double-clicks again.
* completion: no assistant uses a deleted carrier, waits for an answer that was given
  away, or offers to replace text behind the cursor.
* message format: a command arrives as it was typed, and the reader ends where the
  message ends.
* session manager: no project depends on itself; the build order has dependencies first
  and misses none; what the user put in the session stays in it though it fails to load;
  loading ends.
* build queue: queue, counters and thread agree; no step of an unloaded project is left; a
  run waits for its build and does not outlive its project; the queue comes to its end.

## 2. The modules

### 2.1 The session

`JuliaMsg` has the requests and the replies, each a type name and a first parameter.
`JuliaWire` has what the two sides share: the process, its standard output and the two
directions of the socket. `LocalTcpEvaluator` is the IDE's end and `JulietEngine`
Julia's; `JuliaSession` puts them together with the console, the package controller, the
object panes and the editors, each reduced to the requests it makes and the flag it
keeps.

| in the model | in the code |
|---|---|
| `Eval`, `SetWorkingDir`, `Reset` | member functions of `LocalTcpEvaluator` |
| `OnProcessStdout`, `OnSocketConnected`, `OnSocketOutput`, `OnSocketClosed` | its slots, each run to its end; what listeners evaluate inside `output()` and `ready()` is passed in as `followUps` and `rs`, so an action is the whole handler with the slots it runs |
| `ContinueOrReady`, `EvalAll` | `continueOrReady`, and `eval` applied to several requests in turn |
| `ProcessIncoming`, `EventLoop`, `HandleInput`, `EngineCallback`, `HandledAll` | the reader task; `event_loop`; one round of `handle_pending_events`, a step per event since a handler may yield |
| `HandlerThrows`, `Crash` | an exception leaves `event_loop`, the last call of `Console.jl`; Julia exits on its own |
| `ConsoleEval`, `OtherEval`, `CurrEditorChanged`, `ClearConsole`, `ResetConsole` | what the user does |

Three abstractions deserve a word. `HandleInput` does of the handlers what others can
notice: the directory. Evaluated code can change it as well as a request to change it
(`ChangeDir`: any `eval` may leave Julia in any directory), and does so unknown to the
IDE; `moved_by_code` records, for `WorkingDirFollows`, that it has. A reply has a `to`, the request whose data it holds;
the code has no such field, and no guard reads it: it is there for the properties. And a
reply crosses the socket in one or two pieces (`Split`), which is all that matters to a
reader that either has the whole text or drops it.

`CommandService` is the abstract specification: requests are submitted, begun one at a
time in their order, executed and answered, the service is lost and restarted.
`ServiceRefinement` maps a session to it: the queue is what is waiting; the current
request is wherever on its way to Julia and back it happens to be.

### 2.2 The console

`PromptLine` is the abstract specification: a prompt is shown or not, a line is edited,
submitted, answered; the history only grows at its end. `JuliaConsole` is
`console.cpp`: a document of cells, the cursor, `begin_command_pos`, the history and an
action per key. A cell is a typed character, a typed line break, a character of the
prompt, the blank at its end, a message of the IDE or a line break of the IDE's: the kinds
the properties, and the editor, tell apart. A key for which the console has no case is the
text editor's (`basetexteditor.cpp`), which knows nothing of `begin_command_pos`: `Type`,
`IndentOrUnindent`, `Backspace`, `DeleteStartOfWord` and `Delete` are what it does there,
for any setting of tabs and typing, and `InsertWithoutKey` is what reaches it by no key: the
context menu, the middle button, a drop, an input method. Qt's cursor is modelled where the code relies on it: `setPosition` behind the end
of the text leaves the cursor alone, which is what makes the keys safe between a reset
and the next prompt. The rest of the IDE is the queue `outstanding`. Replies do not
appear in this text: `juliaeditorplugin.cpp:135` has the connection commented out and
sends them to the output console instead.

The constant `Input` says which of six things the user does that the code does not
guard against. Four edit the text above the command (`InputAbove`): Shift+Return there; an
indentation made or taken away, by Tab, Shift+Tab or Backspace, of which the prompt's blank
is a part; Ctrl+Backspace with nothing but blanks between the cursor and the prompt; an
insertion by no key. The others are Clear and Return while busy. The run has Clear and
leaves out the rest: with any one of the four `PromptStays` and `TextAboveIsReadOnly` are
violated (section 6). The same keys and insertions are in the run wherever they stay
below the beginning of the command.

### 2.3 The package pane

`PackagePane` has the controller's slots over a queue that behaves as `CommandService`
promises: a double-click and an update, with the list requests behind them; each reply
with what it does to the rows and to `busy`; failures; a reset with the refresh that
hangs on the console's next `Ready`. `installed` is what Julia has installed and
`shown` what the pane says.

### 2.4 Completion

`CompletionCarrier` has the code assistant of each editor and of the console, the
carriers connected to `output()`, and the queue of their requests. A carrier has a
number, its widget and the base, the position at which the completed word begins. The
code gives a carrier no number; `receivecompletions` looks only at the type of a reply,
so the action hands each answer to all carriers. `before` records, for the properties,
which carriers a reset has robbed of their request.

### 2.5 The message format

`MessageFraming` follows one text from `toBytes`, character by character, to
`JSON.parse(io)`: paragraph separators, escaping, the padding of one length, the length
in front; then the search for a bracket, strings, brackets counted, unescaping. A
character is one of the kinds the code distinguishes. The length is four bytes
(`FirstBytes`), which the reader decodes as UTF-8 like everything else: a byte of it may
be read as any character (`LengthChars`), and one that opens a character of several bytes
takes the bytes behind it along (`Due`), those of the message included. Characters of
five and six bytes are taken for none that matters: they begin with 248 or more, and what
they may decode to matters only for lengths of tens of megabytes. `Extra` stands for further plain
characters, which only lengthen the message, so that lengths around those the code cares
about are reached with short texts.

### 2.6 The session manager

`SessionManager` is `session.cpp`, with what of `projectexplorer.cpp` opens projects and
saves the session. `projects`, `startup`, `depMap` and `failedProjects` are its members,
`file` is the session file, `opening` and `restoring` are where `restoreProjects` and
`restoreDependencies` have got to (the keys of the file's dependency map that are still to
be read, least first, as `QMap` keeps them), `phase` where `loadSession` is. Loading is a step per
project and per dependency list since dialogs and progress reports let the event loop run
in between; while it lasts `m_loadingSession` keeps the session from being saved, and the
model has no other action of the user then, the window being busy.

| in the model | in the code |
|---|---|
| `RecursiveDependencyCheck`, `AddDependency`, `RemoveDependency` | the members of that name; the recursion is stated as reachability, through sets closed under dependencies |
| `Dependencies`, `DependenciesOrder`, `ProjectOrder` | the members of that name, the loops as recursive functions |
| `RemoveProjects` | `removeProjects`, for one project or all of them |
| `Saved`, `Save` | `save`, which `savePersistentSettings` leaves out during a load |
| `Restart`, `SwitchSession` | `loadSession` after the IDE ended without saving; after saving |
| `RestoreProject` .. `AskUserAboutFailedProjects` | the calls of `loadSession`, in their order |

`wanted` is not in the code: it is what the user has put in and not taken out, for
`NothingIsLost`. A project that fails is one of `Breakable`, and may fail at one load and
open at the next.

### 2.7 The build queue

`BuildManager` is `buildmanager.cpp`: the queue, the current step, the counter of steps
per project, the thread, and the event of the thread's watcher, which is `posted` until
the Qt thread handles it. `NextStep` is `nextStep` with the recursion through
`nextBuildQueue` by which disabled steps are skipped. `finished` is the signal
`buildQueueFinished` as it was sent in the step, for the slot in the project explorer. The
module has a specification of its own, `BuildManager!Spec`, in which anybody may hand it
any list that has an enabled step at any time. Its properties are proved for that, and from
there for the composition, each action of which does to the queue what one action of
`BuildManager` does; the runs check them of the composition.

`ProjectBuild` composes it with `SessionManager`: the requests of the user, with the
projects in the order the session gives; the run that waits (`delayed`); and unloading,
which asks when the project is built, in an event loop of its own: between `AskUnload` and
its answer the build goes on. Every action runs the slot `BuildQueueFinished` in the step
that sends the signal. `owing` counts, for `RunAfterBuild`, the steps that were queued
when the run began to wait and are not done. Nothing in the code disables Run during a
build (`canRun` is called by nobody), so `RunProject` has no such guard.

### 2.8 Instances

`MCJuliaSession`, `MCJuliaConsole`, `MCPackagePane`, `MCCompletionCarrier`,
`MCMessageFraming`, `MCSessionManager` and `MCProjectBuild` extend these modules with model values, symmetry and the sets of
requests that a `.cfg` cannot write down. Symmetry is used for the widgets, which
are interchangeable, and where no liveness is checked. The definitions called mutants in comments
are variants of the code's with a plausible bug each; nothing refers to them, and with
one put in the place of its original the run of the property it belongs to fails.

## 3. The runs

`CHECK_DEADLOCK FALSE` is set wherever the system may stop: a user may do nothing, and
the bounds on what a user does are reached. It is not set for `MessageFraming`, which
goes on as long as messages are read.

### 3.1 Runs that pass

| run | properties | distinct states |
|---|---|---|
| `JuliaSession_safety` | `TypeOK`, `OneOutstanding`, `IdleMeansDrained`, `PromptWhenIdle`, `NoLostWakeup`, `WorkingDirFollows`, `ImplementsService` | 1,278,000 |
| `JuliaSession_live` | `ImplementsLiveService`, `ResetRestarts` | 391,000 |
| `JuliaSession_split` | `NoLostWakeup`, `NeverReordered` | 101,000 |
| `JuliaConsole_keys` | `TypeOK`, `PromptStays`, `HistoryIsTyped`, `TextAboveIsReadOnly`, `ImplementsPromptLine` | 633,000 |
| `PackagePane_rows` | `TypeOK`, `StaleMeansRefresh`, `BusyMeansPending`, `BusyEnds` | 18,000 |
| `CompletionCarrier_waiting` | `TypeOK`, `CurrentIsAlive`, `NobodyWaitsInVain`, `BaseBeforeCursor`, `AnswerIsNotLater` | 35,000 |
| `MessageFraming_texts` | `TypeOK`, `ArrivesUnchanged`, `NeverWaitsForMore` | 9,000 |
| `SessionManager_reload` | `TypeOK`, `Acyclic`, `BuildOrderIsRight`, `StartupIsOpen`, `NothingIsLost`, `RestoredAsSaved` | 615,000 |
| `ProjectBuild_queue` | `BuildTypeOK`, `CountsMatch`, `ThreadIsCurrent`, `StepsAreOpen`, `RunAfterBuild`, `BuildEnds` | 176,000 |

What they show, and why the bounds are enough:

* `JuliaSession_safety`: the evaluator and Julia agree on whose turn it is, and together
  are a `CommandService`, through every interleaving of user, Qt and the two tasks, with
  handlers that throw, Julia dying, a reset, Clear and a first launch that prints after
  the port. Three requests waiting (`MaxQueue`) are enough for one to be executed, one to
  be queued and one to be submitted from inside a slot; the pane and the controller add
  theirs on top. One command, two directories (one to be in and one to go to) and one
  reset: the properties compare no commands, and a second reset begins from a state the
  first one has reached, but for the bound. The command may leave Julia in either directory
  or in neither. `MaxEvents` bounds the reader within a round:
  two events of the request under way and one more.
* `JuliaSession_live`: the service's liveness, and that a reset leads to a session that
  works, under section 4's fairness. The command of this run never ends (`Diverging`), so a
  reset finds Julia in it, and the service promises nothing for it (`Endless`). The silent
  change of directory of the file pane takes the place of completion. Julia does not die
  by itself here: a lost service owes nothing.
* `JuliaSession_split`: package replies may arrive in two pieces. `OneOutstanding` and
  the refinement fail then, since each piece ends the request; what is left is that
  requests are still begun in order and no event is slept on. One pane is open, so that
  a reply has follow-ups.
* `JuliaConsole_keys`: every key and every moment of an answer, with a reset, which leaves
  `begin_command_pos` behind the end of the text, or a clear at any moment: edits reach no
  further than the line, the text above it stays, and what is recorded was typed. Two
  cells are the shortest prompt that has a beginning and an end (`PromptLen` 1, and its
  line break). `MaxDoc` bounds only what the user enters: prompts and recalled commands
  come on top of it, so that with a recalled command the line is longer than `MaxLine`, and
  a second command is typed below the first.
  Two commands are the fewest for Up and Down to have somewhere to go.
* `PackagePane_rows`: failed `available` lists and actions, two resets, two packages: one
  to act on and one to keep the rows from being all alike. A failed `installed` list is
  left out: it only reads a directory, and if it failed the pane would stay wrong. `BusyEnds`
  has a condition, that Julia runs out of requests again and again: each command of the
  console puts off `ready()`, on which the refresh after a reset hangs, so a user who never
  stops entering commands can put it off for ever.
* `CompletionCarrier_waiting`: two widgets, four requests, one reset; two positions are
  enough for a base that is and one that is not behind the cursor, four requests for two
  of each widget.
* `MessageFraming_texts`: all texts of up to three of six kinds of characters, at four
  lengths around 90, of which one is padded, and three around 207, 232 and 243, the first
  byte of which opens a character of two, three and four bytes that ends with the length;
  escape sequences are of two characters, so three have every pair in every place.
* `SessionManager_reload`: three projects, the fewest for a dependency of a dependency and
  for a cycle that a check of direct dependencies misses; one of them may fail, at any
  load. There is no bound on how often the session is saved and loaded: the state space
  is finite without one. Two projects that fail would add only that both are kept. The
  breakable one is the second, so that others come before and after it in the map; that
  loading hangs when it has dependencies ends a behaviour but not the run.
* `ProjectBuild_queue`: two projects, which can depend on each other either way; lists of two
  steps to build either and to deploy the first (`TwoSteps`), the second of which may be
  disabled; a run of the queue of at most eight steps (`MaxSteps`), enough for a request of two lists for
  both projects and a second request behind it. Any step may fail. No project fails to
  load here and the session is not saved: that is the other run's.

### 3.2 Runs that find a violation

`MessageFraming_length_122`, `SessionManager_failed_project` and `ProjectBuild_removed` are
each a small instance that shows one of section 6.

## 4. Fairness

`JuliaSession!Fairness` is weak fairness of each Qt slot that has something to do (Qt's
event loop delivers every event) and of each Julia task that can run (its scheduler is a
queue). It is per task: the event loop is fair as one, the reader as one. Nothing obliges
the user to act or to stop, Julia to fail, or a socket to be noticed closed. A handler in
`Diverging` has no step to be fair to. Weak fairness is enough because nothing but a reset,
of which there are finitely many, or the end of Julia takes an enabled step away.
`PackagePane!FairSpec` is weak fairness of the answer and of the connection, which is
what the session's liveness provides.
`SessionManager!FairSpec` is weak fairness of loading: the Qt thread goes on with it once
the event loop has run; `LoadEnds` is about behaviours in which the IDE is not restarted
for ever. `ProjectBuild!FairBuildSpec` is weak fairness of a step's end and of its event:
the processes that steps run end, or are cancelled, and Qt delivers the event. `BuildEnds`
is about behaviours in which the user at some time asks for no more, since a user who
never stops adding steps keeps the queue running; it says nothing of cancelling, and does
not rely on it.

## 5. The proofs

TLAPS proves them to the last leaf, for all values of the constants that meet the
assumptions: any commands and directories, any set of open panes, any requests the user's
actions make, any projects, any bounds, any handlers that throw or diverge. The assumptions
are those named in the modules (`NoDirAssumption`, `EngineAssumption`, `SessionAssumption`,
`ConsoleAssumption`, `PackageAssumption`, `CompletionAssumption`, `FramingAssumption`,
`ProjectAssumption`, `BuildAssumption`), all of them types of constants, which TLC evaluates in every run; a
theorem that needs more of the constants says so.

| module | theorem | states |
|---|---|---|
| `JuliaSession_proofs` | `Inductive`, `TypeCorrect` | `Spec => []IInv`, `Spec => []TypeOK` |
| | `QueueIsDrained`, `PromptIsShown`, `WakeupIsNotLost` | `Spec => []IdleMeansDrained`, `[]PromptWhenIdle`, `[]NoLostWakeup` |
| | `OneRequestAtATime` | `Split = {}` implies `Spec => []OneOutstanding` |
| | `WorkingDirIsFollowed` | `Split = {}` implies `Spec => []WorkingDirFollows` |
| | `SessionImplementsService` | `Split = {}` implies `Spec => ImplementsService` |
| | `OrderIsKept` | `Spec => NeverReordered`, however replies are cut |
| `JuliaConsole_proofs` | `ConsoleTypes` | `Spec => []TypeOK` |
| | `ConsoleTextAbove`, `ConsolePromptStays` | `SafeInput` implies `Spec => TextAboveIsReadOnly`, `Spec => []PromptStays` |
| | `ConsoleHistoryIsTyped`, `ConsoleImplementsPromptLine` | `LineInput` implies `Spec => []HistoryIsTyped`, `Spec => ImplementsPromptLine` |
| `PackagePane_proofs` | `PaneTypes`, `BusyIsPending` | `Spec => []TypeOK`, `Spec => []BusyMeansPending` |
| | `StaleIsRefreshed` | `ConsoleRuns` within `{"nothing"}` and `"installed"` not in `MayFail` imply `Spec => []StaleMeansRefresh` |
| `CompletionCarrier_proofs` | `CarrierTypes`, `CarrierIsAlive`, `CarrierIsAnswered` | `Spec => []TypeOK`, `[]CurrentIsAlive`, `[]NobodyWaitsInVain` |
| | `ProposalFits`, `NoLaterAnswer` | `Spec => []BaseBeforeCursor`, `[]AnswerIsNotLater` |
| `MessageFraming_proofs` | `FramingTypes` | `Spec => []TypeOK` |
| | `UnescapedEscaped` | `Unescaped(Escaped(t)) = t` for every text |
| | `TextArrives`, `EndIsFound` | `SafeLengths` implies `Spec => []ArrivesUnchanged`, `Spec => []NeverWaitsForMore` |
| | `ShortLengthsAreSafe` | fewer than 122 characters of one byte each imply `SafeLengths` |
| `SessionManager_proofs` | `SessionTypes`, `SessionAcyclic` | `Spec => []TypeOK`, `[]Acyclic`, for any finite set of projects |
| | `SessionStartupIsOpen`, `SessionKeepsProjects`, `SessionRestored` | `Spec => []StartupIsOpen`, `[]NothingIsLost`, `Spec => RestoredAsSaved` |
| | `SessionBuildOrder` | `Spec => []BuildOrderIsRight` |
| `ProjectBuild_proofs` | `CountersAgree`, `EventsAreOfCurrent` | `NoProject` not in `Project` implies `BM!Spec => []BM!CountsMatch` and `=> []BM!ThreadIsCurrent`: of the build manager by itself |
| | `BuildUsesSession` | `BuildSpec => Spec`: the session manager in the composition is the one by itself |
| | `BuildTypes`, `BuildCountsMatch`, `BuildStepsAreOpen`, `BuildRunsAfterBuild` | `BuildSpec => []BuildTypeOK`, `[]CountsMatch`, `[]StepsAreOpen`, `[]RunAfterBuild` |
| | `BuildThreadIsCurrent` | `RequestsCanBegin` implies `BuildSpec => []ThreadIsCurrent` |

`ListFacts` has the lemmas about lists that these share, and no theorem about the program.

### 5.1 The session with Julia

The inductive invariant is `TypeOK` with

* `IdleMeansDrained` and `PromptWhenIdle`, which are inductive beside each other: an idle
  evaluator has just come out of `ContinueOrReady`, which leaves either a request or an
  emitted `ready()`;
* `RefreshWaits`: while a refresh is due the console is busy. Without it a `ready()`
  could find the console with a prompt, emit no `Ready`, and leave the refresh behind;
* `Signalled`: whatever waits in the array outside a round waits under a signal. It is
  `NoLostWakeup` in every state of the engine and not only when it sleeps, since what
  `Initialize` finds was pushed before the loop first waited;
* `EndsTogether`: the process is dead exactly when the engine is down, and a socket is
  closed only then. It keeps the engine's steps from happening to a dead process.

`AfterEval` and `AfterContinue` say what any evaluation, and any end of a request, does
to the invariant; each of the slots is then one application of one of the two, and the
steps of the engine touch only their own part. `OneOutstanding` needs in addition
`NotBusyBefore`: with the process alive, an evaluator not yet connected is not busy. The
proof counts: `InFlight` is the sum of three lengths, and each action moves one from one
term to the next, adds one where the evaluator becomes busy or removes one where it
ceases to be; `Split = {}` is needed because a reply in two pieces adds two.

`WorkingDirFollows` holds only of an idle session, so its invariant, `DirInv`, says for
every other moment where Julia is going. The last change of directory in the queue, if
there is one, is that to `curr_working_dir`; if there is none, the request under way is
that change, or is none and Julia is there already, unless evaluated code has moved it
(`WhereSent`); and a Julia that is not connected is in its start directory, since the
connection sends the remembered one first. `FirstTaken` is the step from the queue to the
wire, `OnlyRequest` the step from the wire to the handler, which rests on `OneOutstanding`:
were there two requests under way, the directory could be that of the wrong one. When a
change of directory is handled, `moved_by_code` is over: wherever evaluated code had gone,
Julia is back. That only `setWorkingDir` and the connection send such a request is in
`SessionAssumption` (`WorkIsSteady`).

For the refinement, `TurnPlaces` turns the counting of `OneOutstanding` into a place: of a
session that lives either nothing is under way (`Nowhere`), or a request in the socket
(`Unread`), an event of the array (`AsEvent`) or a piece on its way back (`AsPiece`).
`SeenAt` says what the service's `current` and `answer` are in each, so that the three
steps a request takes through Julia need only say from where to where they move it: the
reader and the socket change nothing the service sees, the handler is `Execute`. The
user's actions are `Submit` or, at a lost service, `SubmitInVain`; the connection is
`GoOnline`, the end of Julia `Lose`, a reset `Restart`. A reply read is `Deliver`, or
`DeliverLate` when Julia has ended meanwhile: that it is then the only one, and that
the evaluator still waits for it, is not in `OneOutstanding`, which speaks of a living Julia,
hence `AnswersAwaited`.

`NeverReordered` needs no count of what is under way, and so no `Split = {}`.
`EvalAllKeeps` and `ContinueKeeps` say that what an evaluation writes, followed by what it
leaves queued, is what was queued and what was given; each slot then adds to the end of
`Unstarted` (`BecomesInOrder`). The reader moves a request from the front of the socket to
the end of the array (`ReadInOrder`), the loop passes one event (`TakenInOrder`), and what
either does to the requests among the events follows from `MsgsOfConcat`. `SilentBefore`,
that nothing is written before the connection, puts the directory sent on connecting in
front of all that waits.

### 5.2 The console

`SafeInput` says that nothing of `InputAbove` is done, `LineInput` that moreover Return is
not pressed while there is no prompt: with any of these the properties fail (section 6).
What is left is every other key, with the editor's own handling of it, wherever the cursor
is. The keys are of three kinds, and the proofs have a lemma for each kind instead of one
for each key: `Edits` put a piece of text, or none, in the place of a part of the command, if
that has a beginning in the text; `Moves` only move the cursor; `Recalls` put a command of
the history in the place of the line. That an edit is in the command rests on each key's
own test of the cursor, on `KeyPosition` for the keys without one, and on `OnlyBelow` for the
editor's. `HistoryIsTyped` is inductive with the
line itself (`EnteredInv`): what is recorded next is what is typed now. For the refinement
each step is shown to be the step of `PromptLine` of the same name, or to change nothing
that `PromptLine` sees (`LineStep`); the fairness of neither is involved.

### 5.3 The package pane and completion

`PendingInv` is the pane's invariant for any constants: a busy pane has a list in the
queue or a refresh due. `PaneInv` adds, for `StaleMeansRefresh`, that the queue is
`Followed`: behind whatever changes the rows or what is installed stands a list of the
installed. So when such a request has been answered with no list behind it, there was
none. Requests put behind the queue, or before it (`FollowedBehind`), and the first one
taken away (`FollowedTail`) keep it so; what one answer does is `OutcomesOf`. The two
conditions are those under which it holds: the console's `Pkg.add` has no list behind
it, and a failed list of the installed corrects nothing (section 6).

The completion carriers' invariant, `CarrierInv`, adds that the requests in the queue are
younger than the last reset and in the order of their numbers (`InOrder`). A carrier that
listens still has its request in the queue (`StillAsked`), so the oldest request, whose
answer it hears, is not later than its own.

### 5.4 The session manager

`SessionAcyclic` rests on how dependence is defined: q is something p depends on if q is in
every set that holds p and is closed under dependencies. So no induction is needed:
dependencies taken away leave closed sets closed (`FewerStayAcyclic`: unloading, restoring
in part), and for one added from p to q, where q does not depend on p, a set that shows
this for another pair is found by joining or cutting the ones there were
(`AddedStaysAcyclic`). The invariant says the same of the dependencies in the file, which a
load reads back, and that what is restored so far is a part of them (`RestoredInPart`).

`SessionInv` says where a load has got to: of the list of the file, the projects before
`opening` are open, in the order of the list, or one of them is not (`Opening`); the
projects no longer in `restoring` have the dependencies of the file, but for those that
failed, the others none (`Depending`); and what has been restored when nothing has failed
is exactly the file (`Restored`). From
the last of these follows `RestoredAsSaved`; `NothingIsLost` is part of the invariant, since
a save takes the failed projects along.

`BuildOrderIsRight` is about what two loops compute, for any number of projects.
`Dependencies` visits what a project depends on, to a depth of as many projects as there
are: a depth of n gives the right order (`RightOrder`) for every project that needs at most
n, itself among them, since without circles each of its dependencies needs fewer
(`NeedsFacts`). In
`DependenciesOrder` each round puts at least one more project behind what it depends on,
as long as one is left (`RoundProgress`: otherwise the projects left would depend on each
other in a circle), so as many rounds as projects are enough. `DependInv` supplies that
all a project depends on is open.

### 5.5 The build queue

The build queue's invariant, `ManagerInv`, is `CountersInv`, which holds whatever lists are
handed to it, with `EventHasStep`: the end of a step counts out `current`, and the event
must find one. `AfterNextStep` says what `nextStep` does to it from any list of steps left,
however many of them are disabled; it rests on counting (`CountOfConcatenation`,
`CountInThree`: what is skipped, the step begun and the rest have together what the list
had). Without an enabled step in every request `EventHasStep` fails (section 6).

`BuildInv` is the invariant of the composition. A step of it is a step of the session
manager and one of the build manager's, or leaves one of the two alone, so that
`SessionInv` is taken from `SessionManager_proofs`, and `CountersInv` from the proof about the
build manager by itself, whose definitions are those of `BM`.
`StepsAreOpen` rests on the session's orders having open projects only, so that no request
names another, and on the queue being cancelled whole before a project that is built is
taken out. For `RunAfterBuild`, `RunInv` holds `owing`
against the steps that are outstanding in the queue. `RequestsCanBegin` says that no list
the user can ask for has only disabled steps, `ThreadIsCurrent` being false otherwise.

### 5.6 The request format

`UnescapedEscaped` is what the escaping of `toBytes` and the unescaping of `parse_string` are
for. When the last character of the escaped form of a part of the text has been read, what
has been made of it is that part, and the next character is not escaped (`HasRead`): so a
backslash in front of the next is always one that `toBytes` has put there (`HasReadMore`).
The recursion over the text goes through sets of numbers (`SetInduction` in `ListFacts`: a
set that holds 0, and with each number the next, holds all), since the library's induction
theorems have an operator as a parameter.

The invariant is a `Phase`: the reader is between two messages (`Idle`), in front of one
(`Waiting`), or in its opening, its text, behind a backslash in the text, or in its ending;
and each phase says exactly what has been collected and what is still to be read, the text
being cut in two where the reader is (`Halves`). `ConsumeString` ends where the text does
since a quote of the text is behind a backslash, and the bracket that ends the message is
counted when everything else has been collected, whatever brackets are in the text.

`SafeLengths` says that every length that is sent is `Harmless`: none of its four bytes, as
decoded, is a bracket, and the last of them takes nothing of the message with it. The proofs
are for any number of bytes that is so, and for no other. `toBytes` tries to see to it with
a blank, and succeeds for messages of fewer than 122 characters of one byte each
(`ShortLengthsAreSafe`; the higher bytes are zero then); with 122 of them it does not
(section 6), nor for many a longer one. `DueSteps` turns the recursive function by which
the bytes are decoded into its four steps. That `Message` is a sequence of characters, and
so `FramingTypes`, holds for every length, the harmful ones too.

### 5.7 What stays with TLC

All liveness, and refinement with fairness (TLAPS has no rules for `ENABLED`):
`ImplementsLiveService`, `ResetRestarts`, `BusyEnds`, `BuildEnds`. Every other property that
a run shows to hold is proved, under the conditions in the table.

## 6. Where the program and its documents differ

| run | the code | the document |
|---|---|---|
| `MessageFraming_length_122` | a length byte that is `{` is taken for the message's first bracket (`ievaluator.h:115` pads only the one that is `[`) | "to execute them immediately" (`:314`) |
| `SessionManager_failed_project` | a project that failed to load and has dependencies makes `restoreDependencies` repeat one round of its loop for ever (`session.cpp:722`: `continue` without `++i`) | "Keep projects that failed to load in the session!" (`session.cpp:793`) |
| `ProjectBuild_removed` | the run that waits for a build keeps a plain pointer to a run configuration whose project may be unloaded meanwhile, as long as only steps of other projects are left (`projectexplorer.cpp:1597`) | "We are building the project that's about to be removed. We cancel the whole queue, which isn't the nicest thing to do but a safe thing." (`buildmanager.cpp:163`) |

More peculiarities of the code came up, which no run is about.

* Every new process is first sent the remembered directory (`localtcpevaluator.cpp:267`); if
  that is gone, `on_dir_msg` raises an error that ends the process, so a reset does not give
  a working Julia until another directory is set.
* Return while busy records and sends the last command again, with a line break and what
  was typed since (`console.cpp:320`). `JuliaConsole` has it, if `Input` says so.
* The text above the command can be edited, which shifts the text under `begin_command_pos`:
  Shift+Return with the cursor there breaks a line (`console.cpp:260`). Shift+Tab right
  behind the prompt takes away, Tab may rewrite, and a Backspace set to unindent takes
  away as indentation, the blank that ends the prompt
  (`texteditor/basetexteditor.cpp:4648`); Ctrl+Backspace in a command that begins with blanks
  deletes into the prompt (`texteditor/basetexteditor.cpp:1671`); what is inserted by the
  context menu, the middle button, a drop or an input method goes where it is put
  (`texteditor/basetexteditor.cpp:6001`). `JuliaConsole` has all of these, if `Input` says so.
* Code that changes the directory, entered in the console or in a file that is run, leaves
  `curr_working_dir` as it was (`share/Console/ConsoleLogic.jl:45`), and the change of
  directory that the next editor would bring is left out when it is the remembered one
  (`localtcpevaluator.cpp:146`).
* The length that is `{` in its first byte is not the only harmful one: so are those with a
  bracket in a higher byte (23296 to 23551 and 31488 to 31743, for the second), those whose
  bytes decode to one (7107 and 15299), and those that end in a byte whose character takes
  the opening bracket with it (248 to 255, and again every 256;
  `share/JSON/src/JSON.jl:103`). `MessageFraming` has them all.
* Clear shows a prompt even while a command is being executed (`juliaconsolepane.cpp:78`).
* The package pane does not notice `Pkg.add` in the console (`packagecontroller.cpp:118`);
  `PackagePane` has it, if `ConsoleRuns` says so.
* A reply in two segments is dropped, and a package list with it
  (`localtcpevaluator.cpp:228`).
* A list of completions is taken by every carrier that waits, so one can be offered for a
  prefix it was not made for (`juliacompletionassist.cpp:262`); `AnswerIsNotLater` and
  `CurrentIsAlive` say how far that goes.
* A project that failed to load, is opened by hand and unloaded again comes back with the
  next load (`session.cpp:325`); the dependencies of one that failed are gone with the next
  save (`session.cpp:331`).
* A project that two others depend on is listed, and built, twice (`session.cpp:395`);
  `BuildOrderIsRight` asks only that it is listed early enough.
* A second run during a build replaces the first, of which nothing is heard again
  (`projectexplorer.cpp:2099`). If all steps of a run are disabled, the queue is at its end
  before the run waits for it, and the run begins after the next build.
* The event of a cancelled step is told from others by `m_canceling` alone, which a new
  build sets to false; that build then has a watcher of its own, from which no such event
  comes. If all steps of the new build are disabled it starts no thread, and the event of
  the cancelled one finds no current step (`buildmanager.cpp:330`). `Request` leaves such
  lists out.
* A request one step of which refuses to be initialised disconnects the output of those of
  its steps that are queued already (`buildmanager.cpp:450`).

## 7. What is not modelled

* Most of Qt Creator: extension system, kits and tool chains, C++ and QML support, version
  control, remote targets, the updater. Not Julia Studio's, and not used by its plugin
  beyond what section 1 names.
* Of the session manager: the list of sessions, the open editors and the values kept in
  the session file; users' actions while a session is being loaded. Of the build queue:
  steps that want the thread of the GUI, of which there is none; steps that refuse to be
  initialised; what steps do; the dialogs that ask whether to save files.
* `localevaluator.cpp`, the Julia run configurations, the dummy project and the
  singletons: compiled in part, no longer used.
* The output console, the settings page, the file wizard, the indenter and the
  auto-completer: text in, text out, without state that several steps could disagree on.
* How the standard output of the process is cut: the port is one token.
  In the session Julia's replies are cut at most once.
* Selections, undo, the block selection and snippets of the text editor, its menu actions
  that move or copy lines, and the mac variants of keys, in the console.
* Tasks that evaluated code starts and that go on after its request has been answered: one of
  them could change the directory at any time.
* The rows of the object panes; when they are asked for is modelled.
* The values Julia computes.

## 8. The plan

In the order in which it was, and will be, carried out:

1. The session, its service and the first proofs (sections 2.1, 5).
2. The console, the package pane, completion and the request format (2.2 to 2.5).
3. The session manager and the build queue, and the first proofs about them (2.6, 2.7, 5).
4. The plugin manager of the extension system: the load queue in the order of
   dependencies, a failure passed on to what depends on it, the shutdown that waits for
   asynchronous plugins.
5. The reply format: `EvaluatorMessage::from` over replies cut and run together at any
   byte, the process output, and the port in it; with it a session whose pieces are more
   than two.
6. The rows of the object panes and the history model as the view is told of them;
   selections and undo in the console.
7. A composition of `PackagePane` and `CompletionCarrier` with `CommandService` in the
   place of their queues, so that what they assume of the channel is checked against it.
