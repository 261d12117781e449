----------------------------- MODULE JuliaSession ----------------------------
(***************************************************************************)
(* A session: the evaluator in the IDE, the Julia process at the other end  *)
(* of its socket, and the objects juliaeditorplugin.cpp connects to the     *)
(* evaluator: the console, the editors, the package controller and the      *)
(* object watch panes.                                                      *)
(***************************************************************************)
EXTENDS LocalTcpEvaluator, JulietEngine

CONSTANTS
  OpenPanes,    \* the ObjectWatch panes on screen, a sequence of watch kinds
  ConsoleWork,  \* request sequences evaluated with the console set busy
  OtherWork,    \* request sequences evaluated behind the console's back
  MaxQueue,     \* bound: the user acts only while fewer requests wait
  MaxResets     \* bound on the number of resets

ASSUME SessionAssumption ==
  /\ OpenPanes \in Seq(WatchKinds)
  /\ ConsoleWork \subseteq Seq(Request) \ {<<>>}
  /\ OtherWork \subseteq Seq(Request)
  /\ \A ms \in ConsoleWork \union OtherWork :   \* only setWorkingDir and the connection make one
       \A i \in 1..Len(ms) : ms[i].typnam # "dir"
  /\ MaxQueue \in Nat
  /\ MaxResets \in Nat

VARIABLES
  console_busy,    \* Console.busy: no prompt is shown
  refreshOnReady,  \* PackageController waits for the console's next Ready
  resets           \* resets so far

sessionVars == <<console_busy, refreshOnReady, resets>>
vars == <<wireVars, ideVars, engineVars, sessionVars>>

PackageLists == <<PackageMsg("available"), PackageMsg("installed")>>

\* Requests evaluated inside output(reply): every ObjectWatch asks for its objects
\* anew after an evaluation or a package command.
FollowUps(rep) ==
  IF rep.typnam \in {"output-eval", "output-package"}
  THEN [i \in 1..Len(OpenPanes) |-> WatchMsg(OpenPanes[i])]
  ELSE <<>>

\* Requests evaluated inside ready(): BeginCommand emits Ready only if the console
\* was busy, and the first Ready after a reset reaches ResetOnConsoleReady.
OnReady == IF console_busy /\ refreshOnReady THEN PackageLists ELSE <<>>

\* What ready(), if emitted, leaves of the console and the package controller.
AfterReady(emitted) ==
  /\ console_busy' = (console_busy /\ ~emitted)
  /\ refreshOnReady' = (refreshOnReady /\ ~(emitted /\ console_busy))

\* The bound on what the user may pile up; it stands for no condition of the code.
Crowded == Len(work_queue) + Len(toJulia) + Len(fromJulia) >= MaxQueue

-----------------------------------------------------------------------------
\* startup() resets the evaluator, then the package controller is created.
Init ==
  /\ process = "alive"
  /\ stdout = <<>>
  /\ toJulia = <<>>
  /\ fromJulia = <<>>
  /\ socket = "null"
  /\ busy = FALSE
  /\ work_queue = PackageLists
  /\ curr_working_dir = NoDir
  /\ EngineInit
  /\ console_busy = TRUE
  /\ refreshOnReady = FALSE
  /\ resets = 0

\* Return in the console or a package action: the console is set busy, then the
\* requests are evaluated.
ConsoleEval ==
  /\ ~Crowded
  /\ \E ms \in ConsoleWork : Eval(ms)
  /\ console_busy' = TRUE
  /\ UNCHANGED <<engineVars, refreshOnReady, resets>>

\* A file or selection to run, a cd in the file system pane, a completion, a new
\* object watch pane.
OtherEval ==
  /\ ~Crowded
  /\ \E ms \in OtherWork : Eval(ms)
  /\ UNCHANGED <<engineVars, sessionVars>>

\* The current editor changes, or a session is loaded.
CurrEditorChanged ==
  /\ ~Crowded
  /\ \E d \in Dirs : SetWorkingDir(d)
  /\ UNCHANGED <<engineVars, sessionVars>>

\* clearContents sets the console busy and shows a prompt at once, so Ready is
\* always emitted.
ClearConsole ==
  /\ ~Crowded
  /\ Eval(IF refreshOnReady THEN PackageLists ELSE <<>>)
  /\ console_busy' = FALSE
  /\ refreshOnReady' = FALSE
  /\ UNCHANGED <<engineVars, resets>>

\* Mutant of ResetConsole: Console::Reset does not set the console busy.
ResetConsoleKeepingPrompt ==
  /\ resets < MaxResets
  /\ Reset
  /\ EngineRestart
  /\ refreshOnReady' = TRUE
  /\ resets' = resets + 1
  /\ UNCHANGED console_busy

\* Console::Reset, which resets the evaluator and then reaches OnConsoleReset.
ResetConsole ==
  /\ resets < MaxResets
  /\ Reset
  /\ EngineRestart
  /\ console_busy' = TRUE
  /\ refreshOnReady' = TRUE
  /\ resets' = resets + 1

ReadStdout ==
  /\ \E k \in 1..Len(stdout) : OnProcessStdout(k)
  /\ UNCHANGED <<engineVars, sessionVars>>

\* ready() is emitted when this connection finds nothing to continue with.
SocketConnected ==
  /\ OnSocketConnected(OnReady)
  /\ AfterReady(curr_working_dir = NoDir /\ work_queue = <<>>)
  /\ UNCHANGED <<engineVars, resets>>

SocketOutput ==
  \E k \in 1..Len(fromJulia) :
    LET chunk == SubSeq(fromJulia, 1, k)
        followUps == IF IsDocument(chunk) THEN FollowUps(chunk[1].reply) ELSE <<>>
        queue == EvalAll(socket, busy, work_queue, followUps).queue
    IN  /\ OnSocketOutput(k, followUps, OnReady)
        /\ AfterReady(queue = <<>>)
        /\ UNCHANGED <<engineVars, resets>>

SocketClosed == OnSocketClosed /\ UNCHANGED <<engineVars, sessionVars>>

Ide == ReadStdout \/ SocketConnected \/ SocketOutput \/ SocketClosed

Engine ==
  /\ \/ AcceptOneOn \/ Initialize \/ ProcessIncoming \/ EventLoop
     \/ HandleInput \/ EngineCallback \/ HandledAll \/ HandlerThrows \/ Crash
  /\ UNCHANGED <<ideVars, sessionVars>>

User == ConsoleEval \/ OtherEval \/ CurrEditorChanged \/ ClearConsole \/ ResetConsole

Next == User \/ Ide \/ Engine

Spec == Init /\ [][Next]_vars

\* Qt delivers every pending event and Julia runs every task that can run, but
\* nothing obliges the user to act or Julia to fail.
Fairness ==
  /\ WF_vars(ReadStdout) /\ WF_vars(SocketConnected) /\ WF_vars(SocketOutput)
  /\ WF_vars(AcceptOneOn /\ UNCHANGED <<ideVars, sessionVars>>)
  /\ WF_vars(Initialize /\ UNCHANGED <<ideVars, sessionVars>>)
  /\ WF_vars(ProcessIncoming /\ UNCHANGED <<ideVars, sessionVars>>)
  /\ WF_vars((EventLoop \/ HandleInput \/ EngineCallback \/ HandledAll)
             /\ UNCHANGED <<ideVars, sessionVars>>)

FairSpec == Spec /\ Fairness

-----------------------------------------------------------------------------
TypeOK ==
  /\ WireTypeOK
  /\ IdeTypeOK
  /\ EngineTypeOK
  /\ console_busy \in BOOLEAN
  /\ refreshOnReady \in BOOLEAN
  /\ resets \in Nat

\* A request between the moment it is written and the moment its reply is read is
\* in exactly one of these places.
InFlight ==
  Len(toJulia) + (Len(pending_events) + 1 - cursor) + Len(fromJulia)

\* The evaluator and Julia agree on whose turn it is: while both are up, one
\* request or its reply is under way exactly when the evaluator is busy, and
\* before the connection nothing is (localtcpevaluator.cpp eval, onSocketOutput).
OneOutstanding ==
  process = "alive" =>
    InFlight = IF socket = "connected" /\ busy THEN 1 ELSE 0

\* A connected evaluator never rests on a queue (continueOrReady).
IdleMeansDrained ==
  socket = "connected" /\ ~busy => work_queue = <<>>

\* An idle evaluator leaves a prompt behind, and after a reset not before the
\* package lists have been asked for again (ready, BeginCommand, ResetOnConsoleReady).
PromptWhenIdle ==
  socket = "connected" /\ ~busy => ~console_busy /\ ~refreshOnReady

\* The event loop never sleeps on events: what the reader task pushed while the
\* loop was not waiting is handled or signalled (new_event and the take! of
\* handle_pending_events).
NoLostWakeup ==
  engine = "wait" /\ pending_events # <<>> => event_signal

\* Whenever the session is idle Julia is in the directory of the current editor,
\* whatever queueing, connecting and resetting went on while editors changed, unless
\* code evaluated after Julia was last sent there has moved it (on_dir_msg,
\* execute_in_session).
WorkingDirFollows ==
  process = "alive" /\ socket = "connected" /\ ~busy /\ ~moved_by_code
    => julia_dir = curr_working_dir

\* A session that was reset gets as far as answering requests again, or as running
\* a new command that never ends, whatever it was doing before (startJuliaProcess,
\* onSocketConnected).
Working == socket = "connected" /\ (~busy \/ fromJulia # <<>>)
Hanging == Taking("networkIn") /\ pending_events[cursor].msg \in Diverging
ResetRestarts == (resets > 0 /\ engine = "boot") ~> (Working \/ Hanging)
=============================================================================
