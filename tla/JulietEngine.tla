----------------------------- MODULE JulietEngine ----------------------------
(***************************************************************************)
(* The Julia side of the command channel: Console.jl, the Juliet event and  *)
(* network modules and the handlers of ConsoleLogic.jl.  Two cooperative    *)
(* tasks share the array of pending events: the reader of accept_one_on,    *)
(* which parses requests into "networkIn" events, and the event loop, which *)
(* runs the handlers.  The reader can run whenever the other task yields:   *)
(* while it waits for the signal, and inside a handler that does I/O.       *)
(***************************************************************************)
EXTENDS JuliaWire

CONSTANTS
  Throwing,    \* requests whose handler may raise an exception nobody catches
  Diverging,   \* requests whose evaluation never ends
  Split,       \* reply types long enough to arrive in two pieces
  InitOutput,  \* what Initialize may print: a subset of {<<>>, <<"text">>}
  MayCrash,    \* Julia may exit or crash on its own
  MaxEvents    \* bound on pending_events while a round of handlers runs

ASSUME EngineAssumption ==
  /\ Throwing \subseteq Request
  /\ Diverging \subseteq Request
  /\ Split \subseteq ReplyTypes
  /\ InitOutput \subseteq {<<>>, <<"text">>}
  /\ MayCrash \in BOOLEAN
  /\ MaxEvents \in Nat \ {0}

VARIABLES
  engine,          \* "boot", "init", "wait", "dispatch" or "down"
  pending_events,  \* EventSystem.pending_events
  cursor,          \* the next event the loop of handle_pending_events takes
  event_signal,    \* EventSystem.event_signal holds a value
  julia_dir,       \* Julia's current directory
  moved_by_code    \* history: evaluated code changed it since the last dir request

engineVars == <<engine, pending_events, cursor, event_signal, julia_dir, moved_by_code>>

NetworkIn(r)    == [name |-> "networkIn", msg |-> r]
NetworkOut(rep) == [name |-> "networkOut", msg |-> rep]
Event == [name : {"networkIn"}, msg : Request] \union [name : {"networkOut"}, msg : Reply]

EngineTypeOK ==
  /\ engine \in {"boot", "init", "wait", "dispatch", "down"}
  /\ pending_events \in Seq(Event)
  /\ cursor \in 1..(Len(pending_events) + 1)
  /\ event_signal \in BOOLEAN
  /\ julia_dir \in Dirs \union {NoDir}
  /\ moved_by_code \in BOOLEAN

EngineInit ==
  /\ engine = "boot"
  /\ pending_events = <<>>
  /\ cursor = 1
  /\ event_signal = FALSE
  /\ julia_dir = NoDir
  /\ moved_by_code = FALSE

EngineRestart ==
  /\ engine' = "boot"
  /\ pending_events' = <<>>
  /\ cursor' = 1
  /\ event_signal' = FALSE
  /\ julia_dir' = NoDir
  /\ moved_by_code' = FALSE

\* Mutant of NewEvent: the signal is given only to a waiting event loop.
NewEventIfWaiting(e) ==
  /\ pending_events' = Append(pending_events, e)
  /\ event_signal' = (event_signal \/ engine = "wait")

NewEvent(e) ==
  /\ pending_events' = Append(pending_events, e)
  /\ event_signal' = TRUE

\* Console.jl loads its modules and calls accept_one_on, which listens and
\* prints the port.
AcceptOneOn ==
  /\ engine = "boot"
  /\ engine' = "init"
  /\ stdout' = Append(stdout, "PORT")
  /\ UNCHANGED <<pending_events, cursor, event_signal, julia_dir, moved_by_code,
                 process, toJulia, fromJulia>>

\* Handlers are registered; a first launch announces that it creates the
\* package directory.
Initialize ==
  /\ engine = "init"
  /\ engine' = "wait"
  /\ \E out \in InitOutput : stdout' = stdout \o out
  /\ UNCHANGED <<pending_events, cursor, event_signal, julia_dir, moved_by_code,
                 process, toJulia, fromJulia>>

\* The reader task: one request read from the socket becomes one event.
ProcessIncoming ==
  /\ engine \in {"init", "wait", "dispatch"}
  /\ toJulia # <<>>
  /\ engine = "dispatch" => Len(pending_events) < MaxEvents
  /\ toJulia' = Tail(toJulia)
  /\ NewEvent(NetworkIn(Head(toJulia)))
  /\ UNCHANGED <<engine, cursor, julia_dir, moved_by_code, process, stdout, fromJulia>>

\* event_loop takes the signal and updates the modules; the event system's
\* update is the only one that does anything.
EventLoop ==
  /\ engine = "wait"
  /\ event_signal
  /\ event_signal' = FALSE
  /\ engine' = "dispatch"
  /\ UNCHANGED <<pending_events, cursor, julia_dir, moved_by_code, wireVars>>

Taking(name) ==
  /\ engine = "dispatch"
  /\ cursor <= Len(pending_events)
  /\ pending_events[cursor].name = name

\* What handling r does to the current directory: cd(dir) of on_dir_msg, or whatever
\* the code handed to execute_in_session does.
ChangeDir(r) ==
  \/ /\ r.typnam = "dir"
     /\ julia_dir' = r.arg
     /\ moved_by_code' = FALSE
  \/ /\ r.typnam # "dir"
     /\ UNCHANGED <<julia_dir, moved_by_code>>
  \/ /\ r.typnam \in {"eval", "eval-silent"}
     /\ julia_dir' \in (Dirs \union {NoDir}) \ {julia_dir}
     /\ moved_by_code' = TRUE

\* handle_input runs a handler to its end: it may change the directory and
\* posts one reply.
HandleInput ==
  /\ Taking("networkIn")
  /\ LET r == pending_events[cursor].msg
     IN  /\ r \notin Diverging
         /\ \E rep \in RepliesTo(r) : NewEvent(NetworkOut(rep))
         /\ ChangeDir(r)
  /\ cursor' = cursor + 1
  /\ UNCHANGED <<engine, wireVars>>

\* engine_callback writes a reply to the socket.
EngineCallback ==
  /\ Taking("networkOut")
  /\ LET rep == pending_events[cursor].msg
     IN  \E n \in IF rep.typnam \in Split THEN {1, 2} ELSE {1} :
           fromJulia' = fromJulia \o Pieces(rep, n)
  /\ cursor' = cursor + 1
  /\ UNCHANGED <<engine, pending_events, event_signal, julia_dir, moved_by_code,
                 process, stdout, toJulia>>

\* Mutant of HandledAll: the loop's position outlives the loop.
HandledAllKeepingCursor ==
  /\ engine = "dispatch"
  /\ cursor > Len(pending_events)
  /\ event_signal' = FALSE
  /\ pending_events' = <<>>
  /\ engine' = "wait"
  /\ UNCHANGED <<cursor, julia_dir, moved_by_code, wireVars>>

\* handle_pending_events has reached the end of the array: it takes a signal set
\* meanwhile and empties the array, without yielding in between.
HandledAll ==
  /\ engine = "dispatch"
  /\ cursor > Len(pending_events)
  /\ event_signal' = FALSE
  /\ pending_events' = <<>>
  /\ cursor' = 1
  /\ engine' = "wait"
  /\ UNCHANGED <<julia_dir, moved_by_code, wireVars>>

\* Julia ends.  Of what it had written, the IDE finds a beginning.
Die ==
  /\ process' = "dead"
  /\ engine' = "down"
  /\ pending_events' = <<>>
  /\ cursor' = 1
  /\ event_signal' = FALSE
  /\ \E n \in 0..Len(fromJulia) : fromJulia' = SubSeq(fromJulia, 1, n)
  /\ UNCHANGED <<julia_dir, moved_by_code, stdout, toJulia>>

\* An exception of a handler leaves the event loop, the last call of Console.jl.
HandlerThrows ==
  /\ Taking("networkIn")
  /\ pending_events[cursor].msg \in Throwing
  /\ Die

Crash ==
  /\ MayCrash
  /\ process = "alive"
  /\ Die
=============================================================================
