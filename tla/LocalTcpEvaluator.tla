-------------------------- MODULE LocalTcpEvaluator --------------------------
(***************************************************************************)
(* The IDE side of the command channel, localtcpevaluator.cpp: requests are *)
(* queued until the socket is connected and the previous request has been   *)
(* answered.  Every operator is one slot or member function, run to its end *)
(* by the Qt event loop.  What other objects do inside an emitted signal is *)
(* passed in: followUps are the requests evaluated inside output(), rs those *)
(* evaluated inside ready().                                                *)
(***************************************************************************)
EXTENDS JuliaWire

VARIABLES
  socket,            \* "null", "connecting", "connected" or "closed"
  busy,              \* a request has been written and not answered
  work_queue,        \* requests waiting for their turn
  curr_working_dir   \* the directory last given to setWorkingDir

ideVars == <<socket, busy, work_queue, curr_working_dir>>

IdeTypeOK ==
  /\ socket \in {"null", "connecting", "connected", "closed"}
  /\ busy \in BOOLEAN
  /\ work_queue \in Seq(Request)
  /\ curr_working_dir \in Dirs \union {NoDir}

\* Mutants of EvalAll: eval() without its test of busy, and one that queues in front.
EvalAllIgnoringBusy(sock, isBusy, queue, ms) ==
  IF sock # "connected" \/ ms = <<>>
  THEN [busy |-> isBusy, queue |-> queue \o ms, wrote |-> <<>>]
  ELSE [busy |-> TRUE, queue |-> queue \o Tail(ms), wrote |-> <<Head(ms)>>]

EvalAllInFront(sock, isBusy, queue, ms) ==
  IF isBusy \/ sock # "connected" \/ ms = <<>>
  THEN [busy |-> isBusy, queue |-> ms \o queue, wrote |-> <<>>]
  ELSE [busy |-> TRUE, queue |-> queue \o Tail(ms), wrote |-> <<Head(ms)>>]

\* eval() on each request of ms in turn, the socket being in state sock: the first is written if nothing is in
\* the way, and then is in the way of the others.
EvalAll(sock, isBusy, queue, ms) ==
  IF isBusy \/ sock # "connected" \/ ms = <<>>
  THEN [busy |-> isBusy, queue |-> queue \o ms, wrote |-> <<>>]
  ELSE [busy |-> TRUE, queue |-> queue \o Tail(ms), wrote |-> <<Head(ms)>>]

\* Mutant of ContinueOrReady: ready() whatever is queued.
ReadyAtOnce(queue, rs) == EvalAll("connected", FALSE, queue, rs)

\* continueOrReady(), always reached connected and not busy: the head of the
\* queue is evaluated, or ready() is emitted.
ContinueOrReady(queue, rs) ==
  IF queue # <<>>
  THEN [busy |-> TRUE, queue |-> Tail(queue), wrote |-> <<Head(queue)>>]
  ELSE EvalAll("connected", FALSE, <<>>, rs)

\* The outcome e of an evaluation becomes the state; "before" was written first.
Becomes(e, before) ==
  /\ busy' = e.busy
  /\ work_queue' = e.queue
  /\ toJulia' = toJulia \o before \o e.wrote

Eval(ms) ==
  /\ Becomes(EvalAll(socket, busy, work_queue, ms), <<>>)
  /\ UNCHANGED <<socket, curr_working_dir, process, stdout, fromJulia>>

SetWorkingDir(d) ==
  /\ d # curr_working_dir
  /\ curr_working_dir' = d
  /\ Becomes(EvalAll(socket, busy, work_queue, <<DirMsg(d)>>), <<>>)
  /\ UNCHANGED <<socket, process, stdout, fromJulia>>

\* Mutant of Reset: busy is not cleared.
ResetStayingBusy ==
  /\ process' = "alive"
  /\ stdout' = <<>>
  /\ toJulia' = <<>>
  /\ fromJulia' = <<>>
  /\ socket' = "null"
  /\ work_queue' = <<>>
  /\ UNCHANGED <<busy, curr_working_dir>>

\* Kills the process, drops the socket and everything queued or under way, and
\* starts a new process.  curr_working_dir is the one member it leaves alone.
Reset ==
  /\ process' = "alive"
  /\ stdout' = <<>>
  /\ toJulia' = <<>>
  /\ fromJulia' = <<>>
  /\ socket' = "null"
  /\ busy' = FALSE
  /\ work_queue' = <<>>
  /\ UNCHANGED curr_working_dir

\* ProcessOutput on the first k tokens: everything behind "PORT:" must be the
\* number, so a chunk in which text follows the port announces nothing.
OnProcessStdout(k) ==
  /\ k \in 1..Len(stdout)
  /\ stdout' = SubSeq(stdout, k + 1, Len(stdout))
  /\ socket' = IF socket = "null" /\ stdout[k] = "PORT" THEN "connecting" ELSE socket
  /\ UNCHANGED <<busy, work_queue, curr_working_dir, process, toJulia, fromJulia>>

\* Mutant of OnSocketConnected: only the queue is continued.
OnSocketConnectedWithoutDir(rs) ==
  /\ socket = "connecting"
  /\ process = "alive"
  /\ socket' = "connected"
  /\ Becomes(ContinueOrReady(work_queue, rs), <<>>)
  /\ UNCHANGED <<curr_working_dir, process, stdout, fromJulia>>

\* The directory is sent past the queue; without one the queue is continued.
OnSocketConnected(rs) ==
  /\ socket = "connecting"
  /\ process = "alive"
  /\ socket' = "connected"
  /\ IF curr_working_dir # NoDir
     THEN Becomes(EvalAll("connected", busy, work_queue, <<DirMsg(curr_working_dir)>>), <<>>)
     ELSE Becomes(ContinueOrReady(work_queue, rs), <<>>)
  /\ UNCHANGED <<curr_working_dir, process, stdout, fromJulia>>

\* One readyRead that finds the first k pieces: they are parsed as one document
\* and output() is emitted while busy is still set.  What cannot be parsed
\* reaches no listener, yet it ends the request under way all the same.
OnSocketOutput(k, followUps, rs) ==
  /\ socket = "connected"
  /\ k \in 1..Len(fromJulia)
  /\ fromJulia' = SubSeq(fromJulia, k + 1, Len(fromJulia))
  /\ LET inOutput == EvalAll("connected", busy, work_queue, followUps)
     IN  Becomes(ContinueOrReady(inOutput.queue, rs), inOutput.wrote)
  /\ UNCHANGED <<socket, curr_working_dir, process, stdout>>

\* The connection is refused or ends: onSocketError and exit() change nothing.
OnSocketClosed ==
  /\ socket \in {"connecting", "connected"}
  /\ process = "dead"
  /\ fromJulia = <<>>
  /\ socket' = "closed"
  /\ UNCHANGED <<busy, work_queue, curr_working_dir, wireVars>>
=============================================================================
