-------------------------- MODULE ServiceRefinement --------------------------
(***************************************************************************)
(* The session implements CommandService as long as every reply arrives in  *)
(* one piece; of the promise, the order of requests survives even when      *)
(* replies arrive in pieces.                                                *)
(***************************************************************************)
EXTENDS JuliaSession, SequencesExt

\* Everything one slot can evaluate: nothing, what the user's action evaluates, a
\* directory, what listeners of output() and of ready() evaluate.
ServiceOffers ==
  ConsoleWork \union OtherWork \union {<<DirMsg(d)>> : d \in Dirs} \union
  {<<>>, PackageLists, [i \in 1..Len(OpenPanes) |-> WatchMsg(OpenPanes[i])]}

ServiceState ==
  IF process = "dead" THEN "lost"
  ELSE IF socket = "connected" THEN "online" ELSE "starting"

\* The events no handler has been run for, and the replies under way.
Unhandled == SubSeq(pending_events, cursor, Len(pending_events))

MsgsNamed(name, events) ==
  FlattenSeq([i \in DOMAIN events |->
                IF events[i].name = name THEN <<events[i].msg>> ELSE <<>>])

UnhandledOf(name) == MsgsNamed(name, Unhandled)

RepliesUnderWay ==
  UnhandledOf("networkOut") \o [i \in DOMAIN fromJulia |-> fromJulia[i].reply]

RequestsUnderWay ==
  toJulia \o UnhandledOf("networkIn")
  \o [i \in DOMAIN RepliesUnderWay |-> RepliesUnderWay[i].to]

Service == INSTANCE CommandService WITH
  Offers  <- ServiceOffers,
  Endless <- Diverging,
  state   <- ServiceState,
  waiting <- work_queue,
  current <- IF process = "dead" THEN <<>> ELSE RequestsUnderWay,
  answer  <- IF process = "dead" THEN <<>> ELSE RepliesUnderWay

\* Every behaviour of a session is one of the command service: order, one at a
\* time, one answer each, nothing before the connection or after the end of Julia.
ImplementsService == Service!Init /\ [][Service!Next]_(Service!cvars)

\* ... and the service's liveness: a session comes online, what is written to Julia
\* is executed and its reply is delivered, unless Julia ends or is reset.
ImplementsLiveService == Service!Spec

-----------------------------------------------------------------------------
\* The requests Julia has not begun, in the order in which it will.
Unstarted == UnhandledOf("networkIn") \o toJulia \o work_queue

\* However replies are cut up or run together, no request is overtaken, repeated or
\* dropped before Julia begins it, but for the directory sent on connecting, as long
\* as Julia lives and is not reset (work_queue, the socket, pending_events).
NeverReordered ==
  [][(process' = "alive" /\ resets' = resets) =>
       \/ IsPrefix(Unstarted, Unstarted')
       \/ Unstarted # <<>> /\ IsPrefix(Tail(Unstarted), Unstarted')
       \/ socket = "connecting" /\ Unstarted' = <<DirMsg(curr_working_dir)>> \o Unstarted
    ]_vars
=============================================================================
