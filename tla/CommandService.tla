---------------------------- MODULE CommandService ---------------------------
(***************************************************************************)
(* What the command channel promises the rest of the IDE, with no socket,   *)
(* process or event loop in it: requests are executed one at a time, in the *)
(* order they were submitted, each is answered by a reply of its own, and   *)
(* nothing is executed after the service is lost or before it is online.    *)
(* The working directory alone may go first when the service comes online.  *)
(***************************************************************************)
EXTENDS JuliaMsg

CONSTANTS
  Offers,   \* the sequences of requests that can be submitted at once
  Endless   \* requests that may be executed for ever

VARIABLES
  state,    \* "starting", "online" or "lost"
  waiting,  \* requests submitted and not begun
  current,  \* the request begun and not answered: a sequence of at most one
  answer    \* its reply, once it is executed: a sequence of at most one

cvars == <<state, waiting, current, answer>>

First(q) == IF q = <<>> THEN <<>> ELSE <<Head(q)>>
Rest(q)  == IF q = <<>> THEN <<>> ELSE Tail(q)

\* The head of q becomes the current request.
Begin(q) ==
  /\ current' = First(q)
  /\ waiting' = Rest(q)

Init ==
  /\ state = "starting"
  /\ waiting \in Offers
  /\ current = <<>>
  /\ answer = <<>>

Submit ==
  \E ms \in Offers :
    /\ IF state = "online" /\ current = <<>>
       THEN Begin(waiting \o ms)
       ELSE /\ waiting' = waiting \o ms
            /\ UNCHANGED current
    /\ UNCHANGED <<state, answer>>

GoOnline ==
  /\ state = "starting"
  /\ state' = "online"
  /\ \/ \E d \in Dirs : current' = <<DirMsg(d)>> /\ UNCHANGED waiting
     \/ \E ms \in Offers : Begin(waiting \o ms)
  /\ UNCHANGED answer

Execute ==
  /\ state = "online"
  /\ current # <<>>
  /\ answer = <<>>
  /\ \E rep \in RepliesTo(Head(current)) : answer' = <<rep>>
  /\ UNCHANGED <<state, waiting, current>>

\* The reply is delivered; its listeners may submit more, and the next begins.
Deliver ==
  /\ state = "online"
  /\ answer # <<>>
  /\ answer' = <<>>
  /\ \E ms \in Offers : Begin(waiting \o ms)
  /\ UNCHANGED state

Lose ==
  /\ state # "lost"
  /\ state' = "lost"
  /\ current' = <<>>
  /\ answer' = <<>>
  /\ UNCHANGED waiting

\* A reply that was under way when the service was lost can still be delivered;
\* the request begun for it is gone with the service.
DeliverLate ==
  /\ state = "lost"
  /\ \E ms \in Offers : waiting' = Rest(waiting \o ms)
  /\ UNCHANGED <<state, current, answer>>

\* A submission to the lost service whose loss has not been noticed.
SubmitInVain ==
  /\ state = "lost"
  /\ \E ms \in Offers : waiting' = waiting \o Rest(ms)
  /\ UNCHANGED <<state, current, answer>>

Restart ==
  /\ state' = "starting"
  /\ waiting' = <<>>
  /\ current' = <<>>
  /\ answer' = <<>>

Next == Submit \/ GoOnline \/ Execute \/ Deliver \/ Lose \/ DeliverLate \/ SubmitInVain \/ Restart

\* A service that is not lost comes online, executes what it has begun, unless that is
\* endless, and delivers what it has executed.
Fairness ==
  /\ WF_cvars(GoOnline)
  /\ WF_cvars(Execute /\ Head(current) \notin Endless)
  /\ WF_cvars(Deliver)

Spec == Init /\ [][Next]_cvars /\ Fairness
=============================================================================
