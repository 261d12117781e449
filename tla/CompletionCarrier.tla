-------------------------- MODULE CompletionCarrier --------------------------
(***************************************************************************)
(* Code completion: the code assistant of every Julia editor and of the     *)
(* console (codeassistant.cpp), and the proposal carriers that ask Julia    *)
(* and wait for the answer (juliacompletionassist.cpp).  A carrier listens  *)
(* to the evaluator's output() and takes the next list of completions it    *)
(* hears for its own, whoever asked for it.                                 *)
(***************************************************************************)
EXTENDS Naturals, Sequences, SequencesExt

CONSTANTS
  Widget,       \* the editors and the console, each with its code assistant
  MaxPos,       \* bound on the text position
  MaxRequests,  \* bound on the requests made
  MaxResets     \* bound on the number of resets

ASSUME CompletionAssumption ==
  MaxPos \in Nat /\ MaxRequests \in Nat /\ MaxResets \in Nat

VARIABLES
  pos,       \* the position of each widget's text cursor
  current,   \* m_proposalCarrier: the carrier an assistant waits for, 0 for none
  carriers,  \* the carriers connected to output() and not deleted
  queue,     \* "complete" requests not answered, each the number of its carrier
  proposal,  \* the proposal displayed in a widget: a set of at most one
  requests,  \* carriers created so far; they are numbered from 1
  resets,    \* resets so far
  before     \* carriers created before the last reset

vars == <<pos, current, carriers, queue, proposal, requests, resets, before>>

Carrier  == [id : 1..MaxRequests, widget : Widget, base : 0..MaxPos]
Proposal == [carrier : Carrier, answer : 1..MaxRequests]

Init ==
  /\ pos = [w \in Widget |-> 0]
  /\ current = [w \in Widget |-> 0]
  /\ carriers = {}
  /\ queue = <<>>
  /\ proposal = [w \in Widget |-> {}]
  /\ requests = 0
  /\ resets = 0
  /\ before = 0

-----------------------------------------------------------------------------
\* Mutant of RequestProposal: the word is taken to begin one position too late.
RequestProposalLate(w, p) ==
  /\ requests < MaxRequests
  /\ requests' = requests + 1
  /\ \E base \in 1..(p + 1) :
       carriers' = carriers \union {[id |-> requests', widget |-> w, base |-> base]}
  /\ current' = [current EXCEPT ![w] = requests']
  /\ queue' = Append(queue, requests')

\* requestProposal at position p: a new carrier, for the word that begins at its base,
\* takes the place of the one waited for, which goes on listening.
RequestProposal(w, p) ==
  /\ requests < MaxRequests
  /\ requests' = requests + 1
  /\ \E base \in 0..p :
       carriers' = carriers \union {[id |-> requests', widget |-> w, base |-> base]}
  /\ current' = [current EXCEPT ![w] = requests']
  /\ queue' = Append(queue, requests')

\* invoke, by the user, and automaticProposalTimeout: what is displayed stays.
Invoke(w) ==
  /\ proposal[w] = {}
  /\ RequestProposal(w, pos[w])
  /\ UNCHANGED <<pos, proposal, resets, before>>

\* process: an activation character was typed, whatever is displayed.
Process(w) ==
  /\ pos[w] < MaxPos
  /\ pos' = [pos EXCEPT ![w] = @ + 1]
  /\ RequestProposal(w, pos'[w])
  /\ UNCHANGED <<proposal, resets, before>>

\* automaticProposalTimeout where getCarrier finds nothing to complete: no carrier is
\* waited for any more.
TimeoutInVain(w) ==
  /\ proposal[w] = {}
  /\ current' = [current EXCEPT ![w] = 0]
  /\ UNCHANGED <<pos, carriers, queue, proposal, requests, resets, before>>

\* notifyChange: a proposal is closed when the cursor is before its base.
Displayable(w, p) == {x \in proposal[w] : p >= x.carrier.base}

\* Mutant of Edit: notifyChange leaves the proposal alone.
EditUnnoticed(w) ==
  /\ \E p \in 0..MaxPos : pos' = [pos EXCEPT ![w] = p]
  /\ UNCHANGED <<current, carriers, queue, proposal, requests, resets, before>>

\* The text is edited or the cursor moved.
Edit(w) ==
  /\ \E p \in 0..MaxPos :
       /\ pos' = [pos EXCEPT ![w] = p]
       /\ proposal' = [proposal EXCEPT ![w] = Displayable(w, p)]
  /\ UNCHANGED <<current, carriers, queue, requests, resets, before>>

\* An item is chosen, or the widget is closed.
FinalizeProposal(w) ==
  /\ proposal[w] # {}
  /\ proposal' = [proposal EXCEPT ![w] = {}]
  /\ UNCHANGED <<pos, current, carriers, queue, requests, resets, before>>
-----------------------------------------------------------------------------
Listening(w) == {c \in carriers : c.widget = w /\ c.id = current[w]}

\* proposalCarried and displayProposal for answer a: only the carrier waited for is
\* heeded, a proposal already displayed stays, and a base behind the cursor is too late.
Displayed(w, a) ==
  IF proposal[w] # {} THEN proposal[w]
  ELSE {[carrier |-> c, answer |-> a] : c \in {d \in Listening(w) : pos[w] >= d.base}}

\* Mutant of ReceiveCompletions: a carrier is not forgotten once it has been heard.
ReceiveCompletionsKeepingCarrier ==
  /\ queue # <<>>
  /\ queue' = Tail(queue)
  /\ carriers' = {}
  /\ proposal' \in {proposal, [w \in Widget |-> Displayed(w, Head(queue))]}
  /\ UNCHANGED <<pos, current, requests, resets, before>>

\* Mutant of ReceiveCompletions: only a carrier waited for is deleted.
ReceiveCompletionsDeletingHeeded ==
  /\ queue # <<>>
  /\ queue' = Tail(queue)
  /\ carriers' = carriers \ UNION {Listening(w) : w \in Widget}
  /\ current' = [w \in Widget |-> IF Listening(w) = {} THEN current[w] ELSE 0]
  /\ proposal' \in {proposal, [w \in Widget |-> Displayed(w, Head(queue))]}
  /\ UNCHANGED <<pos, requests, resets, before>>

\* Mutant of ReceiveCompletions: finalizeCarrier is not connected, nor is the pointer reset.
ReceiveCompletionsForGood ==
  /\ queue # <<>>
  /\ queue' = Tail(queue)
  /\ proposal' \in {proposal, [w \in Widget |-> Displayed(w, Head(queue))]}
  /\ UNCHANGED <<pos, current, carriers, requests, resets, before>>

\* The oldest request is answered: every carrier takes the answer, emits ready() and is
\* deleted.  An empty list is not displayed.
ReceiveCompletions ==
  /\ queue # <<>>
  /\ queue' = Tail(queue)
  /\ carriers' = {}
  /\ current' = [w \in Widget |-> IF Listening(w) = {} THEN current[w] ELSE 0]
  /\ proposal' \in {proposal, [w \in Widget |-> Displayed(w, Head(queue))]}
  /\ UNCHANGED <<pos, requests, resets, before>>

\* The console is reset: the requests are gone, the carriers do not notice.
Reset ==
  /\ resets < MaxResets
  /\ resets' = resets + 1
  /\ queue' = <<>>
  /\ before' = requests
  /\ UNCHANGED <<pos, current, carriers, proposal, requests>>

Next ==
  \/ \E w \in Widget : Invoke(w) \/ Process(w) \/ TimeoutInVain(w) \/ Edit(w) \/ FinalizeProposal(w)
  \/ ReceiveCompletions
  \/ Reset

Spec == Init /\ [][Next]_vars

-----------------------------------------------------------------------------
TypeOK ==
  /\ pos \in [Widget -> 0..MaxPos]
  /\ current \in [Widget -> 0..MaxRequests]
  /\ carriers \subseteq Carrier
  /\ queue \in Seq(1..MaxRequests)
  /\ proposal \in [Widget -> SUBSET Proposal]
  /\ requests \in 0..MaxRequests
  /\ resets \in Nat
  /\ before \in 0..requests

\* An assistant never keeps a pointer to a deleted carrier, whichever of the carriers of
\* the IDE an answer was for (proposalCarried, finalizeCarrier).
CurrentIsAlive ==
  \A w \in Widget : current[w] # 0 => Listening(w) # {}

\* Unless the console was reset meanwhile, a carrier's own request is still to be
\* answered: none waits for an answer that has been given to another.
NobodyWaitsInVain ==
  \A c \in carriers : c.id > before => Contains(queue, c.id)

\* The text a chosen item replaces, from its base to the cursor, is text: a proposal is
\* displayed only where its base is not behind the cursor (displayProposal, notifyChange).
BaseBeforeCursor ==
  \A w \in Widget : \A x \in proposal[w] : x.carrier.base <= pos[w]

\* A proposal may offer the completions of an earlier request, which its carrier took for
\* the answer to its own, but unless a reset lost that request never those of a later
\* one: a carrier is gone with the first answer it hears (receivecompletions).
AnswerIsNotLater ==
  \A w \in Widget : \A x \in proposal[w] :
    x.carrier.id > before => x.answer <= x.carrier.id
=============================================================================
