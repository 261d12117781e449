----------------------------- MODULE PromptLine ------------------------------
(***************************************************************************)
(* What the console promises its user: at a prompt there is one line to     *)
(* edit; Return submits exactly that line, records it in the history and    *)
(* takes the prompt away; the prompt comes back, with an empty line, when   *)
(* everything submitted has been answered, or when the console is cleared.  *)
(***************************************************************************)
EXTENDS Naturals, Sequences

CONSTANT Cell   \* what a line is made of

VARIABLES
  prompted,   \* a prompt is shown
  line,       \* what has been entered at it
  history,    \* the lines submitted so far
  executing   \* the lines submitted and not answered

pvars == <<prompted, line, history, executing>>

Init ==
  /\ prompted = FALSE
  /\ line = <<>>
  /\ history = <<>>
  /\ executing = <<>>

Splice(s, i, k, t) == SubSeq(s, 1, i) \o t \o SubSeq(s, i + k + 1, Len(s))

\* A piece of text that one key puts in the line, or nothing.
Piece == (Cell \X Cell) \union {<<c>> : c \in Cell} \union {<<>>}

\* A piece takes the place of a part of the line, or an earlier line or nothing that of
\* all of it.
Edit ==
  /\ prompted
  /\ \/ \E i, k \in 0..Len(line), t \in Piece :
          i + k <= Len(line) /\ line' = Splice(line, i, k, t)
     \/ \E i \in DOMAIN history : line' = history[i]
     \/ line' = <<>>
  /\ UNCHANGED <<prompted, history, executing>>

Submit ==
  /\ prompted
  /\ history' = Append(history, line)
  /\ executing' = Append(executing, line)
  /\ line' = <<>>
  /\ prompted' = FALSE

\* Something else in the IDE takes the prompt away.
Interrupt ==
  /\ prompted
  /\ prompted' = FALSE
  /\ line' = <<>>
  /\ UNCHANGED <<history, executing>>

Answered ==
  /\ executing # <<>>
  /\ executing' = Tail(executing)
  /\ UNCHANGED <<prompted, line, history>>

\* The last answer, if one was still due, brings the prompt.
ShowPrompt ==
  /\ ~prompted
  /\ Len(executing) <= 1
  /\ executing' = <<>>
  /\ prompted' = TRUE
  /\ UNCHANGED <<line, history>>

\* The console is emptied: a prompt with an empty line, whatever is being executed.
Clear ==
  /\ prompted' = TRUE
  /\ line' = <<>>
  /\ UNCHANGED <<history, executing>>

Restart ==
  /\ prompted' = FALSE
  /\ line' = <<>>
  /\ executing' = <<>>
  /\ UNCHANGED history

Next == Edit \/ Submit \/ Interrupt \/ Answered \/ ShowPrompt \/ Clear \/ Restart

Spec == Init /\ [][Next]_pvars
=============================================================================
