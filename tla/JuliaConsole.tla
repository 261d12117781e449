---------------------------- MODULE JuliaConsole -----------------------------
(***************************************************************************)
(* The console, console.cpp: one text document that holds the old prompts,  *)
(* the commands entered and the current prompt, an integer that says where  *)
(* the current command begins, and keys that may or may not edit the text.  *)
(* A document is a sequence of cells; a position lies between two cells.    *)
(* Julia is reduced to the queue of requests it has not answered.  A key    *)
(* the console has no case for is the text editor's (BaseTextEditorWidget), *)
(* which does not know of begin_command_pos.                                *)
(***************************************************************************)
EXTENDS Naturals, Sequences, SequencesExt

CONSTANTS
  PromptLen,    \* cells of the prompt behind its line break, the last a blank ("julia> ": 7)
  Input,        \* which of AllInput the user gives
  MaxDoc,       \* bound: the user enters text only while the document is shorter
  MaxLine,      \* bound: ... and the command, as the console would take it, is shorter
  MaxHistory,   \* bound on the commands entered
  MaxQueue,     \* bound on the requests not answered
  MaxResets     \* bound on the number of resets and clears

\* What edits the text above the command: Shift+Return there; Tab, Shift+Tab and
\* Backspace when the editor takes the prompt's blank for indentation; Ctrl+Backspace when
\* it takes it for the end of a word; and what comes by no key at all (the context menu,
\* the middle button, a drop, an input method).
InputAbove == {"shift-return-above", "indentation-above", "word-above", "keyless-above"}

AllInput == InputAbove \union {"clear", "busy-return"}

ASSUME ConsoleAssumption ==
  /\ PromptLen \in Nat \ {0}
  /\ Input \subseteq AllInput
  /\ MaxDoc \in Nat /\ MaxLine \in Nat /\ MaxHistory \in Nat /\ MaxQueue \in Nat /\ MaxResets \in Nat

VARIABLES
  doc,                \* the text
  cursor,             \* the position of the text cursor
  begin_command_pos,  \* where the current command is taken to begin
  busy,               \* no prompt is shown
  command_history,    \* HistoryModel: the commands entered
  history_index,      \* the row Up and Down start from, 0 when invalid
  outstanding,        \* the requests not answered, a command or "other"
  resets              \* resets and clears so far

vars == <<doc, cursor, begin_command_pos, busy, command_history, history_index,
          outstanding, resets>>

\* A character entered by the user, a blank or any other, and the break Shift+Return
\* enters; a character of the prompt and the blank at its end; a message of the IDE; the
\* line break of the prompt or of SetBusy.
Typed      == {"char", "break"}
Cell       == Typed \union {"prompt", "gap", "message", "line"}
MayBeBlank == {"char", "gap"}
LineBreak  == {"line", "break"}

Prompt == <<"line">> \o [i \in 1..PromptLen |-> IF i = PromptLen THEN "gap" ELSE "prompt"]
Other  == [from |-> "other", text |-> <<>>]
Command(text) == [from |-> "console", text |-> text]

Splice(i, k, text) == SubSeq(doc, 1, i) \o text \o SubSeq(doc, i + k + 1, Len(doc))

\* QTextCursor::setPosition leaves the cursor alone when p is behind the end.
SetPosition(p) == IF p <= Len(doc) THEN p ELSE cursor

InCommandArea == SetPosition(begin_command_pos) <= cursor

\* Where a key that has no case of its own is sent: moveCursor(End) outside the area.
KeyPosition == IF InCommandArea THEN cursor ELSE Len(doc)

\* An edit at p is above the command, which only the input named does.
OnlyBelow(p, input) ==
  begin_command_pos <= Len(doc) /\ p < begin_command_pos => input \in Input

\* Mutant of GetCurrCommand: one position too early.
GetCurrCommandEarly ==
  LET from == SetPosition(begin_command_pos)
  IN  SubSeq(doc, IF from = 0 THEN 1 ELSE from, Len(doc))

GetCurrCommand == SubSeq(doc, SetPosition(begin_command_pos) + 1, Len(doc))

\* Bounds; they stand for no condition of the code, nor does the one break in ShiftReturn.
Room == Len(doc) < MaxDoc /\ Len(GetCurrCommand) < MaxLine
MayWait == Len(outstanding) < MaxQueue

Init ==
  /\ doc = <<>>
  /\ cursor = 0
  /\ begin_command_pos = 0
  /\ busy = TRUE
  /\ command_history = <<>>
  /\ history_index = 0
  /\ outstanding = <<Other, Other>>
  /\ resets = 0

-----------------------------------------------------------------------------
\* SetBusy: the document gets the message and a line break, unless it was busy.
SetBusy(message) ==
  /\ busy' = TRUE
  /\ IF busy
     THEN UNCHANGED <<doc, cursor>>
     ELSE /\ doc' = doc \o message \o <<"line">>
          /\ cursor' = Len(doc')

\* What the text, the cursor and begin_command_pos become when BeginCommand finds
\* the console busy with text d.
Begin(d) ==
  /\ doc' = d \o Prompt
  /\ cursor' = Len(doc')
  /\ begin_command_pos' = Len(doc')
  /\ busy' = FALSE

BeginCommand ==
  IF busy THEN Begin(doc) ELSE UNCHANGED <<doc, cursor, begin_command_pos, busy>>

-----------------------------------------------------------------------------
\* A character is typed; in overwrite mode it takes the place of the next of its line.
Type ==
  /\ Room
  /\ \E k \in {0, 1} :
       /\ k = 1 => KeyPosition < Len(doc) /\ doc[KeyPosition + 1] \notin LineBreak
       /\ doc' = Splice(KeyPosition, k, <<"char">>)
       /\ cursor' = KeyPosition + 1
  /\ UNCHANGED <<begin_command_pos, busy, command_history, history_index, outstanding, resets>>

\* Tab and Shift+Tab, and a Backspace set to unindent: the blanks in front of the cursor
\* are rewritten as other indentation.  They may be those of the prompt.
IndentOrUnindent ==
  /\ \E p \in 0..KeyPosition, t \in {<<>>, <<"char">>} :
       /\ \A i \in (p + 1)..KeyPosition : doc[i] \in MayBeBlank
       /\ OnlyBelow(p, "indentation-above")
       /\ t # <<>> => Room
       /\ doc' = Splice(p, KeyPosition - p, t)
       /\ cursor' = p + Len(t)
  /\ UNCHANGED <<begin_command_pos, busy, command_history, history_index, outstanding, resets>>

\* What no keyPressEvent brings goes where it is put.
InsertWithoutKey ==
  /\ Room
  /\ \E p \in 0..Len(doc) :
       /\ OnlyBelow(p, "keyless-above")
       /\ doc' = Splice(p, 0, <<"char">>)
       /\ cursor' = p + 1
  /\ UNCHANGED <<begin_command_pos, busy, command_history, history_index, outstanding, resets>>

\* Paste, of two characters.
Paste ==
  /\ InCommandArea
  /\ Room
  /\ doc' = Splice(cursor, 0, <<"char", "char">>)
  /\ cursor' = cursor + 2
  /\ UNCHANGED <<begin_command_pos, busy, command_history, history_index, outstanding, resets>>

\* Shift+Return, insertLineBelow: a break at the end of the cursor's own line.
ShiftReturn ==
  /\ ~InCommandArea => "shift-return-above" \in Input
  /\ Room
  /\ ~Contains(doc, "break")
  /\ \E p \in cursor..Len(doc) :
       /\ \A i \in (cursor + 1)..p : doc[i] \notin LineBreak
       /\ p < Len(doc) => doc[p + 1] \in LineBreak
       /\ doc' = Splice(p, 0, <<"break">>)
       /\ cursor' = p + 1
  /\ UNCHANGED <<begin_command_pos, busy, command_history, history_index, outstanding, resets>>

\* Mutant of Backspace: no test for the beginning of the command.
BackspaceIntoPrompt ==
  /\ InCommandArea
  /\ cursor > 0
  /\ doc' = Splice(cursor - 1, 1, <<>>)
  /\ cursor' = cursor - 1
  /\ UNCHANGED <<begin_command_pos, busy, command_history, history_index, outstanding, resets>>

\* Handle_KeyBackspace lets the editor have the key.
BackspacePasses == InCommandArea /\ cursor # begin_command_pos /\ cursor > 0

\* A bracket goes together with the closing one behind the cursor.
Backspace ==
  /\ BackspacePasses
  /\ \E k \in {1, 2} :
       /\ k = 2 => cursor < Len(doc) /\ doc[cursor] = "char" /\ doc[cursor + 1] = "char"
       /\ doc' = Splice(cursor - 1, k, <<>>)
       /\ cursor' = cursor - 1
  /\ UNCHANGED <<begin_command_pos, busy, command_history, history_index, outstanding, resets>>

\* Ctrl+Backspace: back to the start of a word, brackets with their closing ones.  In
\* front of a blank the editor looks for the word before it, which may be the prompt.
DeleteStartOfWord ==
  /\ BackspacePasses
  /\ \E p \in 0..(cursor - 1), q \in cursor..Len(doc) :
       /\ p = cursor - 1 \/ \A i \in (p + 1)..cursor : doc[i] \notin LineBreak
       /\ \A i \in (cursor + 1)..q : doc[i] = "char"
       /\ OnlyBelow(p, "word-above")
       /\ p < begin_command_pos => \A i \in (begin_command_pos + 1)..cursor : doc[i] \in MayBeBlank
       /\ doc' = Splice(p, q - p, <<>>)
       /\ cursor' = p
  /\ UNCHANGED <<begin_command_pos, busy, command_history, history_index, outstanding, resets>>

\* Delete, to the end of a word with Ctrl: above the command area there is nothing behind
\* the end of the text it is sent to.
Delete ==
  /\ IF InCommandArea
     THEN /\ \E k \in 1..(Len(doc) - cursor) : doc' = Splice(cursor, k, <<>>)
          /\ UNCHANGED cursor
     ELSE cursor' = Len(doc) /\ UNCHANGED doc
  /\ UNCHANGED <<begin_command_pos, busy, command_history, history_index, outstanding, resets>>

\* The mouse puts the cursor anywhere.  For the guards all places above the command
\* are alike, and the keys reach those in it: three places will do.
Click ==
  /\ cursor' \in 0..Len(doc)
  /\ cursor' \in {0, begin_command_pos - 1, Len(doc)}
  /\ UNCHANGED <<doc, begin_command_pos, busy, command_history, history_index, outstanding, resets>>

Left ==
  /\ InCommandArea
  /\ cursor # begin_command_pos
  /\ cursor > 0
  /\ cursor' = cursor - 1
  /\ UNCHANGED <<doc, begin_command_pos, busy, command_history, history_index, outstanding, resets>>

\* Mutant of Home: begin_command_pos is trusted.
HomeUnchecked ==
  /\ cursor' = begin_command_pos
  /\ UNCHANGED <<doc, begin_command_pos, busy, command_history, history_index, outstanding, resets>>

Home ==
  /\ cursor' = SetPosition(begin_command_pos)
  /\ UNCHANGED <<doc, begin_command_pos, busy, command_history, history_index, outstanding, resets>>

-----------------------------------------------------------------------------
\* Return: whatever is behind begin_command_pos is recorded and evaluated, whether or
\* not there is a prompt.
Return ==
  /\ busy => "busy-return" \in Input
  /\ MayWait
  /\ Len(command_history) < MaxHistory
  /\ command_history' = Append(command_history, GetCurrCommand)
  /\ history_index' = 0
  /\ SetBusy(<<>>)
  /\ outstanding' = Append(outstanding, Command(GetCurrCommand))
  /\ UNCHANGED <<begin_command_pos, resets>>

\* Mutant of SetCurrCommand: the text is put in at the cursor.
SetCurrCommandAtCursor(row) ==
  LET text == IF row = 0 THEN <<>> ELSE command_history[row]
  IN  /\ history_index' = row
      /\ doc' = SubSeq(doc, 1, cursor) \o text
      /\ cursor' = Len(doc')
      /\ UNCHANGED <<begin_command_pos, busy, command_history, outstanding, resets>>

\* The command is replaced by row of the history, by nothing when row is invalid.
SetCurrCommand(row) ==
  LET text == IF row = 0 THEN <<>> ELSE command_history[row]
  IN  /\ history_index' = row
      /\ doc' = SubSeq(doc, 1, SetPosition(begin_command_pos)) \o text
      /\ cursor' = Len(doc')
      /\ UNCHANGED <<begin_command_pos, busy, command_history, outstanding, resets>>

Up ==
  /\ command_history # <<>>
  /\ SetCurrCommand(CASE history_index = 0 -> Len(command_history)
                      [] history_index = 1 -> 1
                      [] OTHER             -> history_index - 1)

\* An invalid index has no sibling, nor has the last row.
Down ==
  /\ command_history # <<>>
  /\ SetCurrCommand(IF history_index \in {0, Len(command_history)} THEN 0
                    ELSE history_index + 1)

\* A click in the Command History pane.
ClickHistory == \E row \in DOMAIN command_history : SetCurrCommand(row)

-----------------------------------------------------------------------------
\* A package is added, removed or updated from its pane: two requests.
PackageAction ==
  /\ MayWait
  /\ Room
  /\ SetBusy(<<"message">>)
  /\ outstanding' = outstanding \o <<Other, Other>>
  /\ UNCHANGED <<begin_command_pos, command_history, history_index, resets>>

\* A file is run, a completion asked for, the directory changes.
OtherRequest ==
  /\ MayWait
  /\ outstanding' = Append(outstanding, Other)
  /\ UNCHANGED <<doc, cursor, begin_command_pos, busy, command_history, history_index, resets>>

\* Mutant of Answer: a prompt after every answer.
AnswerWithPrompt ==
  /\ outstanding # <<>>
  /\ outstanding' = Tail(outstanding)
  /\ BeginCommand
  /\ UNCHANGED <<command_history, history_index, resets>>

\* The oldest request is answered; ready() is emitted when none is left.
Answer ==
  /\ outstanding # <<>>
  /\ outstanding' = Tail(outstanding)
  /\ IF Tail(outstanding) = <<>> THEN BeginCommand
     ELSE UNCHANGED <<doc, cursor, begin_command_pos, busy>>
  /\ UNCHANGED <<command_history, history_index, resets>>

\* clearContents of the console pane: the text goes, busy is set if it was not, which
\* leaves a line break, and BeginCommand finds it set.
ClearContents ==
  /\ "clear" \in Input
  /\ resets < MaxResets
  /\ resets' = resets + 1
  /\ Begin(IF busy THEN <<>> ELSE <<"line">>)
  /\ UNCHANGED <<command_history, history_index, outstanding>>

\* Reset: begin_command_pos keeps a value that may lie behind the end of the text.
\* Julia's start counts as one request, so that ready() has something to follow.
Reset ==
  /\ resets < MaxResets
  /\ resets' = resets + 1
  /\ doc' = <<>>
  /\ cursor' = 0
  /\ busy' = TRUE
  /\ outstanding' = <<Other>>
  /\ UNCHANGED <<begin_command_pos, command_history, history_index>>

Next ==
  \/ Type \/ IndentOrUnindent \/ InsertWithoutKey \/ Paste \/ ShiftReturn
  \/ Backspace \/ DeleteStartOfWord \/ Delete \/ Click \/ Left \/ Home
  \/ Return \/ Up \/ Down \/ ClickHistory
  \/ PackageAction \/ OtherRequest \/ Answer \/ ClearContents \/ Reset

Spec == Init /\ [][Next]_vars

-----------------------------------------------------------------------------
TypeOK ==
  /\ doc \in Seq(Cell)
  /\ cursor \in 0..Len(doc)
  /\ begin_command_pos \in Nat
  /\ busy \in BOOLEAN
  /\ command_history \in Seq(Seq(Cell))
  /\ history_index \in 0..Len(command_history)
  /\ outstanding \in Seq([from : {"console", "other"}, text : Seq(Cell)])
  /\ resets \in Nat

\* While there is a prompt it is whole and directly before the command, wherever the
\* cursor has been and whatever was typed before it came (begin_command_pos).  Not so
\* with any of InputAbove.
PromptStays ==
  ~busy => /\ begin_command_pos \in Len(Prompt)..Len(doc)
           /\ SubSeq(doc, begin_command_pos - Len(Prompt) + 1, begin_command_pos) = Prompt

\* Nothing above the command ever changes but by emptying the console: the console's own
\* keys, and the editor's outside InputAbove, stay in the command area (keyPressEvent,
\* InCommandArea).
TextAboveIsReadOnly ==
  [][begin_command_pos <= Len(doc) /\ doc' # <<>> /\ resets' = resets =>
       IsPrefix(SubSeq(doc, 1, begin_command_pos), doc')]_vars

\* What is recorded, and evaluated, is what was entered: never a piece of the prompt,
\* of a message, or the line break that ends an earlier command (GetCurrCommand).
HistoryIsTyped == \A i \in DOMAIN command_history : command_history[i] \in Seq(Typed)

\* The commands of the console that wait for an answer.
Executing ==
  FlattenSeq([i \in DOMAIN outstanding |->
                IF outstanding[i] = Other THEN <<>> ELSE <<outstanding[i].text>>])

Line == INSTANCE PromptLine WITH
  Cell <- Typed,
  prompted  <- ~busy,
  line      <- IF busy THEN <<>> ELSE SubSeq(doc, begin_command_pos + 1, Len(doc)),
  history   <- command_history,
  executing <- Executing

\* The console is a prompt with a line to edit.
ImplementsPromptLine == Line!Spec
=============================================================================
