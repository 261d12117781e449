------------------------ MODULE JuliaConsole_proofs --------------------------
(***************************************************************************)
(* The console for every length of the prompt and whatever the bounds: what *)
(* stands above the command stays, the prompt stays whole, what is recorded *)
(* was entered, and the console is the prompt line it promises to be.       *)
(* The keys fall into three kinds: those that replace a part of the text,   *)
(* those that only move the cursor, and those that bring back a command.    *)
(***************************************************************************)
EXTENDS JuliaConsole, ListFacts

Request == [from : {"console", "other"}, text : Seq(Cell)]

Inserted == {<<>>, <<"char">>, <<"char", "char">>, <<"break">>}

\* Nothing is entered that the text editor or the window system puts above the command.
SafeInput == Input \cap InputAbove = {}

RestUnchanged ==
  UNCHANGED <<begin_command_pos, busy, command_history, history_index, outstanding, resets>>

\* k cells behind the i-th are replaced by t, in the command area unless the input is one
\* that does not look where the cursor is.
EditAt(i, k, t) ==
  /\ i + k <= Len(doc)
  /\ SafeInput /\ begin_command_pos <= Len(doc) => begin_command_pos <= i
  /\ doc' = Spliced(doc, i, k, t)
  /\ cursor' \in 0..Len(doc) - k + Len(t)

Edits == RestUnchanged /\ \E i, k \in 0..Len(doc), t \in Inserted : EditAt(i, k, t)

Moves == RestUnchanged /\ UNCHANGED doc /\ cursor' \in 0..Len(doc)

Recalls == \E row \in 0..Len(command_history) : SetCurrCommand(row)

-----------------------------------------------------------------------------
LEMMA InsertedFacts ==
  \A t \in Inserted : t \in Seq(Typed) /\ t \in Seq(Cell) /\ Len(t) \in {0, 1, 2}
<1>1. "char" \in Typed /\ "break" \in Typed /\ "char" \in Cell /\ "break" \in Cell
  BY DEF Typed, Cell
<1>2. <<"char">> \in Seq(Typed) /\ <<"char">> \in Seq(Cell) /\ Len(<<"char">>) = 1
  BY <1>1
<1>3. <<"char", "char">> \in Seq(Typed) /\ <<"char", "char">> \in Seq(Cell)
      /\ Len(<<"char", "char">>) = 2
  BY <1>1
<1>4. <<"break">> \in Seq(Typed) /\ <<"break">> \in Seq(Cell) /\ Len(<<"break">>) = 1
  BY <1>1
<1>5. <<>> \in Seq(Typed) /\ <<>> \in Seq(Cell) /\ Len(<<>>) = 0
  BY EmptySeq
<1>6. QED
  BY <1>2, <1>3, <1>4, <1>5 DEF Inserted

LEMMA InsertedTexts ==
  /\ <<>> \in Inserted /\ Len(<<>>) = 0
  /\ <<"char">> \in Inserted /\ Len(<<"char">>) = 1
  /\ <<"char", "char">> \in Inserted /\ Len(<<"char", "char">>) = 2
  /\ <<"break">> \in Inserted /\ Len(<<"break">>) = 1
  BY DEF Inserted

LEMMA PositionType ==
  ASSUME TypeOK
  PROVE  /\ Len(doc) \in Nat /\ cursor \in Nat /\ cursor <= Len(doc)
         /\ SetPosition(begin_command_pos) \in 0..Len(doc)
         /\ begin_command_pos \in Nat
         /\ InCommandArea <=> SetPosition(begin_command_pos) <= cursor
<1>1. Len(doc) \in Nat /\ cursor \in 0..Len(doc) /\ begin_command_pos \in Nat
  BY LenProperties DEF TypeOK
<1>2. QED
  BY <1>1 DEF SetPosition, InCommandArea

\* A key is sent to a place in the command area.
LEMMA KeyPositionType ==
  ASSUME TypeOK
  PROVE  /\ KeyPosition \in 0..Len(doc)
         /\ begin_command_pos <= Len(doc) => begin_command_pos <= KeyPosition
  BY PositionType DEF KeyPosition, SetPosition

\* An edit only the input named does above the command is not done there.
LEMMA SafeIsBelow ==
  ASSUME NEW p \in Nat, NEW input \in InputAbove, begin_command_pos \in Nat, Len(doc) \in Nat,
         OnlyBelow(p, input)
  PROVE  SafeInput /\ begin_command_pos <= Len(doc) => begin_command_pos <= p
  BY DEF OnlyBelow, SafeInput

\* A part of the text is replaced and the cursor put behind what has come.
LEMMA ReplaceIsEdit ==
  ASSUME TypeOK, RestUnchanged, NEW i \in 0..Len(doc), NEW k \in Nat, i + k <= Len(doc),
         NEW t \in Inserted,
         SafeInput /\ begin_command_pos <= Len(doc) => begin_command_pos <= i,
         doc' = Spliced(doc, i, k, t), cursor' = i + Len(t)
  PROVE  Edits
<1>1. Len(doc) \in Nat /\ Len(t) \in Nat
  BY PositionType, InsertedFacts
<1>2. k \in 0..Len(doc) /\ i + Len(t) \in 0..Len(doc) - k + Len(t)
  BY <1>1
<1>3. EditAt(i, k, t)
  BY <1>2 DEF EditAt
<1>4. QED
  BY <1>2, <1>3 DEF Edits

LEMMA TypeIsEdit == TypeOK /\ Type => Edits
<1> SUFFICES ASSUME TypeOK, Type PROVE Edits
  OBVIOUS
<1>1. PICK k \in {0, 1} :
        /\ k = 1 => KeyPosition < Len(doc)
        /\ doc' = Splice(KeyPosition, k, <<"char">>) /\ cursor' = KeyPosition + 1
  BY DEF Type
<1>2. k \in Nat /\ KeyPosition + k <= Len(doc)
  BY <1>1, PositionType, KeyPositionType
<1>3. doc' = Spliced(doc, KeyPosition, k, <<"char">>) /\ RestUnchanged
  BY <1>1 DEF Type, Splice, Spliced, RestUnchanged
<1>4. cursor' = KeyPosition + Len(<<"char">>)
  BY <1>1, InsertedTexts
<1>5. QED
  BY <1>2, <1>3, <1>4, KeyPositionType, InsertedTexts, ReplaceIsEdit

LEMMA IndentIsEdit == TypeOK /\ IndentOrUnindent => Edits
<1> SUFFICES ASSUME TypeOK, IndentOrUnindent PROVE Edits
  OBVIOUS
<1>1. PICK p \in 0..KeyPosition, t \in {<<>>, <<"char">>} :
        /\ OnlyBelow(p, "indentation-above")
        /\ doc' = Splice(p, KeyPosition - p, t) /\ cursor' = p + Len(t)
  BY DEF IndentOrUnindent
<1>2. /\ p \in 0..Len(doc) /\ p \in Nat /\ KeyPosition - p \in Nat
      /\ p + (KeyPosition - p) <= Len(doc)
  BY PositionType, KeyPositionType
<1>3. SafeInput /\ begin_command_pos <= Len(doc) => begin_command_pos <= p
  BY <1>1, <1>2, PositionType, SafeIsBelow DEF InputAbove
<1>4. doc' = Spliced(doc, p, KeyPosition - p, t) /\ RestUnchanged
  BY <1>1 DEF IndentOrUnindent, Splice, Spliced, RestUnchanged
<1>5. t \in Inserted
  BY InsertedTexts
<1>6. QED
  BY <1>1, <1>2, <1>3, <1>4, <1>5, ReplaceIsEdit

LEMMA KeylessIsEdit == TypeOK /\ InsertWithoutKey => Edits
<1> SUFFICES ASSUME TypeOK, InsertWithoutKey PROVE Edits
  OBVIOUS
<1>1. PICK p \in 0..Len(doc) :
        /\ OnlyBelow(p, "keyless-above")
        /\ doc' = Splice(p, 0, <<"char">>) /\ cursor' = p + 1
  BY DEF InsertWithoutKey
<1>2. p \in Nat /\ p + 0 <= Len(doc)
  BY PositionType
<1>3. SafeInput /\ begin_command_pos <= Len(doc) => begin_command_pos <= p
  BY <1>1, <1>2, PositionType, SafeIsBelow DEF InputAbove
<1>4. doc' = Spliced(doc, p, 0, <<"char">>) /\ RestUnchanged
  BY <1>1 DEF InsertWithoutKey, Splice, Spliced, RestUnchanged
<1>5. cursor' = p + Len(<<"char">>)
  BY <1>1, InsertedTexts
<1>6. QED
  BY <1>2, <1>3, <1>4, <1>5, InsertedTexts, ReplaceIsEdit

LEMMA PasteIsEdit == TypeOK /\ Paste => Edits
<1> SUFFICES ASSUME TypeOK, Paste PROVE Edits
  OBVIOUS
<1>1. /\ cursor \in 0..Len(doc) /\ cursor + 0 <= Len(doc)
      /\ begin_command_pos <= Len(doc) => begin_command_pos <= cursor
  BY PositionType DEF SetPosition, Paste
<1>2. doc' = Spliced(doc, cursor, 0, <<"char", "char">>) /\ cursor' = cursor + 2 /\ RestUnchanged
  BY DEF Paste, Splice, Spliced, RestUnchanged
<1>3. QED
  BY <1>1, <1>2, InsertedTexts, ReplaceIsEdit

LEMMA ShiftReturnIsEdit == TypeOK /\ ShiftReturn => Edits
<1> SUFFICES ASSUME TypeOK, ShiftReturn PROVE Edits
  OBVIOUS
<1>1. PICK p \in cursor..Len(doc) : doc' = Splice(p, 0, <<"break">>) /\ cursor' = p + 1
  BY DEF ShiftReturn
<1>2. p \in 0..Len(doc) /\ p + 0 <= Len(doc)
  BY PositionType
<1>3. SafeInput /\ begin_command_pos <= Len(doc) => begin_command_pos <= p
  BY PositionType DEF SetPosition, ShiftReturn, SafeInput, InputAbove
<1>4. doc' = Spliced(doc, p, 0, <<"break">>) /\ RestUnchanged
  BY <1>1 DEF ShiftReturn, Splice, Spliced, RestUnchanged
<1>5. QED
  BY <1>1, <1>2, <1>3, <1>4, InsertedTexts, ReplaceIsEdit

LEMMA BackspaceIsEdit == TypeOK /\ Backspace => Edits
<1> SUFFICES ASSUME TypeOK, Backspace PROVE Edits
  OBVIOUS
<1>1. PICK k \in {1, 2} :
        /\ k = 2 => cursor < Len(doc)
        /\ doc' = Splice(cursor - 1, k, <<>>) /\ cursor' = cursor - 1
  BY DEF Backspace
<1>2. /\ cursor - 1 \in 0..Len(doc) /\ k \in Nat /\ cursor - 1 + k <= Len(doc)
      /\ begin_command_pos <= Len(doc) => begin_command_pos <= cursor - 1
      /\ cursor - 1 = cursor - 1 + 0
  BY <1>1, PositionType DEF SetPosition, Backspace, BackspacePasses
<1>3. doc' = Spliced(doc, cursor - 1, k, <<>>) /\ RestUnchanged
  BY <1>1 DEF Backspace, Splice, Spliced, RestUnchanged
<1>4. QED
  BY <1>1, <1>2, <1>3, InsertedTexts, ReplaceIsEdit

LEMMA DeleteWordIsEdit == TypeOK /\ DeleteStartOfWord => Edits
<1> SUFFICES ASSUME TypeOK, DeleteStartOfWord PROVE Edits
  OBVIOUS
<1>1. PICK p \in 0..(cursor - 1), q \in cursor..Len(doc) :
        /\ OnlyBelow(p, "word-above")
        /\ doc' = Splice(p, q - p, <<>>) /\ cursor' = p
  BY DEF DeleteStartOfWord
<1>2. /\ p \in 0..Len(doc) /\ p \in Nat /\ q - p \in Nat /\ p + (q - p) <= Len(doc)
      /\ p = p + 0
  BY PositionType
<1>3. SafeInput /\ begin_command_pos <= Len(doc) => begin_command_pos <= p
  BY <1>1, <1>2, PositionType, SafeIsBelow DEF InputAbove
<1>4. doc' = Spliced(doc, p, q - p, <<>>) /\ RestUnchanged
  BY <1>1 DEF DeleteStartOfWord, Splice, Spliced, RestUnchanged
<1>5. QED
  BY <1>1, <1>2, <1>3, <1>4, InsertedTexts, ReplaceIsEdit

LEMMA DeleteEditsOrMoves == TypeOK /\ Delete => Edits \/ Moves
<1> SUFFICES ASSUME TypeOK, Delete PROVE Edits \/ Moves
  OBVIOUS
<1>1. RestUnchanged
  BY DEF Delete, RestUnchanged
<1>2. CASE InCommandArea
  <2>1. PICK k \in 1..(Len(doc) - cursor) : doc' = Splice(cursor, k, <<>>) /\ cursor' = cursor
    BY <1>2 DEF Delete
  <2>2. /\ cursor \in 0..Len(doc) /\ k \in Nat /\ cursor + k <= Len(doc)
        /\ begin_command_pos <= Len(doc) => begin_command_pos <= cursor
        /\ cursor = cursor + 0
    BY <1>2, PositionType DEF SetPosition
  <2>3. doc' = Spliced(doc, cursor, k, <<>>)
    BY <2>1 DEF Splice, Spliced
  <2>4. QED
    BY <1>1, <2>1, <2>2, <2>3, InsertedTexts, ReplaceIsEdit
<1>3. CASE ~InCommandArea
  BY <1>1, <1>3, PositionType DEF Delete, Moves
<1>4. QED
  BY <1>2, <1>3

LEMMA MoveKeys == TypeOK /\ (Click \/ Left \/ Home) => Moves
  BY PositionType DEF Click, Left, Home, Moves, RestUnchanged

LEMMA RecallKeys == TypeOK /\ (Up \/ Down \/ ClickHistory) => Recalls
<1> SUFFICES ASSUME TypeOK, Up \/ Down \/ ClickHistory PROVE Recalls
  OBVIOUS
<1>1. /\ history_index \in 0..Len(command_history) /\ Len(command_history) \in Nat
      /\ DOMAIN command_history = 1..Len(command_history)
      /\ command_history # <<>> => Len(command_history) # 0
  BY LenProperties, EmptySeq DEF TypeOK
<1>2. CASE Up
  <2>1. CASE history_index = 0
    <3>1. SetCurrCommand(Len(command_history))
      BY <1>2, <2>1 DEF Up
    <3>2. Len(command_history) \in 0..Len(command_history)
      BY <1>1
    <3>3. QED
      BY <3>1, <3>2 DEF Recalls
  <2>2. CASE history_index = 1
    <3>1. SetCurrCommand(1)
      BY <1>2, <2>2 DEF Up
    <3>2. 1 \in 0..Len(command_history)
      BY <1>1, <2>2
    <3>3. QED
      BY <3>1, <3>2 DEF Recalls
  <2>3. CASE history_index # 0 /\ history_index # 1
    <3>1. SetCurrCommand(history_index - 1)
      BY <1>2, <2>3 DEF Up
    <3>2. history_index - 1 \in 0..Len(command_history)
      BY <1>1, <2>3
    <3>3. QED
      BY <3>1, <3>2 DEF Recalls
  <2>4. QED
    BY <2>1, <2>2, <2>3
<1>3. CASE Down
  <2> DEFINE row == IF history_index \in {0, Len(command_history)} THEN 0 ELSE history_index + 1
  <2>1. row \in 0..Len(command_history)
    <3>1. history_index \in {0, Len(command_history)} \/ history_index + 1 \in 0..Len(command_history)
      <4> DEFINE n == Len(command_history)
      <4>1. n \in Nat /\ history_index \in 0..n
        BY <1>1
      <4> HIDE DEF n
      <4>2. QED
        BY <4>1 DEF n
    <3>2. 0 \in 0..Len(command_history)
      BY <1>1
    <3>3. QED
      BY <3>1, <3>2
  <2>2. SetCurrCommand(row)
    BY <1>3 DEF Down
  <2> HIDE DEF row
  <2>3. QED
    BY <2>1, <2>2 DEF Recalls
<1>4. CASE ClickHistory
  <2>1. PICK row \in 1..Len(command_history) : SetCurrCommand(row)
    BY <1>1, <1>4 DEF ClickHistory
  <2>2. row \in 0..Len(command_history)
    BY <1>1
  <2>3. QED
    BY <2>1, <2>2 DEF Recalls
<1>5. QED
  BY <1>2, <1>3, <1>4

\* The kinds of step there are.
LEMMA StepKinds ==
  ASSUME TypeOK, Next
  PROVE  \/ Edits \/ Moves \/ Recalls
         \/ Return \/ PackageAction \/ OtherRequest \/ Answer \/ ClearContents \/ Reset
  BY TypeIsEdit, IndentIsEdit, KeylessIsEdit, PasteIsEdit, ShiftReturnIsEdit, BackspaceIsEdit,
     DeleteWordIsEdit, DeleteEditsOrMoves, MoveKeys, RecallKeys
  DEF Next

-----------------------------------------------------------------------------
LEMMA PromptType == Prompt \in Seq(Cell) /\ Len(Prompt) = PromptLen + 1 /\ Len(Prompt) \in Nat \ {0}
<1> DEFINE first == <<"line">>
           rest == [i \in 1..PromptLen |-> IF i = PromptLen THEN "gap" ELSE "prompt"]
<1>1. "line" \in Cell /\ "prompt" \in Cell /\ "gap" \in Cell /\ PromptLen \in Nat
  BY ConsoleAssumption DEF Cell
<1>2. first \in Seq(Cell) /\ Len(first) = 1
  BY <1>1
<1>3. rest \in Seq(Cell) /\ Len(rest) = PromptLen
  BY <1>1
<1> HIDE DEF first, rest
<1>4. first \o rest \in Seq(Cell) /\ Len(first \o rest) = Len(first) + Len(rest)
  BY <1>2, <1>3, ConcatProperties
<1>5. QED
  BY <1>1, <1>2, <1>3, <1>4 DEF Prompt, first, rest

LEMMA BeginType ==
  ASSUME NEW d \in Seq(Cell), Begin(d)
  PROVE  /\ doc' = d \o Prompt /\ doc' \in Seq(Cell) /\ Len(doc') = Len(d) + Len(Prompt)
         /\ cursor' \in 0..Len(doc') /\ begin_command_pos' = Len(doc') /\ Len(doc') \in Nat
         /\ busy' = FALSE
<1>1. doc' = d \o Prompt /\ cursor' = Len(doc') /\ begin_command_pos' = Len(doc') /\ busy' = FALSE
  BY DEF Begin
<1>2. doc' \in Seq(Cell) /\ Len(doc') = Len(d) + Len(Prompt)
  BY <1>1, PromptType, ConcatProperties
<1>3. Len(doc') \in Nat
  BY <1>2, LenProperties
<1>4. QED
  BY <1>1, <1>2, <1>3

LEMMA SetBusyType ==
  ASSUME TypeOK, NEW message \in Seq(Cell), SetBusy(message)
  PROVE  /\ busy' = TRUE /\ doc' \in Seq(Cell) /\ cursor' \in 0..Len(doc')
         /\ \E t \in Seq(Cell) : doc' = doc \o t
         /\ busy => doc' = doc
<1>1. doc \in Seq(Cell) /\ busy' = TRUE /\ busy \in BOOLEAN
  BY DEF TypeOK, SetBusy
<1>2. CASE busy
  <2>1. doc' = doc /\ cursor' = cursor
    BY <1>2 DEF SetBusy
  <2>2. <<>> \in Seq(Cell) /\ doc \o <<>> = doc
    BY <1>1, EmptySeq, ConcatEmptySeq
  <2>3. QED
    BY <1>1, <1>2, <2>1, <2>2 DEF TypeOK
<1>3. CASE ~busy
  <2> DEFINE l == <<"line">>
             t == message \o l
  <2>1. l \in Seq(Cell)
    BY DEF Cell
  <2>2. doc' = (doc \o message) \o l /\ cursor' = Len(doc')
    BY <1>3 DEF SetBusy
  <2> HIDE DEF l
  <2>3. t \in Seq(Cell)
    BY <2>1, ConcatProperties
  <2>4. doc' = doc \o t
    BY <1>1, <2>1, <2>2, ConcatAssociative
  <2> HIDE DEF t
  <2>5. doc' \in Seq(Cell)
    BY <1>1, <2>3, <2>4, ConcatProperties
  <2>6. cursor' \in 0..Len(doc')
    BY <2>2, <2>5, LenProperties
  <2>7. QED
    BY <1>1, <1>3, <2>3, <2>4, <2>5, <2>6
<1>4. QED
  BY <1>1, <1>2, <1>3

LEMMA CommandType == TypeOK => GetCurrCommand \in Seq(Cell)
<1> SUFFICES ASSUME TypeOK PROVE GetCurrCommand \in Seq(Cell)
  OBVIOUS
<1>1. doc \in Seq(Cell) /\ SetPosition(begin_command_pos) \in 0..Len(doc)
  BY PositionType DEF TypeOK
<1>2. QED
  BY <1>1, BehindFacts DEF GetCurrCommand

\* What an edit makes of the text.
LEMMA EditType ==
  ASSUME TypeOK, NEW i \in 0..Len(doc), NEW k \in 0..Len(doc), NEW t \in Inserted, EditAt(i, k, t)
  PROVE  /\ k \in Nat /\ i + k <= Len(doc) /\ t \in Seq(Cell) /\ t \in Seq(Typed)
         /\ doc' = Spliced(doc, i, k, t) /\ doc' \in Seq(Cell) /\ cursor' \in 0..Len(doc')
<1>1. k \in Nat /\ i + k <= Len(doc) /\ doc' = Spliced(doc, i, k, t) /\ doc \in Seq(Cell)
      /\ cursor' \in 0..Len(doc) - k + Len(t)
  BY DEF EditAt, TypeOK
<1>2. t \in Seq(Cell) /\ t \in Seq(Typed)
  BY InsertedFacts
<1>3. IsSpliced(doc', Cell, doc, i, k, t)
  BY <1>1, <1>2, SpliceFacts
<1>4. QED
  BY <1>1, <1>2, <1>3 DEF IsSpliced

\* What recalling a command makes of the text.
LEMMA RecallType ==
  ASSUME TypeOK, NEW row \in 0..Len(command_history), SetCurrCommand(row)
  PROVE  LET text == IF row = 0 THEN <<>> ELSE command_history[row]
             kept == SubSeq(doc, 1, SetPosition(begin_command_pos))
         IN  /\ text \in Seq(Cell) /\ kept \in Seq(Cell)
             /\ Len(kept) = SetPosition(begin_command_pos)
             /\ SameUpto(doc, kept, SetPosition(begin_command_pos))
             /\ doc' = kept \o text /\ doc' \in Seq(Cell) /\ cursor' \in 0..Len(doc')
<1> DEFINE p == SetPosition(begin_command_pos)
           text == IF row = 0 THEN <<>> ELSE command_history[row]
           kept == SubSeq(doc, 1, p)
<1>1. p \in 0..Len(doc) /\ Len(doc) \in Nat /\ doc \in Seq(Cell)
  BY PositionType DEF TypeOK
<1>2. text \in Seq(Cell)
  <2>1. command_history \in Seq(Seq(Cell)) /\ Len(command_history) \in Nat
    BY LenProperties DEF TypeOK
  <2>2. CASE row = 0
    BY <2>2, EmptySeq
  <2>3. CASE row # 0
    <3>1. row \in 1..Len(command_history)
      BY <2>1, <2>3
    <3>2. QED
      BY <2>1, <2>3, <3>1, ElementOfSeq
  <2>4. QED
    BY <2>2, <2>3
<1>3. doc' = kept \o text /\ cursor' = Len(doc')
  BY DEF SetCurrCommand
<1> HIDE DEF p, text
<1>4. /\ kept \in Seq(Cell) /\ Len(kept) = p /\ SameUpto(doc, kept, p)
  <2>1. \A j \in 1..p : j \in 1..Len(doc) /\ 1 + j - 1 = j
    BY <1>1
  <2>2. \A j \in 1..p : doc[j] \in Cell
    BY <1>1, <2>1, ElementOfSeq
  <2>3. kept \in Seq(Cell) /\ Len(kept) = (IF 1 <= p THEN p - 1 + 1 ELSE 0)
        /\ \A j \in 1..p - 1 + 1 : kept[j] = doc[1 + j - 1]
    BY <1>1, <2>2, SubSeqProperties
  <2>4. (IF 1 <= p THEN p - 1 + 1 ELSE 0) = p /\ p - 1 + 1 = p
    BY <1>1
  <2> HIDE DEF kept
  <2>5. QED
    BY <2>1, <2>3, <2>4 DEF SameUpto
<1> HIDE DEF kept
<1>5. doc' \in Seq(Cell)
  BY <1>2, <1>3, <1>4, ConcatProperties
<1>6. cursor' \in 0..Len(doc')
  BY <1>3, <1>5, LenProperties
<1>7. QED
  BY <1>2, <1>3, <1>4, <1>5, <1>6 DEF p, text, kept

-----------------------------------------------------------------------------
LEMMA ConsoleTypeInit == Init => TypeOK
<1> SUFFICES ASSUME Init PROVE TypeOK
  OBVIOUS
<1>1. Other \in Request /\ <<Other, Other>> \in Seq(Request)
  BY EmptySeq DEF Other, Request
<1>2. <<>> \in Seq(Cell) /\ <<>> \in Seq(Seq(Cell)) /\ Len(<<>>) = 0
  BY EmptySeq
<1>3. QED
  BY <1>1, <1>2 DEF Init, TypeOK, Request

LEMMA OutstandingType ==
  TypeOK => /\ outstanding \in Seq(Request) /\ Other \in Request
            /\ \A text \in Seq(Cell) : Command(text) \in Request
  BY EmptySeq DEF TypeOK, Request, Other, Command

LEMMA ConsoleTypeNext == TypeOK /\ [Next]_vars => TypeOK'
<1> SUFFICES ASSUME TypeOK, [Next]_vars PROVE TypeOK'
  OBVIOUS
<1>0. TypeOK
  OBVIOUS
<1>1. CASE Edits
  <2>1. doc' \in Seq(Cell) /\ cursor' \in 0..Len(doc')
    BY <1>1, EditType DEF Edits
  <2>2. QED
    BY <1>1, <2>1 DEF Edits, RestUnchanged, TypeOK
<1>2. CASE Moves
  BY <1>2 DEF Moves, RestUnchanged, TypeOK
<1>3. CASE Recalls
  <2>1. PICK row \in 0..Len(command_history) : SetCurrCommand(row)
    BY <1>3 DEF Recalls
  <2>2. doc' \in Seq(Cell) /\ cursor' \in 0..Len(doc')
    BY <2>1, RecallType
  <2>3. QED
    BY <2>1, <2>2 DEF SetCurrCommand, TypeOK
<1>4. CASE Return
  <2>1. SetBusy(<<>>) /\ UNCHANGED <<begin_command_pos, resets>>
    BY <1>4 DEF Return
  <2>2. doc' \in Seq(Cell) /\ cursor' \in 0..Len(doc') /\ busy' = TRUE
    BY <2>1, SetBusyType, EmptySeq
  <2>3. command_history' \in Seq(Seq(Cell)) /\ history_index' = 0
    BY <1>4, CommandType, AppendProperties DEF Return, TypeOK
  <2>4. history_index' \in 0..Len(command_history')
    BY <2>3, LenProperties
  <2>5. outstanding' \in Seq(Request)
    BY <1>4, OutstandingType, CommandType, AppendProperties DEF Return
  <2>6. QED
    BY <2>1, <2>2, <2>3, <2>4, <2>5 DEF TypeOK, Request
<1>5. CASE PackageAction
  <2>1. SetBusy(<<"message">>) /\ UNCHANGED <<begin_command_pos, command_history, history_index, resets>>
    BY <1>5 DEF PackageAction
  <2>2. <<"message">> \in Seq(Cell)
    BY DEF Cell
  <2>3. doc' \in Seq(Cell) /\ cursor' \in 0..Len(doc') /\ busy' = TRUE
    BY <2>1, <2>2, SetBusyType
  <2>4. <<Other, Other>> \in Seq(Request)
    BY OutstandingType
  <2>5. outstanding' \in Seq(Request)
    BY <1>5, <2>4, OutstandingType, ConcatProperties DEF PackageAction
  <2>6. QED
    BY <2>1, <2>3, <2>5 DEF TypeOK, Request
<1>6. CASE OtherRequest
  <2>1. outstanding' \in Seq(Request)
    BY <1>6, OutstandingType, AppendProperties DEF OtherRequest
  <2>2. QED
    BY <1>6, <2>1 DEF OtherRequest, TypeOK, Request
<1>7. CASE Answer
  <2>1. outstanding' \in Seq(Request)
    BY <1>7, OutstandingType, HeadTailProperties DEF Answer
  <2>2. /\ doc' \in Seq(Cell) /\ cursor' \in 0..Len(doc')
        /\ begin_command_pos' \in Nat /\ busy' \in BOOLEAN
    <3>1. Begin(doc) \/ UNCHANGED <<doc, cursor, begin_command_pos, busy>>
      BY <1>7 DEF Answer, BeginCommand
    <3>2. CASE Begin(doc)
      BY <3>2, BeginType DEF TypeOK
    <3>3. CASE UNCHANGED <<doc, cursor, begin_command_pos, busy>>
      BY <3>3 DEF TypeOK
    <3>4. QED
      BY <3>1, <3>2, <3>3
  <2>3. QED
    BY <1>7, <2>1, <2>2 DEF Answer, TypeOK, Request
<1>8. CASE ClearContents
  <2>1. PICK d \in Seq(Cell) : Begin(d)
    <3>1. <<>> \in Seq(Cell) /\ <<"line">> \in Seq(Cell)
      BY DEF Cell
    <3>2. QED
      BY <1>8, <3>1 DEF ClearContents
  <2>2. doc' \in Seq(Cell) /\ cursor' \in 0..Len(doc') /\ begin_command_pos' \in Nat /\ busy' = FALSE
    BY <2>1, BeginType
  <2>3. UNCHANGED <<command_history, history_index, outstanding>> /\ resets' \in Nat
    BY <1>8 DEF ClearContents, TypeOK
  <2>4. QED
    BY <2>2, <2>3 DEF TypeOK
<1>9. CASE Reset
  <2>1. <<Other>> \in Seq(Request)
    BY OutstandingType
  <2>2. doc' \in Seq(Cell) /\ cursor' \in 0..Len(doc')
    BY <1>9, EmptySeq DEF Reset
  <2>3. outstanding' \in Seq(Request) /\ busy' \in BOOLEAN /\ resets' \in Nat
    BY <1>9, <2>1 DEF Reset, TypeOK
  <2>4. UNCHANGED <<begin_command_pos, command_history, history_index>>
    BY <1>9 DEF Reset
  <2>5. QED
    BY <2>2, <2>3, <2>4 DEF TypeOK, Request
<1>10. CASE UNCHANGED vars
  BY <1>10 DEF vars, TypeOK
<1>11. QED
  BY <1>1, <1>2, <1>3, <1>4, <1>5, <1>6, <1>7, <1>8, <1>9, <1>10, StepKinds

\* The cursor never lies outside the text, nor the row of the history outside the history,
\* whatever key is pressed, though begin_command_pos may lie behind the end.
THEOREM ConsoleTypes == Spec => []TypeOK
  BY ConsoleTypeInit, ConsoleTypeNext, PTL DEF Spec

-----------------------------------------------------------------------------
\* The text above the command, and the prompt at its end, after an edit of any kind.
LEMMA AboveKept ==
  ASSUME TypeOK, SafeInput, begin_command_pos <= Len(doc), Edits \/ Moves \/ Recalls
  PROVE  /\ doc' \in Seq(Cell) /\ begin_command_pos \in 0..Len(doc')
         /\ SameUpto(doc, doc', begin_command_pos)
<1> DEFINE b == begin_command_pos
<1>1. /\ b \in 0..Len(doc) /\ Len(doc) \in Nat /\ doc \in Seq(Cell)
      /\ SetPosition(b) = b
  BY PositionType DEF TypeOK, SetPosition
<1>2. CASE Edits
  <2>1. PICK i \in 0..Len(doc), k \in 0..Len(doc), t \in Inserted : EditAt(i, k, t)
    BY <1>2 DEF Edits
  <2>2. b \in 0..i
    BY <1>1, <2>1 DEF EditAt
  <2>3. /\ k \in Nat /\ i + k <= Len(doc) /\ t \in Seq(Cell)
        /\ doc' = Spliced(doc, i, k, t) /\ doc' \in Seq(Cell)
    BY <2>1, EditType
  <2> HIDE DEF b
  <2>4. b \in 0..Len(doc') /\ SameUpto(doc, doc', b)
    BY <1>1, <2>2, <2>3, SpliceBehind
  <2>5. QED
    BY <2>3, <2>4 DEF b
<1>3. CASE Moves
  BY <1>1, <1>3 DEF Moves, SameUpto
<1>4. CASE Recalls
  <2>1. PICK row \in 0..Len(command_history) : SetCurrCommand(row)
    BY <1>4 DEF Recalls
  <2> DEFINE text == IF row = 0 THEN <<>> ELSE command_history[row]
             kept == SubSeq(doc, 1, SetPosition(b))
  <2>2. /\ text \in Seq(Cell) /\ kept \in Seq(Cell) /\ Len(kept) = b /\ SameUpto(doc, kept, b)
        /\ doc' = kept \o text /\ doc' \in Seq(Cell)
    BY <1>1, <2>1, RecallType
  <2> HIDE DEF text, kept, b
  <2>3. SameUpto(kept, doc', b)
    BY <2>2, PartsOfConcat
  <2>4. SameUpto(doc, doc', b)
    BY <2>2, <2>3 DEF SameUpto
  <2>5. b \in 0..Len(doc')
    <3>1. Len(doc') = b + Len(text) /\ Len(text) \in Nat
      BY <2>2, ConcatProperties, LenProperties
    <3>2. QED
      BY <1>1, <3>1
  <2>6. QED
    BY <2>2, <2>4, <2>5 DEF b
<1>5. QED
  BY <1>2, <1>3, <1>4

\* Text added at the end leaves alone what is before it.
LEMMA AppendedKept ==
  ASSUME TypeOK, NEW t \in Seq(Cell), doc' = doc \o t, begin_command_pos <= Len(doc)
  PROVE  /\ doc' \in Seq(Cell) /\ begin_command_pos \in 0..Len(doc')
         /\ SameUpto(doc, doc', begin_command_pos)
<1>1. doc \in Seq(Cell) /\ Len(doc) \in Nat /\ begin_command_pos \in Nat
  BY PositionType DEF TypeOK
<1>2. doc' \in Seq(Cell) /\ Len(doc') = Len(doc) + Len(t) /\ Len(t) \in Nat
  BY <1>1, ConcatProperties, LenProperties
<1>3. begin_command_pos \in 0..Len(doc')
  BY <1>1, <1>2
<1>4. SameUpto(doc, doc', Len(doc))
  BY <1>1, PartsOfConcat
<1>5. \A i \in 1..begin_command_pos : i \in 1..Len(doc)
  BY <1>1
<1>6. SameUpto(doc, doc', begin_command_pos)
  BY <1>4, <1>5 DEF SameUpto
<1>7. QED
  BY <1>2, <1>3, <1>6

\* Whatever a step does but emptying the console.
LEMMA StepKeepsAbove ==
  ASSUME TypeOK, SafeInput, Next, begin_command_pos <= Len(doc), doc' # <<>>, resets' = resets
  PROVE  /\ doc' \in Seq(Cell) /\ begin_command_pos \in 0..Len(doc')
         /\ SameUpto(doc, doc', begin_command_pos)
<1>1. resets \in Nat /\ doc \in Seq(Cell)
  BY DEF TypeOK
<1>2. ~ClearContents /\ ~Reset
  BY <1>1 DEF ClearContents, Reset
<1>3. ASSUME doc' = doc
      PROVE  \E t \in Seq(Cell) : doc' = doc \o t
  BY <1>1, <1>3, EmptySeq, ConcatEmptySeq
<1>4. CASE Return
  <2>1. SetBusy(<<>>) /\ <<>> \in Seq(Cell)
    BY <1>4, EmptySeq DEF Return
  <2>2. \E t \in Seq(Cell) : doc' = doc \o t
    BY <2>1, SetBusyType
  <2>3. QED
    BY <2>2, AppendedKept
<1>5. CASE PackageAction
  <2>1. SetBusy(<<"message">>) /\ <<"message">> \in Seq(Cell)
    BY <1>5 DEF PackageAction, Cell
  <2>2. \E t \in Seq(Cell) : doc' = doc \o t
    BY <2>1, SetBusyType
  <2>3. QED
    BY <2>2, AppendedKept
<1>6. CASE OtherRequest
  BY <1>3, <1>6, AppendedKept DEF OtherRequest
<1>7. CASE Answer
  <2>1. doc' = doc \/ doc' = doc \o Prompt
    BY <1>7 DEF Answer, BeginCommand, Begin
  <2>2. QED
    BY <1>3, <2>1, PromptType, AppendedKept
<1>8. QED
  BY <1>2, <1>4, <1>5, <1>6, <1>7, AboveKept, StepKinds

\* Nothing above the command changes but by emptying the console, as long as nothing of
\* InputAbove is entered.
THEOREM ConsoleTextAbove ==
  ASSUME SafeInput
  PROVE  Spec => TextAboveIsReadOnly
<1>1. ASSUME TypeOK, [Next]_vars
      PROVE  [begin_command_pos <= Len(doc) /\ doc' # <<>> /\ resets' = resets =>
                IsPrefix(SubSeq(doc, 1, begin_command_pos), doc')]_vars
  <2> DEFINE b == begin_command_pos
             above == SubSeq(doc, 1, b)
  <2> SUFFICES ASSUME Next, b <= Len(doc), doc' # <<>>, resets' = resets
               PROVE  IsPrefix(above, doc')
    BY <1>1
  <2>1. doc \in Seq(Cell) /\ b \in Nat /\ Len(doc) \in Nat
    BY <1>1, PositionType DEF TypeOK
  <2>2. doc' \in Seq(Cell) /\ b \in 0..Len(doc') /\ SameUpto(doc, doc', b)
    BY <1>1, StepKeepsAbove
  <2> HIDE DEF b
  <2>3. Len(doc') \in Nat /\ b <= Len(doc') /\ 1 \in 1..b + 1
    BY <2>1, <2>2, LenProperties
  <2>4. above = SubSeq(doc', 1, b)
    BY <2>1, <2>2, <2>3, SameParts DEF b
  <2>5. above \in Seq(Cell) /\ Len(above) = b
    <3>1. \A i \in 1..b : i \in 1..Len(doc) /\ 1 + i - 1 = i
      BY <2>1 DEF b
    <3>2. \A i \in 1..b : doc[i] \in Cell
      BY <2>1, <3>1, ElementOfSeq
    <3>3. above \in Seq(Cell) /\ Len(above) = (IF 1 <= b THEN b - 1 + 1 ELSE 0)
      BY <2>1, <3>2, SubSeqProperties
    <3>4. QED
      BY <2>1, <3>3
  <2>6. SubSeq(above, 1, Len(above)) = above
    BY <2>5, SubSeqFull
  <2> HIDE DEF above
  <2>7. QED
    BY <2>3, <2>4, <2>5, <2>6 DEF IsPrefix
<1>2. QED
  BY ConsoleTypes, <1>1, PTL DEF Spec, TextAboveIsReadOnly

-----------------------------------------------------------------------------
\* What has been entered at the prompt.
Entered == SubSeq(doc, begin_command_pos + 1, Len(doc))

\* A prompt that has just been shown is whole, and nothing has been entered at it.
LEMMA BeginPrompt ==
  ASSUME NEW d \in Seq(Cell), Begin(d)
  PROVE  PromptStays' /\ Entered' = <<>>
<1> DEFINE n == Len(d)
           l == Len(Prompt)
<1>1. /\ doc' = d \o Prompt /\ Len(doc') = n + l /\ begin_command_pos' = n + l
      /\ n \in Nat /\ l \in Nat /\ Prompt \in Seq(Cell)
  BY BeginType, PromptType, LenProperties
<1>2. SubSeq(doc', n + 1, n + l) = Prompt
  BY <1>1, PartsOfConcat
<1> HIDE DEF n
<1>3. /\ begin_command_pos' - l + 1 = n + 1
      /\ begin_command_pos' \in l..Len(doc')
      /\ Len(doc') < begin_command_pos' + 1
      /\ Len(doc') \in Int /\ begin_command_pos' + 1 \in Int
  BY <1>1
<1>4. Entered' = <<>>
  BY <1>3, SubSeqEmpty DEF Entered
<1>5. PromptStays'
  BY <1>1, <1>2, <1>3 DEF PromptStays
<1>6. QED
  BY <1>4, <1>5

LEMMA PromptPlace ==
  ASSUME TypeOK, PromptStays, ~busy
  PROVE  /\ begin_command_pos \in 0..Len(doc) /\ begin_command_pos <= Len(doc)
         /\ begin_command_pos - Len(Prompt) + 1 \in 1..begin_command_pos + 1
         /\ SetPosition(begin_command_pos) = begin_command_pos
         /\ doc \in Seq(Cell) /\ Len(doc) \in Nat /\ begin_command_pos \in Nat
<1>1. begin_command_pos \in Len(Prompt)..Len(doc) /\ Len(Prompt) \in Nat
  BY PromptType DEF PromptStays
<1>2. doc \in Seq(Cell) /\ Len(doc) \in Nat /\ begin_command_pos \in Nat
  BY PositionType DEF TypeOK
<1>3. QED
  BY <1>1, <1>2 DEF SetPosition

LEMMA PromptNext ==
  ASSUME TypeOK, PromptStays, SafeInput, [Next]_vars
  PROVE  PromptStays'
<1>1. CASE Edits \/ Moves \/ Recalls
  <2>1. busy' = busy /\ begin_command_pos' = begin_command_pos
    BY <1>1 DEF Edits, Moves, Recalls, RestUnchanged, SetCurrCommand
  <2> SUFFICES ASSUME ~busy PROVE PromptStays'
    BY <2>1 DEF PromptStays
  <2> DEFINE b == begin_command_pos
             m == b - Len(Prompt) + 1
  <2>2. b <= Len(doc) /\ m \in 1..b + 1 /\ doc \in Seq(Cell) /\ b \in Nat
    BY PromptPlace
  <2>3. doc' \in Seq(Cell) /\ b \in 0..Len(doc') /\ SameUpto(doc, doc', b)
    BY <1>1, <2>2, AboveKept
  <2>4. b <= Len(doc')
    BY <2>3
  <2> HIDE DEF b, m
  <2>5. SubSeq(doc, m, b) = SubSeq(doc', m, b)
    BY <2>2, <2>3, <2>4, SameParts
  <2>6. SubSeq(doc', m, b) = Prompt
    BY <2>5 DEF PromptStays, m, b
  <2>7. b \in Len(Prompt)..Len(doc')
    <3>1. b \in Len(Prompt)..Len(doc)
      BY DEF PromptStays, b
    <3>2. QED
      BY <2>2, <2>4, <2>3, <3>1, PromptType
  <2>8. QED
    BY <2>1, <2>6, <2>7 DEF PromptStays, m, b
<1>2. CASE Return \/ PackageAction \/ Reset
  BY <1>2 DEF Return, PackageAction, SetBusy, Reset, PromptStays
<1>3. CASE OtherRequest
  BY <1>3 DEF OtherRequest, PromptStays
<1>4. CASE Answer
  <2>1. Begin(doc) \/ UNCHANGED <<doc, cursor, begin_command_pos, busy>>
    BY <1>4 DEF Answer, BeginCommand
  <2>2. CASE Begin(doc)
    BY <2>2, BeginPrompt DEF TypeOK
  <2>3. CASE UNCHANGED <<doc, cursor, begin_command_pos, busy>>
    BY <2>3 DEF PromptStays
  <2>4. QED
    BY <2>1, <2>2, <2>3
<1>5. CASE ClearContents
  <2>1. <<>> \in Seq(Cell) /\ <<"line">> \in Seq(Cell)
    BY DEF Cell
  <2>2. QED
    BY <1>5, <2>1, BeginPrompt DEF ClearContents
<1>6. CASE UNCHANGED vars
  BY <1>6 DEF vars, PromptStays
<1>7. QED
  BY <1>1, <1>2, <1>3, <1>4, <1>5, <1>6, StepKinds

LEMMA PromptInit == Init => PromptStays
  BY DEF Init, PromptStays

\* A prompt that is shown is whole and directly before the command, as long as nothing of
\* InputAbove is entered.
THEOREM ConsolePromptStays ==
  ASSUME SafeInput
  PROVE  Spec => []PromptStays
<1>1. TypeOK /\ PromptStays /\ [Next]_vars => PromptStays'
  BY PromptNext
<1>2. QED
  BY ConsoleTypes, PromptInit, <1>1, PTL DEF Spec

-----------------------------------------------------------------------------
\* What an edit at the prompt makes of what has been entered.
LEMMA EditLine ==
  ASSUME TypeOK, PromptStays, SafeInput, ~busy, Edits
  PROVE  \E i \in 0..Len(Entered), k \in 0..Len(Entered), t \in Inserted :
           i + k <= Len(Entered) /\ Entered' = Spliced(Entered, i, k, t)
<1> DEFINE b == begin_command_pos
           n == Len(doc)
<1>1. b \in 0..n /\ b <= n /\ doc \in Seq(Cell) /\ n \in Nat /\ b \in Nat /\ b' = b
  BY PromptPlace DEF Edits, RestUnchanged
<1>2. PICK i \in 0..n, k \in 0..n, t \in Inserted : EditAt(i, k, t)
  BY DEF Edits
<1>3. b \in 0..i
  BY <1>1, <1>2 DEF EditAt
<1>4. k \in Nat /\ i + k <= n /\ t \in Seq(Cell) /\ doc' = Spliced(doc, i, k, t)
  BY <1>2, EditType
<1>5. Entered \in Seq(Cell) /\ Len(Entered) = n - b
  BY <1>1, BehindFacts DEF Entered
<1> HIDE DEF b
<1>6. Behind(Spliced(doc, i, k, t), b) = Spliced(Behind(doc, b), i - b, k, t)
  <2>1. doc \in Seq(Cell) /\ k \in Nat /\ i + k <= Len(doc) /\ t \in Seq(Cell)
    BY <1>1, <1>4
  <2>2. QED
    BY <1>3, <2>1, SpliceBehind
<1>7. Entered' = Spliced(Entered, i - b, k, t)
  BY <1>1, <1>4, <1>6 DEF Entered, Behind, b
<1> HIDE DEF n
<1>8. i - b \in 0..Len(Entered) /\ k \in 0..Len(Entered) /\ (i - b) + k <= Len(Entered)
  BY <1>1, <1>3, <1>4, <1>5
<1>9. QED
  BY <1>7, <1>8

\* A command brought back replaces what has been entered.
LEMMA RecallLine ==
  ASSUME TypeOK, PromptStays, ~busy, NEW row \in 0..Len(command_history), SetCurrCommand(row)
  PROVE  Entered' = IF row = 0 THEN <<>> ELSE command_history[row]
<1> DEFINE b == begin_command_pos
           text == IF row = 0 THEN <<>> ELSE command_history[row]
           kept == SubSeq(doc, 1, SetPosition(b))
<1>1. SetPosition(b) = b /\ b' = b
  BY PromptPlace DEF SetCurrCommand
<1>2. text \in Seq(Cell) /\ kept \in Seq(Cell) /\ Len(kept) = b /\ doc' = kept \o text
  BY <1>1, RecallType
<1> HIDE DEF kept, text, b
<1>3. SubSeq(kept \o text, b + 1, Len(kept \o text)) = text
  BY <1>2, PartsOfConcat
<1>4. QED
  BY <1>1, <1>2, <1>3 DEF Entered, text, b

\* What has been entered at a prompt is typed, as everything entered before was.
EnteredInv == HistoryIsTyped /\ (~busy => Entered \in Seq(Typed))

\* The input for which what is recorded was entered.
LineInput == SafeInput /\ "busy-return" \notin Input

LEMMA EnteredNext ==
  ASSUME TypeOK, PromptStays, EnteredInv, LineInput, [Next]_vars
  PROVE  EnteredInv'
<1>1. SafeInput /\ <<>> \in Seq(Typed)
  BY EmptySeq DEF LineInput
<1>2. CASE Edits \/ Moves
  <2>1. busy' = busy /\ command_history' = command_history
    BY <1>2 DEF Edits, Moves, RestUnchanged
  <2>2. HistoryIsTyped'
    BY <2>1 DEF EnteredInv, HistoryIsTyped
  <2>3. ASSUME ~busy
        PROVE  Entered' \in Seq(Typed)
    <3>1. CASE Edits
      <4>1. PICK i \in 0..Len(Entered), k \in 0..Len(Entered), t \in Inserted :
              i + k <= Len(Entered) /\ Entered' = Spliced(Entered, i, k, t)
        BY <1>1, <2>3, <3>1, EditLine
      <4>2. Entered \in Seq(Typed)
        BY <2>3 DEF EnteredInv
      <4>3. t \in Seq(Typed) /\ k \in Nat
        BY InsertedFacts
      <4>4. IsSpliced(Entered', Typed, Entered, i, k, t)
        BY <4>1, <4>2, <4>3, SpliceFacts
      <4>5. QED
        BY <4>4 DEF IsSpliced
    <3>2. CASE Moves
      BY <2>3, <3>2 DEF Moves, RestUnchanged, EnteredInv, Entered
    <3>3. QED
      BY <1>2, <3>1, <3>2
  <2>4. QED
    BY <2>1, <2>2, <2>3 DEF EnteredInv
<1>3. CASE Recalls
  <2>1. PICK row \in 0..Len(command_history) : SetCurrCommand(row)
    BY <1>3 DEF Recalls
  <2>2. busy' = busy /\ command_history' = command_history
    BY <2>1 DEF SetCurrCommand
  <2>3. command_history \in Seq(Seq(Cell)) /\ DOMAIN command_history = 1..Len(command_history)
        /\ Len(command_history) \in Nat
    BY LenProperties DEF TypeOK
  <2>4. ASSUME ~busy
        PROVE  Entered' \in Seq(Typed)
    <3>1. Entered' = IF row = 0 THEN <<>> ELSE command_history[row]
      BY <2>1, <2>4, RecallLine
    <3>2. row # 0 => row \in DOMAIN command_history
      BY <2>3
    <3>3. row # 0 => command_history[row] \in Seq(Typed)
      BY <3>2 DEF EnteredInv, HistoryIsTyped
    <3>4. QED
      BY <1>1, <3>1, <3>3
  <2>5. HistoryIsTyped'
    BY <2>2 DEF EnteredInv, HistoryIsTyped
  <2>6. QED
    BY <2>2, <2>4, <2>5 DEF EnteredInv
<1>4. CASE Return
  <2>1. ~busy /\ busy' = TRUE
    BY <1>4 DEF Return, LineInput, SetBusy
  <2>2. GetCurrCommand = Entered
    BY <2>1, PromptPlace DEF GetCurrCommand, Entered
  <2>3. command_history' = Append(command_history, Entered) /\ Entered \in Seq(Typed)
    BY <1>4, <2>1, <2>2 DEF Return, EnteredInv
  <2> DEFINE n == Len(command_history)
  <2>4. command_history \in Seq(Seq(Cell)) /\ n \in Nat /\ DOMAIN command_history = 1..n
    BY LenProperties DEF TypeOK
  <2>5. Entered \in Seq(Cell)
    BY <2>2, CommandType
  <2>6. /\ command_history' \in Seq(Seq(Cell)) /\ Len(command_history') = n + 1
        /\ \A i \in 1..n + 1 : command_history'[i] = IF i <= n THEN command_history[i] ELSE Entered
    BY <2>3, <2>4, <2>5, AppendProperties
  <2>7. DOMAIN command_history' = 1..n + 1
    BY <2>6, LenProperties
  <2> HIDE DEF n
  <2>8. \A i \in 1..n : command_history[i] \in Seq(Typed)
    BY <2>4 DEF EnteredInv, HistoryIsTyped
  <2>9. ASSUME NEW i \in 1..n + 1
        PROVE  command_history'[i] \in Seq(Typed)
    <3>1. i <= n => i \in 1..n
      BY <2>4
    <3>2. QED
      BY <2>3, <2>6, <2>8, <3>1
  <2>10. HistoryIsTyped'
    BY <2>7, <2>9 DEF HistoryIsTyped
  <2>11. QED
    BY <2>1, <2>10 DEF EnteredInv
<1>5. CASE PackageAction \/ Reset
  BY <1>5 DEF PackageAction, SetBusy, Reset, EnteredInv, HistoryIsTyped
<1>6. CASE OtherRequest \/ UNCHANGED vars
  BY <1>6 DEF OtherRequest, vars, EnteredInv, HistoryIsTyped, Entered
<1>7. CASE Answer
  <2>1. Begin(doc) \/ UNCHANGED <<doc, cursor, begin_command_pos, busy>>
    BY <1>7 DEF Answer, BeginCommand
  <2>2. HistoryIsTyped'
    BY <1>7 DEF Answer, EnteredInv, HistoryIsTyped
  <2>3. CASE Begin(doc)
    BY <1>1, <2>2, <2>3, BeginPrompt DEF TypeOK, EnteredInv
  <2>4. CASE UNCHANGED <<doc, cursor, begin_command_pos, busy>>
    BY <2>2, <2>4 DEF EnteredInv, Entered
  <2>5. QED
    BY <2>1, <2>3, <2>4
<1>8. CASE ClearContents
  <2>1. <<>> \in Seq(Cell) /\ <<"line">> \in Seq(Cell)
    BY DEF Cell
  <2>2. Entered' = <<>>
    BY <1>8, <2>1, BeginPrompt DEF ClearContents
  <2>3. HistoryIsTyped'
    BY <1>8 DEF ClearContents, EnteredInv, HistoryIsTyped
  <2>4. QED
    BY <1>1, <2>2, <2>3 DEF EnteredInv
<1>9. QED
  BY <1>2, <1>3, <1>4, <1>5, <1>6, <1>7, <1>8, StepKinds

LEMMA EnteredInit == Init => EnteredInv
  BY DEF Init, EnteredInv, HistoryIsTyped

\* What is recorded is what was entered, as long as nothing of InputAbove is entered, nor
\* Return without a prompt.
THEOREM ConsoleHistoryIsTyped ==
  ASSUME LineInput
  PROVE  Spec => []HistoryIsTyped
<1>1. TypeOK /\ PromptStays /\ EnteredInv /\ [Next]_vars => EnteredInv'
  BY EnteredNext
<1>2. SafeInput
  BY DEF LineInput
<1>3. EnteredInv => HistoryIsTyped
  BY DEF EnteredInv
<1>4. Spec => []PromptStays
  BY <1>2, ConsolePromptStays
<1>5. QED
  BY ConsoleTypes, EnteredInit, <1>1, <1>3, <1>4, PTL DEF Spec

-----------------------------------------------------------------------------
\* The commands among the requests out, each in a list of its own.
Texts(out) == [i \in DOMAIN out |-> IF out[i] = Other THEN <<>> ELSE <<out[i].text>>]

ExecutingOf(out) == FlattenSeq(Texts(out))

LEMMA TextsType ==
  ASSUME NEW out \in Seq(Request)
  PROVE  /\ Texts(out) \in Seq(Seq(Seq(Cell))) /\ Len(Texts(out)) = Len(out)
         /\ \A i \in 1..Len(out) :
              Texts(out)[i] = IF out[i] = Other THEN <<>> ELSE <<out[i].text>>
<1> DEFINE n == Len(out)
           T == Texts(out)
<1>1. n \in Nat /\ DOMAIN out = 1..n /\ \A i \in 1..n : out[i] \in Request
  BY LenProperties, ElementOfSeq
<1>2. T = [i \in 1..n |-> IF out[i] = Other THEN <<>> ELSE <<out[i].text>>]
  BY <1>1 DEF Texts
<1> HIDE DEF n, T
<1>3. ASSUME NEW i \in 1..n
      PROVE  T[i] \in Seq(Seq(Cell))
  <2>1. out[i].text \in Seq(Cell)
    BY <1>1 DEF Request
  <2>2. <<>> \in Seq(Seq(Cell)) /\ <<out[i].text>> \in Seq(Seq(Cell))
    BY <2>1, EmptySeq
  <2>3. QED
    BY <1>2, <2>2
<1>4. T \in Seq(Seq(Seq(Cell))) /\ Len(T) = n
  <2>1. T \in [1..n -> Seq(Seq(Cell))]
    BY <1>2, <1>3
  <2>2. T \in UNION {[1..k -> Seq(Seq(Cell))] : k \in Nat}
    BY <1>1, <2>1
  <2>3. T \in Seq(Seq(Seq(Cell)))
    BY <2>2, SeqDef
  <2>4. DOMAIN T = 1..n /\ DOMAIN T = 1..Len(T) /\ Len(T) \in Nat
    BY <2>1, <2>3, LenProperties
  <2>5. Len(T) = n
    BY <1>1, <2>4
  <2>6. QED
    BY <2>3, <2>5
<1>5. QED
  BY <1>2, <1>4 DEF n, T

LEMMA ExecutingConcat ==
  ASSUME NEW a \in Seq(Request), NEW b \in Seq(Request)
  PROVE  ExecutingOf(a \o b) = ExecutingOf(a) \o ExecutingOf(b)
<1> DEFINE m == Len(a)
           n == Len(b)
           ab == a \o b
           X == Texts(ab)
           x == Texts(a)
           y == Texts(b)
           Y == x \o y
<1>1. m \in Nat /\ n \in Nat
  BY LenProperties
<1>2. /\ ab \in Seq(Request) /\ Len(ab) = m + n
      /\ \A i \in 1..m + n : ab[i] = IF i <= m THEN a[i] ELSE b[i - m]
  BY ConcatProperties
<1>3. x \in Seq(Seq(Seq(Cell))) /\ Len(x) = m
      /\ \A i \in 1..m : x[i] = IF a[i] = Other THEN <<>> ELSE <<a[i].text>>
  BY TextsType
<1>4. y \in Seq(Seq(Seq(Cell))) /\ Len(y) = n
      /\ \A i \in 1..n : y[i] = IF b[i] = Other THEN <<>> ELSE <<b[i].text>>
  BY TextsType
<1> HIDE DEF m, n, ab, x, y
<1>5. X \in Seq(Seq(Seq(Cell))) /\ Len(X) = m + n
      /\ \A i \in 1..m + n : X[i] = IF ab[i] = Other THEN <<>> ELSE <<ab[i].text>>
  BY <1>2, TextsType
<1> HIDE DEF X
<1>6. Y \in Seq(Seq(Seq(Cell))) /\ Len(Y) = m + n
      /\ \A i \in 1..m + n : Y[i] = IF i <= m THEN x[i] ELSE y[i - m]
  <2>1. x \in Seq(Seq(Seq(Cell))) /\ y \in Seq(Seq(Seq(Cell)))
    BY <1>3, <1>4
  <2>2. /\ Y \in Seq(Seq(Seq(Cell))) /\ Len(Y) = Len(x) + Len(y)
        /\ \A i \in 1..Len(x) + Len(y) : Y[i] = IF i <= Len(x) THEN x[i] ELSE y[i - Len(x)]
    BY <2>1, ConcatProperties
  <2>3. Len(x) = m /\ Len(y) = n
    BY <1>3, <1>4
  <2> HIDE DEF Y
  <2>4. QED
    BY <2>2, <2>3, Zenon
<1> HIDE DEF Y
<1>7. ASSUME NEW i \in 1..m + n
      PROVE  X[i] = Y[i]
  <2>1. CASE i <= m
    <3>1. i \in 1..m /\ ab[i] = a[i]
      BY <1>1, <1>2, <2>1
    <3>2. X[i] = IF a[i] = Other THEN <<>> ELSE <<a[i].text>>
      BY <1>5, <3>1
    <3>3. Y[i] = x[i]
      BY <1>6, <2>1
    <3>4. QED
      BY <1>3, <3>1, <3>2, <3>3
  <2>2. CASE ~(i <= m)
    <3>1. i - m \in 1..n /\ ab[i] = b[i - m]
      BY <1>1, <1>2, <2>2
    <3>2. X[i] = IF b[i - m] = Other THEN <<>> ELSE <<b[i - m].text>>
      BY <1>5, <3>1
    <3>3. Y[i] = y[i - m]
      BY <1>6, <2>2
    <3>4. QED
      BY <1>4, <3>1, <3>2, <3>3
  <2>3. QED
    BY <2>1, <2>2
<1>8. X = Y
  BY <1>5, <1>6, <1>7, SeqEqual
<1>9. FlattenSeq(x \o y) = FlattenSeq(x) \o FlattenSeq(y)
  BY <1>3, <1>4, FlattenConcat
<1>10. QED
  BY <1>8, <1>9 DEF ExecutingOf, X, Y, ab, x, y

LEMMA ExecutingShort ==
  /\ ExecutingOf(<<>>) = <<>>
  /\ \A r \in Request : ExecutingOf(<<r>>) = IF r = Other THEN <<>> ELSE <<r.text>>
<1>1. Texts(<<>>) = <<>>
  BY DEF Texts
<1>2. ASSUME NEW r \in Request
      PROVE  ExecutingOf(<<r>>) = IF r = Other THEN <<>> ELSE <<r.text>>
  <2> DEFINE text == IF r = Other THEN <<>> ELSE <<r.text>>
  <2>1. text \in Seq(Seq(Cell))
    <3>1. r.text \in Seq(Cell)
      BY DEF Request
    <3>2. <<>> \in Seq(Seq(Cell)) /\ <<r.text>> \in Seq(Seq(Cell))
      BY <3>1, EmptySeq
    <3>3. QED
      BY <3>2
  <2>2. Texts(<<r>>) = <<text>>
    BY DEF Texts
  <2> HIDE DEF text
  <2>3. FlattenSeq(<<text>>) = text
    BY <2>1, FlattenOne
  <2>4. QED
    BY <2>2, <2>3 DEF ExecutingOf, text
<1>3. QED
  BY <1>1, <1>2, FlattenEmpty DEF ExecutingOf

LEMMA ExecutingType ==
  ASSUME NEW out \in Seq(Request)
  PROVE  ExecutingOf(out) \in Seq(Seq(Cell))
  BY TextsType, FlattenType DEF ExecutingOf

\* Requests that are not commands change nothing, a command is the last to be executed.
LEMMA ExecutingAppend ==
  ASSUME NEW out \in Seq(Request), NEW r \in Request
  PROVE  ExecutingOf(Append(out, r))
           = IF r = Other THEN ExecutingOf(out) ELSE Append(ExecutingOf(out), r.text)
<1> DEFINE e == ExecutingOf(out)
<1>1. <<r>> \in Seq(Request) /\ Append(out, r) = out \o <<r>>
  BY AppendIsConcat
<1>2. e \in Seq(Seq(Cell))
  BY ExecutingType
<1>3. r.text \in Seq(Cell)
  BY DEF Request
<1>4. ExecutingOf(out \o <<r>>) = e \o ExecutingOf(<<r>>)
  BY <1>1, ExecutingConcat
<1> HIDE DEF e
<1>5. CASE r = Other
  <2>1. ExecutingOf(<<r>>) = <<>>
    BY <1>5, ExecutingShort
  <2>2. e \o <<>> = e
    BY <1>2, ConcatEmptySeq
  <2>3. QED
    BY <1>1, <1>4, <1>5, <2>1, <2>2 DEF e
<1>6. CASE r # Other
  <2>1. ExecutingOf(<<r>>) = <<r.text>>
    BY <1>6, ExecutingShort
  <2>2. Append(e, r.text) = e \o <<r.text>>
    BY <1>2, <1>3, AppendIsConcat
  <2>3. QED
    BY <1>1, <1>4, <1>6, <2>1, <2>2 DEF e
<1>7. QED
  BY <1>5, <1>6

\* The oldest request is answered.
LEMMA ExecutingTail ==
  ASSUME NEW out \in Seq(Request), out # <<>>
  PROVE  \/ ExecutingOf(Tail(out)) = ExecutingOf(out)
         \/ ExecutingOf(out) # <<>> /\ ExecutingOf(Tail(out)) = Tail(ExecutingOf(out))
<1> DEFINE h == Head(out)
           t == Tail(out)
           e == ExecutingOf(t)
<1>1. h \in Request /\ t \in Seq(Request)
  BY HeadTailProperties
<1>2. out = <<h>> \o t
  <2>1. 1 \in 1..Len(out) /\ Len(out) \in 1..Len(out)
    BY EmptySeq, LenProperties
  <2>2. SubSeq(out, 1, Len(out)) = <<out[1]>> \o SubSeq(out, 1 + 1, Len(out))
    BY <2>1, SubSeqRecursiveFirst
  <2>3. SubSeq(out, 1, Len(out)) = out /\ t = SubSeq(out, 2, Len(out)) /\ h = out[1]
    BY SubSeqFull, TailIsSubSeq
  <2>4. QED
    BY <2>2, <2>3
<1> HIDE DEF h, t
<1>3. <<h>> \in Seq(Request)
  BY <1>1
<1>4. ExecutingOf(out) = ExecutingOf(<<h>>) \o e
  BY <1>1, <1>2, <1>3, ExecutingConcat
<1>5. e \in Seq(Seq(Cell))
  BY <1>1, ExecutingType
<1> HIDE DEF e
<1>6. CASE h = Other
  <2>1. ExecutingOf(<<h>>) = <<>> /\ <<>> \o e = e
    BY <1>1, <1>5, <1>6, ExecutingShort, ConcatEmptySeq
  <2>2. QED
    BY <1>4, <2>1 DEF e, t
<1>7. CASE h # Other
  <2> DEFINE x == h.text
             l == <<x>>
             le == l \o e
  <2>1. ExecutingOf(<<h>>) = l /\ x \in Seq(Cell)
    BY <1>1, <1>7, ExecutingShort DEF Request
  <2> HIDE DEF x
  <2>2. l \in Seq(Seq(Cell)) /\ Len(l) = 1
    BY <2>1
  <2> HIDE DEF l
  <2>3. /\ le \in Seq(Seq(Cell)) /\ Len(le) = 1 + Len(e)
        /\ \A i \in 1..1 + Len(e) : le[i] = IF i <= 1 THEN l[i] ELSE e[i - 1]
    <3>1. /\ le \in Seq(Seq(Cell)) /\ Len(le) = Len(l) + Len(e)
          /\ \A i \in 1..Len(l) + Len(e) : le[i] = IF i <= Len(l) THEN l[i] ELSE e[i - Len(l)]
      BY <1>5, <2>2, ConcatProperties
    <3> HIDE DEF le
    <3>2. QED
      BY <2>2, <3>1
  <2> HIDE DEF le
  <2>4. Len(e) \in Nat /\ le # <<>>
    BY <1>5, <2>3, LenProperties, EmptySeq
  <2>5. /\ Tail(le) \in Seq(Seq(Cell)) /\ Len(Tail(le)) = Len(e)
        /\ \A i \in 1..Len(e) : Tail(le)[i] = le[i + 1]
    BY <2>3, <2>4, HeadTailProperties
  <2>6. \A i \in 1..Len(e) : le[i + 1] = e[i]
    <3>1. \A i \in 1..Len(e) : i + 1 \in 1..1 + Len(e) /\ ~(i + 1 <= 1) /\ (i + 1) - 1 = i
      BY <2>4
    <3>2. QED
      BY <2>3, <3>1
  <2>7. Tail(le) = e
    BY <1>5, <2>5, <2>6, SeqEqual
  <2>8. QED
    BY <1>4, <2>1, <2>4, <2>7 DEF le, e, t
<1>8. QED
  BY <1>6, <1>7

-----------------------------------------------------------------------------
\* The state of the prompt line: what Line has for its line and for what is executed.
LineNow == IF busy THEN <<>> ELSE Entered

LEMMA LineState == Executing = ExecutingOf(outstanding) /\ (busy \/ ~busy => LineNow \in {<<>>, Entered})
  BY DEF Executing, ExecutingOf, Texts, LineNow

\* Requests of the rest of the IDE execute nothing of the console.
LEMMA ExecutingOthers ==
  /\ <<Other>> \in Seq(Request) /\ <<Other, Other>> \in Seq(Request)
  /\ ExecutingOf(<<Other>>) = <<>> /\ ExecutingOf(<<Other, Other>>) = <<>>
<1> DEFINE o == Other
<1>1. o \in Request
  BY EmptySeq DEF Other, Request
<1> HIDE DEF o
<1>2. /\ <<o>> \in Seq(Request) /\ Len(<<o>>) = 1 /\ <<o>>[1] = o
      /\ <<o, o>> \in Seq(Request) /\ Len(<<o, o>>) = 2 /\ <<o, o>>[1] = o /\ <<o, o>>[2] = o
  BY <1>1
<1>3. Append(<<o>>, o) = <<o, o>>
  <2> DEFINE a == <<o>>
             b == <<o, o>>
             c == Append(a, o)
  <2>1. /\ a \in Seq(Request) /\ Len(a) = 1 /\ a[1] = o
        /\ b \in Seq(Request) /\ Len(b) = 2 /\ b[1] = o /\ b[2] = o
    BY <1>2
  <2> HIDE DEF a, b
  <2>2. /\ c \in Seq(Request) /\ Len(c) = Len(a) + 1
        /\ \A i \in 1..Len(a) : c[i] = a[i]
        /\ c[Len(a) + 1] = o
    <3>1. a \in Seq(Request)
      BY <2>1
    <3>2. QED
      BY <1>1, <3>1, AppendProperties
  <2> HIDE DEF c
  <2>3. Len(c) = 2 /\ \A i \in 1..Len(c) : c[i] = b[i]
    BY <2>1, <2>2
  <2>4. c = b
    BY <2>1, <2>2, <2>3, SeqEqual
  <2>5. QED
    BY <2>4 DEF a, b, c
<1>4. ExecutingOf(<<o>>) = <<>>
  BY <1>1, ExecutingShort DEF o
<1>5. ExecutingOf(Append(<<o>>, o)) = ExecutingOf(<<o>>)
  BY <1>1, <1>2, ExecutingAppend DEF o
<1>6. QED
  BY <1>2, <1>3, <1>4, <1>5 DEF o

LEMMA LineInit == Init => Line!Init
<1> SUFFICES ASSUME Init PROVE Line!Init
  OBVIOUS
<1>1. Executing = <<>>
  BY ExecutingOthers, LineState DEF Init
<1>2. QED
  BY <1>1 DEF Init, Line!Init

\* The prompt line stutters when nothing of it changes.
LEMMA LineStutters ==
  ASSUME busy' = busy, LineNow' = LineNow, command_history' = command_history,
         Executing' = Executing
  PROVE  UNCHANGED Line!pvars
  BY DEF Line!pvars, LineNow, Entered

LineStep == Line!Next \/ UNCHANGED Line!pvars

LEMMA EditIsLineStep ==
  ASSUME TypeOK, PromptStays, SafeInput, Edits
  PROVE  LineStep
<1>1. busy' = busy /\ command_history' = command_history /\ Executing' = Executing
  BY DEF Edits, RestUnchanged, Executing
<1>2. CASE busy
  BY <1>1, <1>2, LineStutters DEF LineStep, LineNow
<1>3. CASE ~busy
  <2>1. PICK i \in 0..Len(Entered), k \in 0..Len(Entered), t \in Inserted :
          i + k <= Len(Entered) /\ Entered' = Spliced(Entered, i, k, t)
    BY <1>3, EditLine
  <2>2. Line!Splice(Entered, i, k, t) = Spliced(Entered, i, k, t)
    BY DEF Line!Splice, Spliced
  <2>3. Line!Edit
    <3>1. t \in Line!Piece
      BY DEF Inserted, Typed, Line!Piece
    <3>2. \E j, m \in 0..Len(Entered), u \in Line!Piece :
            j + m <= Len(Entered) /\ Entered' = Line!Splice(Entered, j, m, u)
      BY <2>1, <2>2, <3>1
    <3>3. QED
      BY <1>1, <1>3, <3>2 DEF Line!Edit, Entered
  <2>4. QED
    BY <2>3 DEF LineStep, Line!Next
<1>4. QED
  BY <1>2, <1>3 DEF TypeOK

LEMMA RecallIsLineStep ==
  ASSUME TypeOK, PromptStays, Recalls
  PROVE  LineStep
<1>1. PICK row \in 0..Len(command_history) : SetCurrCommand(row)
  BY DEF Recalls
<1>2. busy' = busy /\ command_history' = command_history /\ Executing' = Executing
  BY <1>1 DEF SetCurrCommand, Executing
<1>3. CASE busy
  BY <1>2, <1>3, LineStutters DEF LineStep, LineNow
<1>4. CASE ~busy
  <2>1. Entered' = IF row = 0 THEN <<>> ELSE command_history[row]
    BY <1>1, <1>4, RecallLine
  <2>2. row # 0 => row \in DOMAIN command_history
    BY LenProperties DEF TypeOK
  <2>3. Line!Edit
    BY <1>2, <1>4, <2>1, <2>2 DEF Line!Edit, Entered
  <2>4. QED
    BY <2>3 DEF LineStep, Line!Next
<1>5. QED
  BY <1>3, <1>4 DEF TypeOK

LEMMA ReturnIsLineStep ==
  ASSUME TypeOK, PromptStays, LineInput, Return
  PROVE  LineStep
<1>1. ~busy /\ busy' = TRUE
  BY DEF Return, LineInput, SetBusy
<1>2. GetCurrCommand = Entered
  BY <1>1, PromptPlace DEF GetCurrCommand, Entered
<1>3. /\ command_history' = Append(command_history, Entered)
      /\ outstanding' = Append(outstanding, Command(Entered))
      /\ Entered \in Seq(Cell)
  BY <1>2, CommandType DEF Return
<1>4. Command(Entered) \in Request /\ Command(Entered) # Other /\ Command(Entered).text = Entered
  BY <1>3, OutstandingType DEF Command, Other
<1>5. Executing' = Append(Executing, Entered)
  <2>1. outstanding \in Seq(Request)
    BY OutstandingType
  <2>2. ExecutingOf(outstanding') = Append(ExecutingOf(outstanding), Entered)
    BY <1>3, <1>4, <2>1, ExecutingAppend
  <2>3. QED
    BY <2>2, LineState DEF Executing, ExecutingOf, Texts
<1>6. Line!Submit
  BY <1>1, <1>3, <1>5 DEF Line!Submit, Entered
<1>7. QED
  BY <1>6 DEF LineStep, Line!Next

LEMMA PackageActionIsLineStep ==
  ASSUME TypeOK, PackageAction
  PROVE  LineStep
<1>1. /\ busy' = TRUE /\ command_history' = command_history
      /\ outstanding' = outstanding \o <<Other, Other>>
  BY DEF PackageAction, SetBusy
<1>2. Executing' = Executing
  <2> DEFINE e == ExecutingOf(outstanding)
  <2>1. outstanding \in Seq(Request) /\ e \in Seq(Seq(Cell))
    BY OutstandingType, ExecutingType
  <2>2. ExecutingOf(outstanding \o <<Other, Other>>) = e \o ExecutingOf(<<Other, Other>>)
    BY <2>1, ExecutingOthers, ExecutingConcat
  <2> HIDE DEF e
  <2>3. e \o <<>> = e
    BY <2>1, ConcatEmptySeq
  <2>4. ExecutingOf(outstanding') = ExecutingOf(outstanding)
    BY <1>1, <2>2, <2>3, ExecutingOthers DEF e
  <2>5. QED
    BY <2>4 DEF Executing, ExecutingOf, Texts
<1>3. CASE busy
  BY <1>1, <1>2, <1>3, LineStutters DEF LineStep, LineNow
<1>4. CASE ~busy
  <2>1. Line!Interrupt
    BY <1>1, <1>2, <1>4 DEF Line!Interrupt
  <2>2. QED
    BY <2>1 DEF LineStep, Line!Next
<1>5. QED
  BY <1>3, <1>4

LEMMA OtherRequestIsLineStep ==
  ASSUME TypeOK, OtherRequest
  PROVE  LineStep
<1>1. ExecutingOf(outstanding') = ExecutingOf(outstanding)
  <2>1. outstanding \in Seq(Request) /\ Other \in Request
    BY OutstandingType
  <2>2. ExecutingOf(Append(outstanding, Other)) = ExecutingOf(outstanding)
    BY <2>1, ExecutingAppend
  <2>3. QED
    BY <2>2 DEF OtherRequest
<1>2. Executing' = Executing
  BY <1>1 DEF Executing, ExecutingOf, Texts
<1>3. UNCHANGED <<doc, begin_command_pos, busy, command_history>>
  BY DEF OtherRequest
<1>4. QED
  BY <1>2, <1>3, LineStutters DEF LineStep, LineNow, Entered

LEMMA AnswerIsLineStep ==
  ASSUME TypeOK, Answer
  PROVE  LineStep
<1>1. /\ outstanding # <<>> /\ outstanding' = Tail(outstanding)
      /\ command_history' = command_history /\ outstanding \in Seq(Request)
  BY OutstandingType DEF Answer
<1>2. CASE Tail(outstanding) = <<>> /\ busy
  <2>1. Begin(doc) /\ busy' = FALSE
    BY <1>2 DEF Answer, BeginCommand, Begin
  <2>2. Entered' = <<>>
    BY <2>1, BeginPrompt DEF TypeOK
  <2>3. Len(ExecutingOf(outstanding)) <= 1
    <3> DEFINE h == Head(outstanding)
               e == ExecutingOf(outstanding)
    <3>1. h \in Request /\ outstanding = <<h>>
      <4>1. h \in Request /\ Len(Tail(outstanding)) = Len(outstanding) - 1
        BY <1>1, HeadTailProperties
      <4>2. Len(outstanding) = 1
        BY <1>1, <1>2, <4>1, LenProperties, EmptySeq
      <4>3. QED
        BY <1>1, <4>1, <4>2
    <3> HIDE DEF h
    <3> DEFINE x == h.text
    <3>2. e = <<>> \/ e = <<x>>
      BY <3>1, ExecutingShort
    <3> HIDE DEF e, x
    <3>3. Len(<<>>) = 0 /\ Len(<<x>>) = 1
      OBVIOUS
    <3>4. \A k \in {0, 1} : k <= 1
      OBVIOUS
    <3>5. Len(e) <= 1
      BY <3>2, <3>3, <3>4, Zenon
    <3>6. QED
      BY <3>5 DEF e
  <2>4. ExecutingOf(outstanding') = <<>>
    BY <1>1, <1>2, ExecutingShort
  <2>5. Len(Executing) <= 1 /\ Executing' = <<>>
    BY <2>3, <2>4 DEF Executing, ExecutingOf, Texts
  <2>6. Line!ShowPrompt
    BY <1>1, <1>2, <2>1, <2>2, <2>5 DEF Line!ShowPrompt, Entered
  <2>7. QED
    BY <2>6 DEF LineStep, Line!Next
<1>3. CASE ~(Tail(outstanding) = <<>> /\ busy)
  <2>1. UNCHANGED <<doc, cursor, begin_command_pos, busy>>
    BY <1>3 DEF Answer, BeginCommand
  <2>2. \/ ExecutingOf(outstanding') = ExecutingOf(outstanding)
        \/ ExecutingOf(outstanding) # <<>>
           /\ ExecutingOf(outstanding') = Tail(ExecutingOf(outstanding))
    BY <1>1, ExecutingTail
  <2>3. Executing' = Executing \/ (Executing # <<>> /\ Executing' = Tail(Executing))
    BY <2>2 DEF Executing, ExecutingOf, Texts
  <2>4. CASE Executing' = Executing
    BY <1>1, <2>1, <2>4, LineStutters DEF LineStep, LineNow, Entered
  <2>5. CASE Executing # <<>> /\ Executing' = Tail(Executing)
    <3>1. Line!Answered
      BY <1>1, <2>1, <2>5 DEF Line!Answered
    <3>2. QED
      BY <3>1 DEF LineStep, Line!Next
  <2>6. QED
    BY <2>3, <2>4, <2>5
<1>4. QED
  BY <1>2, <1>3

LEMMA ClearContentsIsLineStep ==
  ASSUME ClearContents
  PROVE  LineStep
<1>1. PICK d \in Seq(Cell) : Begin(d)
  <2>1. <<>> \in Seq(Cell) /\ <<"line">> \in Seq(Cell)
    BY DEF Cell
  <2>2. QED
    BY <2>1 DEF ClearContents
<1>2. busy' = FALSE /\ Entered' = <<>>
  BY <1>1, BeginPrompt DEF Begin
<1>3. command_history' = command_history /\ Executing' = Executing
  BY DEF ClearContents, Executing
<1>4. Line!Clear
  BY <1>2, <1>3 DEF Line!Clear, Entered
<1>5. QED
  BY <1>4 DEF LineStep, Line!Next

LEMMA ResetIsLineStep ==
  ASSUME Reset
  PROVE  LineStep
<1>1. busy' = TRUE /\ command_history' = command_history /\ outstanding' = <<Other>>
  BY DEF Reset
<1>2. ExecutingOf(outstanding') = <<>>
  BY <1>1, ExecutingOthers
<1>3. Executing' = <<>>
  BY <1>2 DEF Executing, ExecutingOf, Texts
<1>4. Line!Restart
  BY <1>1, <1>3 DEF Line!Restart
<1>5. QED
  BY <1>4 DEF LineStep, Line!Next

LEMMA LineNext ==
  ASSUME TypeOK, PromptStays, LineInput, [Next]_vars
  PROVE  LineStep
<1>1. SafeInput
  BY DEF LineInput
<1>2. CASE Moves \/ UNCHANGED vars
  <2>1. UNCHANGED <<doc, begin_command_pos, busy, command_history, outstanding>>
    BY <1>2 DEF Moves, RestUnchanged, vars
  <2>2. QED
    BY <2>1, LineStutters DEF LineStep, LineNow, Entered, Executing
<1>3. CASE Next
  BY <1>1, <1>2, <1>3, StepKinds, EditIsLineStep, RecallIsLineStep, ReturnIsLineStep,
     PackageActionIsLineStep, OtherRequestIsLineStep, AnswerIsLineStep,
     ClearContentsIsLineStep, ResetIsLineStep
<1>4. QED
  BY <1>2, <1>3

\* The console is the prompt line of PromptLine: every key, answer, clear and reset does to
\* the line, the history and what is executed what one of its actions does, or nothing.
THEOREM ConsoleImplementsPromptLine ==
  ASSUME LineInput
  PROVE  Spec => ImplementsPromptLine
<1>1. TypeOK /\ PromptStays /\ [Next]_vars => [Line!Next]_(Line!pvars)
  BY LineNext DEF LineStep
<1>2. Spec => []PromptStays
  BY ConsolePromptStays DEF LineInput
<1>3. QED
  BY ConsoleTypes, LineInit, <1>1, <1>2, PTL DEF Spec, ImplementsPromptLine, Line!Spec
=============================================================================
