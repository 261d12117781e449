--------------------------- MODULE MessageFraming ----------------------------
(***************************************************************************)
(* How one request gets from EvaluatorMessage::toBytes (ievaluator.h) to    *)
(* JSON.parse(io) of the Julia side.  toBytes builds the JSON text by hand  *)
(* and streams it behind its length; the reader knows of no length and      *)
(* takes the first bracket it meets for the beginning of the message.  It   *)
(* reads UTF-8 characters, so the length's bytes may be a bracket or take   *)
(* the characters behind them along.  Characters are abstracted to the      *)
(* kinds either side tells apart.                                           *)
(***************************************************************************)
EXTENDS Naturals, Sequences, SequencesExt, TLC

CONSTANTS
  Alphabet,  \* the characters of the texts sent
  MaxText,   \* bound on the length of those texts
  Extra,     \* numbers of further plain characters in a message, not modelled one by one
  Overhead   \* characters of a message around its text: 33 for an "eval"

ASSUME FramingAssumption ==
  /\ Alphabet \subseteq {"a", "wide", "quote", "backslash", "separator", "{", "}", "[", "]"}
  /\ MaxText \in Nat
  /\ Extra \subseteq Nat
  /\ Overhead \in Nat

VARIABLES
  text,      \* the text sent, a sequence of characters
  stream,    \* what is sent and not read
  open,      \* determine_bracket_type's bracket, "none" before there is one
  needed,    \* num_brackets_needed
  inString,  \* consumeString is running
  escaped,   \* ... and has read a backslash
  obj,       \* what parse has collected
  received   \* the texts parsed so far, the last one only: a sequence of at most one

vars == <<text, stream, open, needed, inString, escaped, obj, received>>

Char == Alphabet \union {"byte", "NUL", "a", "quote", "backslash", "newline", "{", "}", "[", "]"}

\* The text as it is meant to arrive: QTextCursor's paragraph separators are line breaks.
Meant(t) == [i \in DOMAIN t |-> IF t[i] = "separator" THEN "newline" ELSE t[i]]

\* toBytes puts a backslash before every quote and backslash of a parameter.
Escaped(t) ==
  FlattenSeq([i \in DOMAIN t |->
    IF t[i] \in {"quote", "backslash"} THEN <<"backslash", t[i]>> ELSE <<t[i]>>])

Wide(t) == Len(SelectSeq(t, LAMBDA c : c = "wide"))

\* Mutant of Padding: every length will do.
NoPadding(size) == 0

\* "if ( msg.size() == 90 ) msg += " "": a blank keeps one length from being sent.
Padding(size) == IF size = 90 THEN 1 ELSE 0

\* utf8_trailing of Julia: the bytes that follow byte b in a character.
Trailing(b) ==
  CASE b \in 192..223 -> 1
    [] b \in 224..239 -> 2
    [] b \in 240..247 -> 3
    [] b \in 248..251 -> 4
    [] b >= 252       -> 5
    [] OTHER          -> 0

\* What read(io, Char) makes of the bytes from i on.  Five or six of them make no
\* character that matters.
Code(b, i) ==
  CASE Trailing(b[i]) = 0 -> b[i]
    [] Trailing(b[i]) = 1 -> 64 * b[i] + b[i + 1] - 12416
    [] Trailing(b[i]) = 2 -> 4096 * b[i] + 64 * b[i + 1] + b[i + 2] - 925824
    [] Trailing(b[i]) = 3 -> 262144 * b[i] + 4096 * b[i + 1] + 64 * b[i + 2] + b[i + 3] - 63447168
    [] OTHER              -> 256

Kind(code) ==
  CASE code = 0   -> "NUL"
    [] code = 34  -> "quote"
    [] code = 91  -> "["
    [] code = 92  -> "backslash"
    [] code = 93  -> "]"
    [] code = 123 -> "{"
    [] code = 125 -> "}"
    [] OTHER      -> "byte"

\* QDataStream writes the number n of bytes, of the UTF-8 text and its final NUL, in
\* front: four bytes, the lowest first.  The text begins with {"m.
FirstBytes(n) ==
  <<n % 256, (n \div 256) % 256, (n \div 65536) % 256, (n \div 16777216) % 256, 123, 34, 109>>

\* The bytes the character under way at byte i of the length is still to take.
Due(n) ==
  LET due[i \in 0..4] == IF i = 0 THEN 0
                         ELSE IF due[i - 1] > 0 THEN due[i - 1] - 1
                         ELSE Trailing(FirstBytes(n)[i])
  IN  due

\* The length as characters; the further bytes of a character are no characters.
LengthChars(n) ==
  [i \in 1..4 |-> IF Due(n)[i - 1] = 0 THEN Kind(Code(FirstBytes(n), i)) ELSE "byte"]

Opening == <<"{", "quote", "a", "a", "quote", "[", "quote">>
Ending  == <<"quote", "]", "}", "NUL">>

\* {"msgtype": "eval","data": ["..." ]} with extra more characters, of which those the
\* last character of the length takes are gone.
Message(t, extra) ==
  LET enc  == Escaped(Meant(t))
      size == Overhead + extra + Len(enc)
      n    == size + Padding(size) + Wide(t) + 1
      body == Opening \o enc \o Ending
  IN  LengthChars(n) \o SubSeq(body, Due(n)[4] + 1, Len(body))

-----------------------------------------------------------------------------
Init ==
  /\ text = <<>>
  /\ stream = <<>>
  /\ open = "none"
  /\ needed = 0
  /\ inString = FALSE
  /\ escaped = FALSE
  /\ obj = <<>>
  /\ received = <<text>>

\* The evaluator writes a message when the last one has been answered.
Write ==
  /\ received # <<>>
  /\ received' = <<>>
  /\ text' \in SeqOf(Alphabet, MaxText)
  /\ \E extra \in Extra : stream' = stream \o Message(text', extra)
  /\ UNCHANGED <<open, needed, inString, escaped, obj>>

\* Mutant of FindBracket: the bracket found is not counted.
FindBracketUncounted ==
  /\ open = "none"
  /\ stream # <<>>
  /\ stream' = Tail(stream)
  /\ IF Head(stream) \in {"{", "["}
     THEN open' = Head(stream) /\ obj' = <<Head(stream)>>
     ELSE UNCHANGED <<open, obj>>
  /\ UNCHANGED <<text, needed, inString, escaped, received>>

\* determine_bracket_type skips everything in front of the first bracket.
FindBracket ==
  /\ open = "none"
  /\ stream # <<>>
  /\ stream' = Tail(stream)
  /\ IF Head(stream) \in {"{", "["}
     THEN open' = Head(stream) /\ needed' = 1 /\ obj' = <<Head(stream)>>
     ELSE UNCHANGED <<open, needed, obj>>
  /\ UNCHANGED <<text, inString, escaped, received>>

Close == IF open = "{" THEN "}" ELSE "]"

\* The first bracket of a message has been found, and there is more to read.
InMessage == open # "none" /\ stream # <<>>

\* The next character is read.  An error ends the reader's task: nothing of what is
\* sent will be read.
Read(error) == stream' = IF error THEN <<>> ELSE Tail(stream)

\* consumeString goes to the closing quote; no bracket counts in there.
ConsumeString ==
  /\ InMessage
  /\ inString
  /\ Read(Head(stream) = "NUL")
  /\ obj' = Append(obj, Head(stream))
  /\ escaped' = (Head(stream) = "backslash" /\ ~escaped)
  /\ inString' = (Head(stream) # "quote" \/ escaped)
  /\ UNCHANGED <<text, open, needed, received>>

\* Mutant of Unescaped: the backslash stays.
UnescapedKeeping(s) == s

\* parse_string on what stands between two quotes: what it has made of the first i
\* characters, and whether the next one is escaped.
Unescaped(s) ==
  LET read[i \in 0..Len(s)] ==
        IF i = 0 THEN [out |-> <<>>, esc |-> FALSE]
        ELSE IF s[i] = "backslash" /\ ~read[i - 1].esc
               THEN [out |-> read[i - 1].out, esc |-> TRUE]
               ELSE [out |-> Append(read[i - 1].out, s[i]), esc |-> FALSE]
  IN  read[Len(s)].out

\* Without msgtype and data there is no message (read_message).
IsMessage(o) == IsPrefix(Opening, o)

\* The text of a whole message: the string after the key and its two brackets.
DataOf(o) == Unescaped(SubSeq(o, Len(Opening) + 1, Len(o) - 3))

\* parse outside of strings: brackets of the kind found first are counted, and the last
\* of them ends the message.
CountBrackets ==
  /\ InMessage
  /\ ~inString
  /\ inString' = (Head(stream) = "quote")
  /\ LET c    == Head(stream)
         o    == Append(obj, c)
         left == CASE c = open  -> needed + 1
                   [] c = Close -> needed - 1
                   [] OTHER     -> needed
     IN  /\ Read(left = 0 /\ ~IsMessage(o))
         /\ IF left = 0
            THEN /\ received' = IF IsMessage(o) THEN <<DataOf(o)>> ELSE <<>>
                 /\ open' = "none" /\ needed' = 0 /\ obj' = <<>>
            ELSE /\ needed' = left /\ obj' = o
                 /\ UNCHANGED <<open, received>>
  /\ UNCHANGED <<text, escaped>>

Next == Write \/ FindBracket \/ ConsumeString \/ CountBrackets

Spec == Init /\ [][Next]_vars

-----------------------------------------------------------------------------
\* The types of the variables; and once the reader has found a bracket it counts at least
\* that one, so the count is never below zero.
TypeOK ==
  /\ text \in Seq(Alphabet)
  /\ \A s \in {stream, obj} \union ToSet(received) : s \in Seq(Char)
  /\ Len(received) <= 1
  /\ open \in {"none", "{", "["}
  /\ needed \in Nat
  /\ open # "none" => needed # 0
  /\ inString \in BOOLEAN
  /\ escaped \in BOOLEAN

\* Whatever quotes, backslashes, brackets and line breaks a command has, the handler gets
\* the command, and the reader is then where the next message begins.
ArrivesUnchanged == received # <<>> => received = <<Meant(text)>> /\ open = "none"

\* A message is never left unanswered with nothing more to read: the reader, which knows
\* of no length, has found the end of it.
NeverWaitsForMore == stream = <<>> => received # <<>>
=============================================================================
