------------------------ MODULE MessageFraming_proofs ------------------------
(***************************************************************************)
(* That a request arrives as it was sent, for texts of any length made of   *)
(* any characters: what parse_string makes of an escaped text is the text,  *)
(* and a reader that counts brackets without knowing a length finds the     *)
(* beginning and the end of it, as long as the length in front of it is     *)
(* decoded to no bracket and takes nothing of the message with it.          *)
(***************************************************************************)
EXTENDS MessageFraming, ListFacts

-----------------------------------------------------------------------------
\* parse_string, one character at a time.
Reading == [out : Seq(Char), esc : BOOLEAN]

NothingRead == [out |-> <<>>, esc |-> FALSE]

ReadOne(x, c) ==
  IF c = "backslash" /\ ~x.esc
    THEN [out |-> x.out, esc |-> TRUE]
    ELSE [out |-> Append(x.out, c), esc |-> FALSE]

\* f says what has been made of the first characters of s, up to n of them.
ReadsUpto(f, s, n) ==
  f[0] = NothingRead /\ \A i \in 1..n : f[i] = ReadOne(f[i - 1], s[i])

LEMMA ReadOneType ==
  /\ NothingRead \in Reading
  /\ \A x \in Reading : \A c \in Char : ReadOne(x, c) \in Reading
<1>1. ASSUME NEW x \in Reading, NEW c \in Char
      PROVE  ReadOne(x, c) \in Reading
  <2>1. x.out \in Seq(Char)
    BY DEF Reading
  <2>2. Append(x.out, c) \in Seq(Char)
    BY <2>1, AppendProperties
  <2>3. QED
    BY <2>1, <2>2 DEF Reading, ReadOne
<1>2. NothingRead \in Reading
  BY EmptySeq DEF NothingRead, Reading
<1>3. QED
  BY <1>1, <1>2

\* One character more.
LEMMA ReadsOneMore ==
  ASSUME NEW s, NEW k \in Nat, s[k + 1] \in Char,
         NEW f \in [0..k -> Reading], ReadsUpto(f, s, k)
  PROVE  \E g \in [0..k + 1 -> Reading] : ReadsUpto(g, s, k + 1)
<1> DEFINE more == ReadOne(f[k], s[k + 1])
           g == [j \in 0..k + 1 |-> IF j = k + 1 THEN more ELSE f[j]]
<1>1. f[k] \in Reading
  OBVIOUS
<1>2. more \in Reading
  BY <1>1, ReadOneType
<1>3. more = ReadOne(f[k], s[k + 1])
  OBVIOUS
<1> HIDE DEF more
<1>4. g \in [0..k + 1 -> Reading]
  BY <1>2
<1>5. g[k + 1] = more /\ \A j \in 0..k : g[j] = f[j]
  OBVIOUS
<1> HIDE DEF g
<1>6. ASSUME NEW i \in 1..k + 1
      PROVE  g[i] = ReadOne(g[i - 1], s[i])
  <2>1. CASE i = k + 1
    <3>1. i - 1 = k /\ k \in 0..k
      BY <2>1
    <3>2. g[i] = more /\ g[i - 1] = f[k]
      BY <1>5, <2>1, <3>1
    <3>3. QED
      BY <1>3, <2>1, <3>2
  <2>2. CASE i # k + 1
    <3>1. i \in 1..k /\ i \in 0..k /\ i - 1 \in 0..k
      BY <2>2
    <3>2. f[i] = ReadOne(f[i - 1], s[i])
      BY <3>1 DEF ReadsUpto
    <3>3. QED
      BY <1>5, <3>1, <3>2
  <2>3. QED
    BY <2>1, <2>2
<1>7. g[0] = NothingRead
  BY <1>5 DEF ReadsUpto
<1>8. QED
  BY <1>4, <1>6, <1>7 DEF ReadsUpto

LEMMA ReadsExist ==
  ASSUME NEW s \in Seq(Char)
  PROVE  \E f \in [0..Len(s) -> Reading] : ReadsUpto(f, s, Len(s))
<1> DEFINE n == Len(s)
           Read_(k) == \E f \in [0..k -> Reading] : ReadsUpto(f, s, k)
           T == {k \in Nat : k <= n => Read_(k)}
<1>1. n \in Nat /\ \A i \in 1..n : s[i] \in Char
  BY LenProperties, ElementOfSeq
<1>2. Read_(0)
  <2>1. [j \in 0..0 |-> NothingRead] \in [0..0 -> Reading]
    BY ReadOneType
  <2>2. ReadsUpto([j \in 0..0 |-> NothingRead], s, 0)
    BY DEF ReadsUpto
  <2>3. QED
    BY <2>1, <2>2
<1>3. ASSUME NEW k \in Nat, k + 1 <= n, Read_(k)
      PROVE  Read_(k + 1)
  <2>1. s[k + 1] \in Char
    BY <1>1, <1>3
  <2>2. QED
    BY <1>3, <2>1, ReadsOneMore
<1> HIDE DEF Read_, n
<1>4. 0 \in T
  BY <1>2
<1>5. ASSUME NEW k \in Nat, k \in T
      PROVE  k + 1 \in T
  BY <1>1, <1>3, <1>5
<1>6. \A k \in Nat : k \in T
  <2> HIDE DEF T
  <2>1. QED
    BY <1>4, <1>5, SetInduction
<1>7. Read_(n)
  BY <1>1, <1>6
<1>8. QED
  BY <1>7 DEF n, Read_

\* Unescaped is the last of what a reading goes through.
LEMMA UnescapedReads ==
  ASSUME NEW s \in Seq(Char)
  PROVE  \E f \in [0..Len(s) -> Reading] :
           ReadsUpto(f, s, Len(s)) /\ Unescaped(s) = f[Len(s)].out
<1> DEFINE n == Len(s)
           Equation(g) == g = [i \in 0..n |->
             IF i = 0 THEN [out |-> <<>>, esc |-> FALSE]
             ELSE IF s[i] = "backslash" /\ ~g[i - 1].esc
                    THEN [out |-> g[i - 1].out, esc |-> TRUE]
                    ELSE [out |-> Append(g[i - 1].out, s[i]), esc |-> FALSE]]
           read == CHOOSE g : Equation(g)
<1>1. n \in Nat /\ \A i \in 1..n : s[i] \in Char
  BY LenProperties, ElementOfSeq
<1>2. Unescaped(s) = read[n].out
  BY DEF Unescaped
<1>3. PICK f \in [0..n -> Reading] : ReadsUpto(f, s, n)
  BY ReadsExist
<1> HIDE DEF n
<1>4. ASSUME NEW i \in 0..n
      PROVE  f[i] = IF i = 0 THEN [out |-> <<>>, esc |-> FALSE]
                    ELSE IF s[i] = "backslash" /\ ~f[i - 1].esc
                           THEN [out |-> f[i - 1].out, esc |-> TRUE]
                           ELSE [out |-> Append(f[i - 1].out, s[i]), esc |-> FALSE]
  <2>1. CASE i = 0
    BY <1>3, <2>1 DEF ReadsUpto, NothingRead
  <2>2. CASE i # 0
    <3>1. i \in 1..n
      BY <1>1, <2>2
    <3>2. f[i] = ReadOne(f[i - 1], s[i])
      BY <1>3, <3>1 DEF ReadsUpto
    <3>3. QED
      BY <2>2, <3>2 DEF ReadOne
  <2>3. QED
    BY <2>1, <2>2
<1>5. Equation(f)
  BY <1>4
<1>6. Equation(read)
  <2> HIDE DEF Equation
  <2>1. \E g : Equation(g)
    BY <1>5, Zenon
  <2>2. QED
    BY <2>1, Zenon
<1> HIDE DEF read
<1>7. ReadsUpto(read, s, n)
  <2>1. read[0] = NothingRead
    BY <1>1, <1>6 DEF NothingRead
  <2>2. ASSUME NEW i \in 1..n
        PROVE  read[i] = ReadOne(read[i - 1], s[i])
    <3>1. i \in 0..n /\ i # 0
      BY <1>1
    <3>2. QED
      BY <1>6, <3>1 DEF ReadOne
  <2>3. QED
    BY <2>1, <2>2 DEF ReadsUpto
<1>8. \A i \in 0..n : read[i] \in Reading
  <2> DEFINE T == {k \in Nat : k <= n => read[k] \in Reading}
  <2>1. 0 \in T
    BY <1>7, ReadOneType DEF ReadsUpto
  <2>2. ASSUME NEW k \in Nat, k \in T, k + 1 <= n
        PROVE  read[k + 1] \in Reading
    <3>1. k + 1 \in 1..n /\ (k + 1) - 1 = k /\ k <= n
      BY <1>1, <2>2
    <3>2. read[k + 1] = ReadOne(read[k], s[k + 1])
      BY <1>7, <3>1 DEF ReadsUpto
    <3>3. read[k] \in Reading
      BY <2>2, <3>1
    <3>4. s[k + 1] \in Char
      BY <1>1, <3>1
    <3>5. QED
      BY <3>2, <3>3, <3>4, ReadOneType
  <2>3. \A k \in Nat : k \in T => k + 1 \in T
    BY <2>2
  <2>4. \A k \in Nat : k \in T
    <3> HIDE DEF T
    <3>1. QED
      BY <2>1, <2>3, SetInduction
  <2>5. QED
    BY <1>1, <2>4
<1>9. read \in [0..n -> Reading]
  <2>1. read = [i \in 0..n |-> read[i]]
    BY <1>6
  <2>2. QED
    BY <1>8, <2>1
<1>10. QED
  BY <1>2, <1>7, <1>9 DEF n

LEMMA UnescapedType ==
  ASSUME NEW s \in Seq(Char)
  PROVE  Unescaped(s) \in Seq(Char)
<1>1. PICK f \in [0..Len(s) -> Reading] : Unescaped(s) = f[Len(s)].out
  BY UnescapedReads
<1>2. f[Len(s)] \in Reading
  BY LenProperties
<1>3. QED
  BY <1>1, <1>2 DEF Reading

-----------------------------------------------------------------------------
\* A character in front of a list, and one behind it.
LEMMA ConsFacts ==
  ASSUME NEW S, NEW c \in S, NEW r \in Seq(S)
  PROVE  /\ Cons(c, r) \in Seq(S) /\ Cons(c, r) # <<>>
         /\ Head(Cons(c, r)) = c /\ Tail(Cons(c, r)) = r
<1> DEFINE s == Cons(c, r)
           n == Len(r)
<1>1. <<c>> \in Seq(S) /\ Len(<<c>>) = 1 /\ <<c>>[1] = c
  OBVIOUS
<1>2. n \in Nat
  BY LenProperties
<1> DEFINE one == <<c>>
<1>3. s = one \o r
  BY DEF Cons
<1>4. one \in Seq(S) /\ Len(one) = 1 /\ one[1] = c
  BY <1>1
<1> HIDE DEF one, s
<1>5. /\ s \in Seq(S) /\ Len(s) = 1 + n
      /\ \A i \in 1..1 + n : s[i] = IF i <= 1 THEN one[i] ELSE r[i - 1]
  BY <1>3, <1>4, ConcatProperties
<1> HIDE DEF n
<1>6. s # <<>> /\ s[1] = c /\ Len(s) - 1 = n /\ \A i \in 1..n : s[i + 1] = r[i]
  <2>1. 1 \in 1..1 + n /\ 1 <= 1 /\ (1 + n) - 1 = n /\ 1 + n # 0
    BY <1>2
  <2>2. \A i \in 1..n : i + 1 \in 1..1 + n /\ ~(i + 1 <= 1) /\ (i + 1) - 1 = i
    BY <1>2
  <2>3. \A i \in 1..n : s[i + 1] = r[i]
    BY <1>5, <2>2
  <2>4. s # <<>>
    BY <1>5, <2>1, EmptySeq
  <2>5. QED
    BY <1>4, <1>5, <2>1, <2>3, <2>4
<1>7. Head(s) = c
  BY <1>5, <1>6
<1>8. /\ Tail(s) \in Seq(S) /\ Len(Tail(s)) = n
      /\ \A i \in 1..n : Tail(s)[i] = r[i]
  BY <1>5, <1>6, HeadTailProperties
<1>9. Tail(s) = r
  BY <1>8, SeqEqual DEF n
<1>10. QED
  BY <1>5, <1>6, <1>7, <1>9 DEF s

LEMMA ConsParts ==
  ASSUME NEW S, NEW s \in Seq(S), s # <<>>
  PROVE  Head(s) \in S /\ Tail(s) \in Seq(S) /\ s = Cons(Head(s), Tail(s))
<1>1. Len(s) \in Nat /\ Len(s) # 0
  BY LenProperties, EmptySeq
<1>2. 1 \in 1..Len(s) /\ Len(s) \in 1..Len(s)
  BY <1>1
<1>3. Tail(s) = SubSeq(s, 2, Len(s)) /\ SubSeq(s, 1, Len(s)) = s
  BY TailIsSubSeq, SubSeqFull
<1>4. SubSeq(s, 1, Len(s)) = <<s[1]>> \o SubSeq(s, 2, Len(s))
  BY <1>2, SubSeqRecursiveFirst
<1>5. Head(s) = s[1]
  OBVIOUS
<1>6. QED
  BY <1>3, <1>4, <1>5, HeadTailProperties DEF Cons

-----------------------------------------------------------------------------
\* The characters of the protocol are characters, and each is a list of one.
LEMMA CharFacts ==
  /\ {"byte", "NUL", "a", "quote", "backslash", "newline", "{", "}", "[", "]"} \subseteq Char
  /\ \A c \in Char : <<c>> \in Seq(Char)
<1>1. \A c \in Char : <<c>> \in Seq(Char)
  OBVIOUS
<1>2. QED
  BY <1>1 DEF Char

LEMMA Regrouped == \A a, b, c \in Seq(Char) : (a \o b) \o c = a \o (b \o c)
  BY ConcatAssociative

LEMMA AppendCons ==
  ASSUME NEW a \in Seq(Char), NEW c \in Char, NEW b \in Seq(Char)
  PROVE  /\ Append(a, c) \in Seq(Char)
         /\ Append(a, c) \o b = a \o Cons(c, b)
<1> DEFINE one == <<c>>
<1>1. one \in Seq(Char)
  BY CharFacts
<1>2. Append(a, c) = a \o one
  BY AppendIsConcat
<1>3. Cons(c, b) = one \o b
  BY DEF Cons
<1> HIDE DEF one
<1>4. (a \o one) \o b = a \o (one \o b)
  BY ONLY <1>1, a \in Seq(Char), b \in Seq(Char), Regrouped
<1>5. QED
  BY <1>2, <1>3, <1>4, AppendProperties

\* t is a, then b.
Halves(t, a, b) == t = a \o b

LEMMA HalvesMove ==
  ASSUME NEW t, NEW a \in Seq(Char), NEW c \in Char, NEW b \in Seq(Char)
  PROVE  Halves(t, a, Cons(c, b)) <=> Halves(t, Append(a, c), b)
<1>1. Append(a, c) \o b = a \o Cons(c, b)
  BY AppendCons
<1>2. QED
  BY <1>1, Zenon DEF Halves

\* What is taken off the front of a list is taken off the front of it and what follows.
LEMMA ConsConcat ==
  ASSUME NEW c \in Char, NEW a \in Seq(Char), NEW b \in Seq(Char)
  PROVE  Cons(c, a) \o b = Cons(c, a \o b)
<1> DEFINE one == <<c>>
<1>1. one \in Seq(Char)
  BY CharFacts
<1>2. Cons(c, a) = one \o a /\ Cons(c, a \o b) = one \o (a \o b)
  BY DEF Cons
<1> HIDE DEF one
<1>3. (one \o a) \o b = one \o (a \o b)
  BY ONLY <1>1, a \in Seq(Char), b \in Seq(Char), Regrouped
<1>4. QED
  BY <1>2, <1>3

LEMMA TwoInARow ==
  ASSUME NEW S, NEW c \in S, NEW d \in S
  PROVE  <<c>> \o <<d>> = <<c, d>>
<1> DEFINE x == <<c>>
           y == <<d>>
           xy == <<c, d>>
<1>1. x \in Seq(S) /\ Len(x) = 1 /\ x[1] = c /\ y \in Seq(S) /\ Len(y) = 1 /\ y[1] = d
  OBVIOUS
<1>2. xy \in Seq(S) /\ Len(xy) = 2 /\ xy[1] = c /\ xy[2] = d
  OBVIOUS
<1> HIDE DEF x, y, xy
<1>3. x \o y \in Seq(S) /\ Len(x \o y) = 2 /\ (x \o y)[1] = c /\ (x \o y)[2] = d
  BY <1>1, ConcatProperties
<1>4. x \o y = xy
  BY <1>2, <1>3, SeqEqual
<1>5. QED
  BY <1>4 DEF x, y, xy

\* What toBytes makes of one character.
Special == {"quote", "backslash"}

EscapedChar(c) == IF c \in Special THEN <<"backslash", c>> ELSE <<c>>

EscapedChars(t) == [i \in DOMAIN t |-> EscapedChar(t[i])]

LEMMA EscapedCharType == \A c \in Char : EscapedChar(c) \in Seq(Char)
<1> TAKE c \in Char
<1>1. "backslash" \in Char
  BY DEF Char
<1>2. <<"backslash", c>> \in Seq(Char) /\ <<c>> \in Seq(Char)
  BY <1>1
<1>3. QED
  BY <1>2 DEF EscapedChar

LEMMA EscapedFlattens ==
  ASSUME NEW t \in Seq(Char)
  PROVE  /\ EscapedChars(t) \in Seq(Seq(Char)) /\ Len(EscapedChars(t)) = Len(t)
         /\ \A i \in 1..Len(t) : EscapedChars(t)[i] = EscapedChar(t[i])
         /\ Escaped(t) = FlattenSeq(EscapedChars(t))
         /\ Escaped(t) \in Seq(Char)
<1> DEFINE n == Len(t)
           e == EscapedChars(t)
<1>1. n \in Nat /\ DOMAIN t = 1..n /\ \A i \in 1..n : t[i] \in Char
  BY LenProperties, ElementOfSeq
<1> HIDE DEF n
<1>2. e = [i \in 1..n |-> EscapedChar(t[i])]
  BY <1>1 DEF EscapedChars
<1> HIDE DEF e
<1>3. \A i \in 1..n : e[i] = EscapedChar(t[i]) /\ e[i] \in Seq(Char)
  BY <1>1, <1>2, EscapedCharType
<1>4. e \in [1..n -> Seq(Char)]
  BY <1>2, <1>3
<1>5. e \in Seq(Seq(Char))
  BY <1>1, <1>4, SeqDef
<1>6. Len(e) = n
  BY <1>1, <1>4, <1>5, LenProperties
<1>7. Escaped(t) = FlattenSeq(EscapedChars(t))
  BY DEF Escaped, EscapedChars, EscapedChar, Special
<1>8. FlattenSeq(EscapedChars(t)) \in Seq(Char)
  BY <1>5, FlattenType DEF e
<1>9. QED
  BY <1>3, <1>5, <1>6, <1>7, <1>8 DEF e, n

LEMMA EscapedJoined ==
  ASSUME NEW a \in Seq(Char), NEW b \in Seq(Char)
  PROVE  Escaped(a \o b) = Escaped(a) \o Escaped(b)
<1> DEFINE m == Len(a)
           n == Len(b)
           ab == a \o b
           x == EscapedChars(ab)
           y == EscapedChars(a) \o EscapedChars(b)
<1>1. m \in Nat /\ n \in Nat
  BY LenProperties
<1>2. /\ ab \in Seq(Char) /\ Len(ab) = m + n
      /\ \A i \in 1..m + n : ab[i] = IF i <= m THEN a[i] ELSE b[i - m]
  BY ConcatProperties
<1> HIDE DEF ab
<1>3. x \in Seq(Seq(Char)) /\ Len(x) = m + n /\ \A i \in 1..m + n : x[i] = EscapedChar(ab[i])
  BY <1>2, EscapedFlattens
<1>4. /\ y \in Seq(Seq(Char)) /\ Len(y) = m + n
      /\ \A i \in 1..m + n :
           y[i] = IF i <= m THEN EscapedChars(a)[i] ELSE EscapedChars(b)[i - m]
  <2> DEFINE d == EscapedChars(a)
             e == EscapedChars(b)
  <2>1. d \in Seq(Seq(Char)) /\ Len(d) = m /\ e \in Seq(Seq(Char)) /\ Len(e) = n
    BY EscapedFlattens
  <2> HIDE DEF d, e
  <2>2. /\ d \o e \in Seq(Seq(Char)) /\ Len(d \o e) = Len(d) + Len(e)
        /\ \A i \in 1..Len(d) + Len(e) :
             (d \o e)[i] = IF i <= Len(d) THEN d[i] ELSE e[i - Len(d)]
    BY <2>1, ConcatProperties
  <2>3. QED
    BY <2>1, <2>2 DEF d, e
<1>5. /\ \A i \in 1..m : EscapedChars(a)[i] = EscapedChar(a[i])
      /\ \A i \in 1..n : EscapedChars(b)[i] = EscapedChar(b[i])
  BY EscapedFlattens
<1> HIDE DEF m, n, x, y
<1>6. \A i \in 1..m + n : x[i] = y[i]
  <2> TAKE i \in 1..m + n
  <2>1. CASE i <= m
    <3>1. i \in 1..m
      BY <1>1, <2>1
    <3>2. QED
      BY <1>2, <1>3, <1>4, <1>5, <2>1, <3>1
  <2>2. CASE ~(i <= m)
    <3>1. i - m \in 1..n
      BY <1>1, <2>2
    <3>2. QED
      BY <1>2, <1>3, <1>4, <1>5, <2>2, <3>1
  <2>3. QED
    BY <2>1, <2>2
<1>7. x = y
  BY <1>3, <1>4, <1>6, SeqEqual
<1>8. Escaped(ab) = FlattenSeq(x)
  BY <1>2, EscapedFlattens DEF x
<1>9. FlattenSeq(y) = FlattenSeq(EscapedChars(a)) \o FlattenSeq(EscapedChars(b))
  BY EscapedFlattens, FlattenConcat DEF y
<1>10. Escaped(a) = FlattenSeq(EscapedChars(a)) /\ Escaped(b) = FlattenSeq(EscapedChars(b))
  BY EscapedFlattens
<1>11. QED
  BY <1>7, <1>8, <1>9, <1>10 DEF ab

LEMMA EscapedSmall ==
  /\ Escaped(<<>>) = <<>>
  /\ \A c \in Char : Escaped(<<c>>) = EscapedChar(c)
<1>1. EscapedChars(<<>>) = <<>>
  BY DEF EscapedChars
<1>2. Escaped(<<>>) = <<>>
  BY <1>1, FlattenEmpty, EscapedFlattens, EmptySeq
<1>3. ASSUME NEW c \in Char
      PROVE  Escaped(<<c>>) = EscapedChar(c)
  <2> DEFINE e == EscapedChar(c)
  <2>1. <<c>> \in Seq(Char) /\ e \in Seq(Char)
    BY EscapedCharType
  <2>2. EscapedChars(<<c>>) = <<e>>
    BY DEF EscapedChars
  <2> HIDE DEF e
  <2>3. FlattenSeq(<<e>>) = e
    BY <2>1, FlattenOne
  <2>4. Escaped(<<c>>) = FlattenSeq(EscapedChars(<<c>>))
    BY CharFacts, EscapedFlattens
  <2>5. QED
    BY <2>2, <2>3, <2>4 DEF e
<1>4. QED
  BY <1>2, <1>3

\* A text escaped, taken apart behind its first character, and before its last.
LEMMA EscapedCons ==
  ASSUME NEW c \in Char, NEW t \in Seq(Char)
  PROVE  /\ c \in Special => Escaped(Cons(c, t)) = Cons("backslash", Cons(c, Escaped(t)))
         /\ c \notin Special => Escaped(Cons(c, t)) = Cons(c, Escaped(t))
<1> DEFINE one == <<c>>
           bs == <<"backslash">>
           e == Escaped(t)
<1>1. one \in Seq(Char) /\ bs \in Seq(Char) /\ e \in Seq(Char)
  BY EscapedFlattens, CharFacts
<1>2. Escaped(Cons(c, t)) = EscapedChar(c) \o e
  <2>1. Cons(c, t) = one \o t
    BY DEF Cons
  <2>2. Escaped(one) = EscapedChar(c)
    BY EscapedSmall
  <2>3. Escaped(one \o t) = Escaped(one) \o e
    <3> HIDE DEF one
    <3>1. QED
      BY <1>1, EscapedJoined
  <2>4. QED
    BY <2>1, <2>2, <2>3
<1>3. EscapedChar(c) = IF c \in Special THEN bs \o one ELSE one
  <2>1. bs \o one = <<"backslash", c>>
    BY CharFacts, TwoInARow
  <2>2. QED
    BY <2>1 DEF EscapedChar
<1>4. Cons(c, e) = one \o e /\ Cons("backslash", one \o e) = bs \o (one \o e)
  BY DEF Cons
<1> HIDE DEF one, bs, e
<1>5. (bs \o one) \o e = bs \o (one \o e)
  BY ONLY <1>1, Regrouped, SMTT(20)
<1>6. QED
  BY <1>2, <1>3, <1>4, <1>5 DEF e

LEMMA EscapedAppend ==
  ASSUME NEW c \in Char, NEW t \in Seq(Char)
  PROVE  /\ c \in Special =>
              Escaped(Append(t, c)) = Append(Append(Escaped(t), "backslash"), c)
         /\ c \notin Special => Escaped(Append(t, c)) = Append(Escaped(t), c)
<1> DEFINE one == <<c>>
           bs == <<"backslash">>
           e == Escaped(t)
<1>1. one \in Seq(Char) /\ bs \in Seq(Char) /\ e \in Seq(Char)
  BY EscapedFlattens, CharFacts
<1>2. Append(t, c) = t \o one
  BY AppendIsConcat
<1>3. Escaped(t \o one) = e \o EscapedChar(c)
  BY <1>1, EscapedJoined, EscapedSmall
<1>4. EscapedChar(c) = IF c \in Special THEN bs \o one ELSE one
  <2>1. bs \o one = <<"backslash", c>>
    BY CharFacts, TwoInARow
  <2>2. QED
    BY <2>1 DEF EscapedChar
<1>5. "backslash" \in Char
  BY DEF Char
<1>6. Append(e, c) = e \o one /\ Append(e, "backslash") = e \o bs
  BY <1>1, <1>5, AppendIsConcat
<1>7. e \o bs \in Seq(Char)
  BY <1>1, ConcatProperties
<1>8. Append(e \o bs, c) = (e \o bs) \o one
  BY <1>7, AppendIsConcat
<1> HIDE DEF one, bs, e
<1>9. (e \o bs) \o one = e \o (bs \o one)
  BY ONLY <1>1, Regrouped
<1>10. QED
  BY <1>2, <1>3, <1>4, <1>6, <1>8, <1>9 DEF e

-----------------------------------------------------------------------------
\* s is x, then c, then y.
Stands(s, x, c, y) == s = x \o Cons(c, y)

LEMMA StandsBehind ==
  ASSUME NEW s, NEW x \in Seq(Char), NEW c \in Char, NEW d \in Char, NEW y \in Seq(Char),
         Stands(s, x, c, Cons(d, y))
  PROVE  Stands(s, Append(x, c), d, y)
<1>1. Cons(d, y) \in Seq(Char)
  BY ConsFacts
<1> DEFINE dy == Cons(d, y)
<1>2. s = x \o Cons(c, dy)
  BY DEF Stands
<1> HIDE DEF dy
<1>3. Append(x, c) \o dy = x \o Cons(c, dy)
  BY <1>1, AppendCons DEF dy
<1>4. QED
  BY <1>2, <1>3 DEF Stands, dy

\* Reading on by one character.
LEMMA ReadsNext ==
  ASSUME NEW x \in Seq(Char), NEW c \in Char, NEW y \in Seq(Char), NEW s, Stands(s, x, c, y),
         NEW f, ReadsUpto(f, s, Len(s))
  PROVE  f[Len(Append(x, c))] = ReadOne(f[Len(x)], c)
<1> DEFINE k == Len(x)
           r == Cons(c, y)
           n == Len(r)
<1>1. r \in Seq(Char) /\ r # <<>> /\ Head(r) = c
  BY ConsFacts
<1> HIDE DEF r
<1>2. k \in Nat /\ n \in Nat /\ n # 0
  BY <1>1, LenProperties, EmptySeq
<1>3. r[1] = c
  BY <1>1
<1>4. /\ Len(x \o r) = k + n
      /\ \A i \in 1..k + n : (x \o r)[i] = IF i <= k THEN x[i] ELSE r[i - k]
  BY <1>1, ConcatProperties
<1>5. s = x \o r
  BY DEF r, Stands
<1>6. Len(Append(x, c)) = k + 1
  BY AppendProperties
<1> HIDE DEF k, n
<1>7. k + 1 \in 1..k + n /\ ~(k + 1 <= k) /\ (k + 1) - k = 1 /\ (k + 1) - 1 = k
  BY <1>2
<1>8. s[k + 1] = c
  BY <1>3, <1>4, <1>5, <1>7
<1>9. f[k + 1] = ReadOne(f[k], s[k + 1])
  BY <1>4, <1>5, <1>7 DEF ReadsUpto
<1>10. QED
  BY <1>6, <1>8, <1>9 DEF k

\* A list that is not empty has a last member.
LEMMA LastPart ==
  ASSUME NEW S, NEW m \in Nat, NEW a \in Seq(S), Len(a) = m + 1
  PROVE  \E b \in Seq(S) : \E c \in S : a = Append(b, c) /\ Len(b) = m
<1> DEFINE b == SubSeq(a, 1, m)
           c == a[m + 1]
<1>1. \A i \in 1..m + 1 : a[i] \in S
  BY ElementOfSeq
<1>2. m + 1 \in 1..m + 1 /\ \A i \in 1..m : i \in 1..m + 1
  OBVIOUS
<1>3. c \in S
  BY <1>1, <1>2
<1>4. b \in Seq(S) /\ Len(b) = m
  <2>1. b \in Seq(S) /\ Len(b) = IF 1 <= m THEN m - 1 + 1 ELSE 0
    BY <1>1, <1>2, SubSeqProperties
  <2>2. (IF 1 <= m THEN m - 1 + 1 ELSE 0) = m
    OBVIOUS
  <2>3. QED
    BY <2>1, <2>2
<1>5. a = b \o <<c>>
  <2>1. 1 \in 1..Len(a) /\ m + 1 \in 1..Len(a) /\ (m + 1) - 1 = m
    BY <1>2
  <2>2. SubSeq(a, 1, m + 1) = SubSeq(a, 1, (m + 1) - 1) \o <<a[m + 1]>>
    BY <2>1, SubSeqRecursiveSecond
  <2>3. SubSeq(a, 1, m + 1) = a
    BY SubSeqFull
  <2>4. QED
    BY <2>1, <2>2, <2>3
<1> HIDE DEF b, c
<1>6. a = Append(b, c)
  BY <1>3, <1>4, <1>5, AppendIsConcat
<1>7. QED
  BY <1>3, <1>4, <1>6

\* Having read what has become of a, f has made a of it.
HasRead(f, a) == f[Len(Escaped(a))] = [out |-> a, esc |-> FALSE]

LEMMA HasReadMore ==
  ASSUME NEW a \in Seq(Char), NEW c \in Char, NEW b \in Seq(Char),
         NEW s, s = Escaped(a \o Cons(c, b)), NEW f, ReadsUpto(f, s, Len(s)), HasRead(f, a)
  PROVE  HasRead(f, Append(a, c))
<1> DEFINE e == Escaped(a)
           r == Escaped(b)
           bs == "backslash"
           ebs == Append(e, bs)
<1>1. e \in Seq(Char) /\ r \in Seq(Char) /\ bs \in Char
  BY EscapedFlattens, CharFacts
<1>2. s = e \o Escaped(Cons(c, b))
  BY ConsFacts, EscapedJoined
<1>3. f[Len(e)] = [out |-> a, esc |-> FALSE]
  BY DEF HasRead
<1>4. CASE c \notin Special
  <2>1. Escaped(Cons(c, b)) = Cons(c, r) /\ Escaped(Append(a, c)) = Append(e, c)
    BY <1>4, EscapedCons, EscapedAppend
  <2>2. Stands(s, e, c, r)
    BY <1>2, <2>1 DEF Stands
  <2> HIDE DEF e, r
  <2>3. f[Len(Append(e, c))] = ReadOne(f[Len(e)], c)
    BY <1>1, <2>2, ReadsNext
  <2>4. ReadOne([out |-> a, esc |-> FALSE], c) = [out |-> Append(a, c), esc |-> FALSE]
    BY <1>4 DEF ReadOne, Special
  <2>5. QED
    BY <1>3, <2>1, <2>3, <2>4 DEF HasRead
<1>5. CASE c \in Special
  <2>1. /\ Escaped(Cons(c, b)) = Cons(bs, Cons(c, r))
        /\ Escaped(Append(a, c)) = Append(ebs, c)
    BY <1>5, EscapedCons, EscapedAppend
  <2>2. Stands(s, e, bs, Cons(c, r))
    BY <1>2, <2>1 DEF Stands
  <2> HIDE DEF e, r
  <2>3. Cons(c, r) \in Seq(Char)
    BY <1>1, ConsFacts
  <2>4. ebs \in Seq(Char) /\ Stands(s, ebs, c, r)
    BY <1>1, <2>2, StandsBehind, AppendProperties
  <2>5. f[Len(ebs)] = ReadOne(f[Len(e)], bs)
    BY <1>1, <2>2, <2>3, ReadsNext
  <2>6. ReadOne([out |-> a, esc |-> FALSE], bs) = [out |-> a, esc |-> TRUE]
    BY DEF ReadOne
  <2> HIDE DEF ebs
  <2>7. f[Len(Append(ebs, c))] = ReadOne(f[Len(ebs)], c)
    BY <1>1, <2>4, ReadsNext
  <2>8. ReadOne([out |-> a, esc |-> TRUE], c) = [out |-> Append(a, c), esc |-> FALSE]
    BY DEF ReadOne
  <2>9. QED
    BY <1>3, <2>1, <2>5, <2>6, <2>7, <2>8 DEF HasRead
<1>6. QED
  BY <1>4, <1>5

\* What toBytes escapes parse_string takes back: no text is changed by the two.
THEOREM UnescapedEscaped == \A t \in Seq(Char) : Unescaped(Escaped(t)) = t
<1> SUFFICES ASSUME NEW t \in Seq(Char) PROVE Unescaped(Escaped(t)) = t
  OBVIOUS
<1> DEFINE s == Escaped(t)
<1>1. s \in Seq(Char)
  BY EscapedFlattens
<1>2. PICK f \in [0..Len(s) -> Reading] :
        ReadsUpto(f, s, Len(s)) /\ Unescaped(s) = f[Len(s)].out
  BY <1>1, UnescapedReads
<1> DEFINE Begins(m) == \A a, b \in Seq(Char) : Halves(t, a, b) /\ Len(a) = m => HasRead(f, a)
           T == {m \in Nat : Begins(m)}
<1>3. Begins(0)
  <2> SUFFICES ASSUME NEW a \in Seq(Char), Len(a) = 0 PROVE HasRead(f, a)
    OBVIOUS
  <2>1. a = <<>>
    BY EmptySeq
  <2>2. Len(Escaped(a)) = 0
    BY <2>1, EscapedSmall
  <2>3. QED
    BY <1>2, <2>1, <2>2 DEF HasRead, ReadsUpto, NothingRead
<1>4. ASSUME NEW m \in Nat, Begins(m)
      PROVE  Begins(m + 1)
  <2> SUFFICES ASSUME NEW a \in Seq(Char), NEW b \in Seq(Char), Halves(t, a, b),
                      Len(a) = m + 1
               PROVE  HasRead(f, a)
    OBVIOUS
  <2>1. PICK d \in Seq(Char) : \E c \in Char : a = Append(d, c) /\ Len(d) = m
    BY LastPart
  <2>2. PICK c \in Char : a = Append(d, c) /\ Len(d) = m
    BY <2>1
  <2>3. Halves(t, d, Cons(c, b)) /\ Cons(c, b) \in Seq(Char)
    BY <2>2, HalvesMove, ConsFacts
  <2>4. HasRead(f, d)
    BY <1>4, <2>2, <2>3
  <2>5. s = Escaped(d \o Cons(c, b))
    BY <2>3 DEF Halves
  <2>6. QED
    BY <1>2, <2>2, <2>3, <2>4, <2>5, HasReadMore
<1> HIDE DEF Begins
<1>5. \A m \in Nat : m \in T
  <2>1. 0 \in T /\ \A m \in Nat : m \in T => m + 1 \in T
    BY <1>3, <1>4
  <2> HIDE DEF T
  <2>2. QED
    BY <2>1, SetInduction
<1>6. HasRead(f, t)
  <2>1. Begins(Len(t))
    BY <1>5, LenProperties
  <2>2. Halves(t, t, <<>>) /\ <<>> \in Seq(Char)
    BY ConcatEmptySeq, EmptySeq DEF Halves
  <2>3. QED
    BY <2>1, <2>2 DEF Begins
<1>7. QED
  BY <1>2, <1>6 DEF HasRead

-----------------------------------------------------------------------------
\* The characters in front of the text, from the first bracket on, and those behind it.
LEMMA OpeningFacts ==
  /\ Opening \in Seq(Char) /\ Len(Opening) = 7
  /\ Opening[1] = "{" /\ Opening[2] = "quote" /\ Opening[3] = "a" /\ Opening[4] = "a"
  /\ Opening[5] = "quote" /\ Opening[6] = "[" /\ Opening[7] = "quote"
<1>1. ASSUME NEW S, NEW a \in S, NEW b \in S, NEW c \in S, NEW d \in S
      PROVE  <<a, b, c, c, b, d, b>> \in Seq(S)
  OBVIOUS
<1>2. Opening \in Seq(Char)
  BY <1>1, CharFacts DEF Opening
<1>3. QED
  BY <1>2 DEF Opening

LEMMA EndingFacts ==
  /\ Ending \in Seq(Char) /\ Len(Ending) = 4
  /\ Ending[1] = "quote" /\ Ending[2] = "]" /\ Ending[3] = "}" /\ Ending[4] = "NUL"
<1>1. ASSUME NEW S, NEW a \in S, NEW b \in S, NEW c \in S, NEW d \in S
      PROVE  <<a, b, c, d>> \in Seq(S)
  OBVIOUS
<1>2. Ending \in Seq(Char)
  BY <1>1, CharFacts DEF Ending
<1>3. QED
  BY <1>2 DEF Ending

\* Of a list d, in front of r, what is left behind the first k, and, behind x, those.
Left(d, k, r) == SubSeq(d, k + 1, Len(d)) \o r
Gone(x, d, k) == x \o SubSeq(d, 1, k)

LEMMA PartTypes ==
  ASSUME NEW S, NEW d \in Seq(S), NEW k \in 0..Len(d)
  PROVE  SubSeq(d, k + 1, Len(d)) \in Seq(S) /\ SubSeq(d, 1, k) \in Seq(S)
<1> DEFINE n == Len(d)
<1>1. n \in Nat /\ \A i \in 1..n : d[i] \in S
  BY LenProperties, ElementOfSeq
<1> HIDE DEF n
<1>2. k \in Nat /\ k <= n
  BY <1>1 DEF n
<1>3. \A i \in k + 1..n : d[i] \in S
  BY <1>1, <1>2
<1>4. \A i \in 1..k : d[i] \in S
  BY <1>1, <1>2
<1>5. SubSeq(d, k + 1, n) \in Seq(S) /\ SubSeq(d, 1, k) \in Seq(S)
  BY <1>1, <1>2, <1>3, <1>4, SubSeqProperties
<1>6. QED
  BY <1>5 DEF n

LEMMA LeftType ==
  ASSUME NEW S, NEW d \in Seq(S), NEW k \in 0..Len(d), NEW r \in Seq(S)
  PROVE  Left(d, k, r) \in Seq(S) /\ Gone(r, d, k) \in Seq(S)
<1>1. SubSeq(d, k + 1, Len(d)) \in Seq(S) /\ SubSeq(d, 1, k) \in Seq(S)
  BY PartTypes
<1>2. QED
  BY <1>1, ConcatProperties DEF Left, Gone

\* The next one goes from what is left to what is gone.
LEMMA LeftNext ==
  ASSUME NEW d \in Seq(Char), NEW k \in Nat, k + 1 <= Len(d), NEW r \in Seq(Char)
  PROVE  Left(d, k, r) = Cons(d[k + 1], Left(d, k + 1, r))
<1> DEFINE n == Len(d)
           rest == SubSeq(d, k + 2, n)
<1>1. n \in Nat
  BY LenProperties
<1>2. k + 1 \in 1..n /\ k + 1 \in 0..n /\ n \in k + 1..n /\ (k + 1) + 1 = k + 2
  BY <1>1
<1>3. SubSeq(d, k + 1, n) = <<d[k + 1]>> \o SubSeq(d, (k + 1) + 1, n)
  BY <1>2, SubSeqRecursiveFirst
<1>4. SubSeq(d, (k + 1) + 1, n) \in Seq(Char)
  BY <1>2, PartTypes
<1>5. d[k + 1] \in Char
  BY <1>2, ElementOfSeq
<1>6. SubSeq(d, k + 1, n) = Cons(d[k + 1], rest) /\ rest \in Seq(Char)
  BY <1>2, <1>3, <1>4 DEF Cons
<1> DEFINE c == d[k + 1]
<1> HIDE DEF rest, c
<1>7. Cons(c, rest) \o r = Cons(c, rest \o r)
  <2>1. c \in Char /\ rest \in Seq(Char)
    BY <1>5, <1>6 DEF c
  <2>2. QED
    BY ONLY <2>1, r \in Seq(Char), ConsConcat
<1>8. Left(d, k, r) = Cons(d[k + 1], rest) \o r
  BY <1>6 DEF Left
<1>9. Left(d, k + 1, r) = rest \o r
  BY <1>2 DEF Left, rest
<1>10. QED
  BY <1>7, <1>8, <1>9 DEF c

LEMMA GoneNext ==
  ASSUME NEW d \in Seq(Char), NEW k \in Nat, k + 1 <= Len(d), NEW x \in Seq(Char)
  PROVE  Append(Gone(x, d, k), d[k + 1]) = Gone(x, d, k + 1)
<1> DEFINE n == Len(d)
           a == SubSeq(d, 1, k)
           one == <<d[k + 1]>>
<1>1. n \in Nat
  BY LenProperties
<1>2. 1 \in 1..n /\ k + 1 \in 1..n /\ k \in 0..n /\ (k + 1) - 1 = k
  BY <1>1
<1>3. SubSeq(d, 1, k + 1) = SubSeq(d, 1, (k + 1) - 1) \o <<d[k + 1]>>
  BY <1>2, SubSeqRecursiveSecond
<1>4. SubSeq(d, 1, k + 1) = a \o one
  BY <1>2, <1>3
<1>5. d[k + 1] \in Char /\ a \in Seq(Char)
  BY <1>2, ElementOfSeq, PartTypes
<1>6. one \in Seq(Char)
  BY <1>5, CharFacts
<1>7. x \o a \in Seq(Char)
  BY <1>5, ConcatProperties
<1>8. Append(x \o a, d[k + 1]) = (x \o a) \o one
  BY <1>5, <1>7, AppendIsConcat
<1>9. Gone(x, d, k) = x \o a /\ Gone(x, d, k + 1) = x \o (a \o one)
  BY <1>4 DEF Gone
<1> HIDE DEF a, one
<1>10. (x \o a) \o one = x \o (a \o one)
  BY ONLY <1>5, <1>6, x \in Seq(Char), Regrouped
<1>11. QED
  BY <1>8, <1>9, <1>10

\* At the beginning nothing is gone, at the end nothing left.
LEMMA LeftEnds ==
  \A d, r \in Seq(Char) :
    /\ Left(d, 0, r) = d \o r /\ Left(d, Len(d), r) = r
    /\ Gone(r, d, 0) = r /\ Gone(r, d, Len(d)) = r \o d
<1> SUFFICES ASSUME NEW d \in Seq(Char), NEW r \in Seq(Char)
             PROVE  /\ Left(d, 0, r) = d \o r /\ Left(d, Len(d), r) = r
                    /\ Gone(r, d, 0) = r /\ Gone(r, d, Len(d)) = r \o d
  OBVIOUS
<1>1. Len(d) \in Nat /\ 0 + 1 = 1
  BY LenProperties
<1>2. SubSeq(d, 1, Len(d)) = d
  BY SubSeqFull
<1>3. SubSeq(d, Len(d) + 1, Len(d)) = <<>> /\ SubSeq(d, 1, 0) = <<>>
  BY <1>1, SubSeqEmpty
<1>4. <<>> \o r = r /\ r \o <<>> = r
  BY ConcatEmptySeq
<1>5. QED
  BY <1>1, <1>2, <1>3, <1>4 DEF Left, Gone

\* What begins like a message is one.
LEMMA BeginsAlike ==
  ASSUME NEW o \in Seq(Char), 7 <= Len(o), \A i \in 1..7 : o[i] = Opening[i]
  PROVE  IsMessage(o)
<1> DEFINE a == SubSeq(o, 1, 7)
<1>1. Opening \in Seq(Char) /\ Len(Opening) = 7 /\ SubSeq(Opening, 1, Len(Opening)) = Opening
  BY OpeningFacts, SubSeqFull
<1>2. Len(o) \in Nat /\ \A i \in 1..Len(o) : o[i] \in Char
  BY LenProperties, ElementOfSeq
<1>3. \A i \in 1..7 : o[i] \in Char
  BY <1>2
<1>4. /\ a \in Seq(Char) /\ Len(a) = (IF 1 <= 7 THEN 7 - 1 + 1 ELSE 0)
      /\ \A i \in 1..7 - 1 + 1 : a[i] = o[1 + i - 1]
  BY <1>3, SubSeqProperties
<1> HIDE DEF a
<1>5. Len(a) = 7 /\ \A i \in 1..7 : a[i] = o[i]
  <2>1. 7 - 1 + 1 = 7 /\ 1 <= 7 /\ \A i \in 1..7 : 1 + i - 1 = i
    OBVIOUS
  <2>2. QED
    BY <1>4, <2>1
<1>6. a = Opening
  BY <1>1, <1>4, <1>5, SeqEqual
<1>7. QED
  BY <1>1, <1>6 DEF IsMessage, IsPrefix, a

\* A whole message is one, and what parse_string is given of it is what stands between the
\* opening and the ending.
LEMMA DataOfMessage ==
  ASSUME NEW e \in Seq(Char)
  PROVE  LET o == Gone(Opening \o e, Ending, 3)
         IN  IsMessage(o) /\ DataOf(o) = Unescaped(e)
<1> DEFINE n == Len(e)
           oe == Opening \o e
           c == SubSeq(Ending, 1, 3)
           o == oe \o c
<1>1. n \in Nat
  BY LenProperties
<1>2. \A i \in 1..3 : Ending[i] \in Char
  <2>1. \A i \in 1..Len(Ending) : Ending[i] \in Char
    BY EndingFacts, ElementOfSeq
  <2>2. Len(Ending) = 4
    BY EndingFacts
  <2>3. QED
    BY ONLY <2>1, <2>2
<1>3. c \in Seq(Char) /\ Len(c) = 3
  <2>1. c \in Seq(Char) /\ Len(c) = IF 1 <= 3 THEN 3 - 1 + 1 ELSE 0
    BY <1>2, SubSeqProperties
  <2> HIDE DEF c
  <2>2. QED
    BY <2>1
<1> HIDE DEF c
<1>4. /\ oe \in Seq(Char) /\ Len(oe) = 7 + n
      /\ \A i \in 1..7 + n : oe[i] = IF i <= 7 THEN Opening[i] ELSE e[i - 7]
  <2>1. Opening \in Seq(Char) /\ Len(Opening) = 7
    BY OpeningFacts
  <2>2. /\ oe \in Seq(Char) /\ Len(oe) = Len(Opening) + n
        /\ \A i \in 1..Len(Opening) + n :
             oe[i] = IF i <= Len(Opening) THEN Opening[i] ELSE e[i - Len(Opening)]
    BY <2>1, ConcatProperties
  <2> HIDE DEF oe, n
  <2>3. QED
    BY <2>1, <2>2
<1> HIDE DEF oe
<1>5. /\ o \in Seq(Char) /\ Len(o) = Len(oe) + Len(c)
      /\ \A i \in 1..Len(oe) + Len(c) : o[i] = IF i <= Len(oe) THEN oe[i] ELSE c[i - Len(oe)]
  BY <1>3, <1>4, ConcatProperties
<1> HIDE DEF o, n
<1>6. \A i \in 1..n : i + 7 \in 1..7 + n /\ ~(i + 7 <= 7) /\ (i + 7) - 7 = i
                      /\ i + 7 \in 1..(7 + n) + 3 /\ i + 7 <= 7 + n
  BY <1>1
<1>7. \A i \in 1..n : o[i + 7] = e[i]
  BY <1>3, <1>4, <1>5, <1>6
<1>8. Len(o) = n + 10
  BY <1>1, <1>3, <1>4, <1>5
<1> DEFINE d == SubSeq(o, 8, Len(o) - 3)
<1>9. d \in Seq(Char) /\ Len(d) = n /\ \A i \in 1..n : d[i] = e[i]
  <2>1. Len(o) - 3 = n + 7 /\ n + 7 \in Int
    BY <1>1, <1>8
  <2>2. \A i \in 8..n + 7 : o[i] \in Char
    <3>1. \A i \in 8..n + 7 : i \in 1..Len(o)
      BY <1>1, <1>8
    <3>2. QED
      BY <1>5, <3>1, ElementOfSeq
  <2>3. /\ d \in Seq(Char) /\ Len(d) = (IF 8 <= n + 7 THEN (n + 7) - 8 + 1 ELSE 0)
        /\ \A i \in 1..(n + 7) - 8 + 1 : d[i] = o[8 + i - 1]
    BY <2>1, <2>2, SubSeqProperties
  <2> HIDE DEF d
  <2>4. (IF 8 <= n + 7 THEN (n + 7) - 8 + 1 ELSE 0) = n /\ (n + 7) - 8 + 1 = n
        /\ \A i \in 1..n : 8 + i - 1 = i + 7
    BY <1>1
  <2>5. QED
    BY <1>7, <2>3, <2>4
<1> HIDE DEF d
<1>10. d = e
  BY <1>9, SeqEqual DEF n
<1>11. DataOf(o) = Unescaped(e)
  <2>1. Len(Opening) + 1 = 8
    <3>1. Len(Opening) = 7
      BY OpeningFacts
    <3>2. QED
      BY ONLY <3>1
  <2>2. DataOf(o) = Unescaped(SubSeq(o, 8, Len(o) - 3))
    BY <2>1 DEF DataOf
  <2>3. QED
    BY <1>10, <2>2 DEF d
<1>12. IsMessage(o)
  <2>1. \A i \in 1..7 : i \in 1..7 + n /\ i <= 7 /\ i \in 1..(7 + n) + 3 /\ i <= 7 + n
    BY <1>1
  <2>2. \A i \in 1..7 : o[i] = Opening[i]
    BY <1>3, <1>4, <1>5, <2>1
  <2>3. 7 <= n + 10
    BY <1>1
  <2>4. QED
    BY <1>5, <1>8, <2>2, <2>3, BeginsAlike
<1>13. QED
  BY <1>11, <1>12 DEF Gone, o, c, oe

-----------------------------------------------------------------------------
\* The text on its way, from somewhere in it on, and the message from its bracket on.
TextOnwards(b) == Escaped(b) \o Ending

Body(t) == Opening \o TextOnwards(Meant(t))

LEMMA MeantType == \A t \in Seq(Alphabet) : Meant(t) \in Seq(Char)
<1> SUFFICES ASSUME NEW t \in Seq(Alphabet) PROVE Meant(t) \in Seq(Char)
  OBVIOUS
<1> DEFINE n == Len(t)
<1>1. n \in Nat /\ DOMAIN t = 1..n /\ \A i \in 1..n : t[i] \in Alphabet
  BY LenProperties, ElementOfSeq
<1> HIDE DEF n
<1>2. Alphabet \subseteq Char /\ "newline" \in Char
  BY DEF Char
<1>3. Meant(t) = [i \in 1..n |-> IF t[i] = "separator" THEN "newline" ELSE t[i]]
  BY <1>1 DEF Meant
<1>4. Meant(t) \in [1..n -> Char]
  BY <1>1, <1>2, <1>3
<1>5. QED
  BY <1>1, <1>4, SeqDef

LEMMA TextsSent == \A t \in SeqOf(Alphabet, MaxText) : t \in Seq(Alphabet)
<1> SUFFICES ASSUME NEW t \in SeqOf(Alphabet, MaxText) PROVE t \in Seq(Alphabet)
  OBVIOUS
<1>1. PICK m \in 0..MaxText : t \in [1..m -> Alphabet]
  BY DEF SeqOf
<1>2. m \in Nat
  <2>1. MaxText \in Nat
    BY FramingAssumption
  <2>2. QED
    BY <2>1
<1>3. QED
  BY <1>1, <1>2, SeqDef

LEMMA BodyType ==
  /\ \A b \in Seq(Char) : TextOnwards(b) \in Seq(Char)
  /\ \A t \in Seq(Alphabet) : Body(t) \in Seq(Char)
<1>1. ASSUME NEW b \in Seq(Char)
      PROVE  TextOnwards(b) \in Seq(Char)
  <2>1. Escaped(b) \in Seq(Char) /\ Ending \in Seq(Char)
    BY EscapedFlattens, EndingFacts
  <2>2. QED
    BY <2>1, ConcatProperties DEF TextOnwards
<1>2. ASSUME NEW t \in Seq(Alphabet)
      PROVE  Body(t) \in Seq(Char)
  <2>1. TextOnwards(Meant(t)) \in Seq(Char) /\ Opening \in Seq(Char)
    BY <1>1, MeantType, OpeningFacts
  <2>2. QED
    BY <2>1, ConcatProperties DEF Body
<1>3. QED
  BY <1>1, <1>2

\* The four bytes of the length: how many bytes the character under way is still to take.
After(due, byte) == IF due > 0 THEN due - 1 ELSE Trailing(byte)

LEMMA DueSteps ==
  ASSUME NEW n
  PROVE  Due(n)[0] = 0 /\ \A i \in 1..4 : Due(n)[i] = After(Due(n)[i - 1], FirstBytes(n)[i])
<1> DEFINE b == FirstBytes(n)
           Equation(g) == g = [i \in 0..4 |-> IF i = 0 THEN 0
                                             ELSE IF g[i - 1] > 0 THEN g[i - 1] - 1
                                             ELSE Trailing(b[i])]
           due == CHOOSE g : Equation(g)
<1>1. Due(n) = due
  BY DEF Due
<1>2. \E g : Equation(g)
  <2> DEFINE d1 == After(0, b[1])
             d2 == After(d1, b[2])
             d3 == After(d2, b[3])
             d4 == After(d3, b[4])
             f == [i \in 0..4 |-> CASE i = 0 -> 0 [] i = 1 -> d1 [] i = 2 -> d2
                                    [] i = 3 -> d3 [] OTHER -> d4]
  <2>1. /\ d1 = After(0, b[1]) /\ d2 = After(d1, b[2])
        /\ d3 = After(d2, b[3]) /\ d4 = After(d3, b[4])
    OBVIOUS
  <2> HIDE DEF d1, d2, d3, d4, b
  <2>2. f[0] = 0 /\ f[1] = d1 /\ f[2] = d2 /\ f[3] = d3 /\ f[4] = d4
    OBVIOUS
  <2>3. f = [i \in 0..4 |-> f[i]]
    OBVIOUS
  <2> HIDE DEF f
  <2>4. ASSUME NEW i \in 1..4
        PROVE  f[i] = After(f[i - 1], b[i])
    <3>1. /\ 1 - 1 = 0 /\ 2 - 1 = 1 /\ 3 - 1 = 2 /\ 4 - 1 = 3
          /\ i = 1 \/ i = 2 \/ i = 3 \/ i = 4
      OBVIOUS
    <3>2. QED
      BY <2>1, <2>2, <3>1
  <2>5. \A i \in 0..4 : f[i] = IF i = 0 THEN 0 ELSE IF f[i - 1] > 0 THEN f[i - 1] - 1
                              ELSE Trailing(b[i])
    <3> SUFFICES ASSUME NEW i \in 0..4
                 PROVE  f[i] = IF i = 0 THEN 0 ELSE IF f[i - 1] > 0 THEN f[i - 1] - 1
                               ELSE Trailing(b[i])
      OBVIOUS
    <3>1. CASE i = 0
      BY <2>2, <3>1
    <3>2. CASE i # 0
      <4>1. i \in 1..4
        BY <3>2
      <4>2. f[i] = After(f[i - 1], b[i])
        BY <2>4, <4>1
      <4>3. QED
        BY <3>2, <4>2 DEF After
    <3>3. QED
      BY <3>1, <3>2
  <2>6. Equation(f)
    BY <2>3, <2>5
  <2> HIDE DEF Equation
  <2>7. QED
    BY <2>6, Zenon
<1>3. Equation(due)
  <2> HIDE DEF Equation
  <2>1. QED
    BY <1>2, Zenon
<1> HIDE DEF due, b
<1>4. due[0] = 0
  BY <1>3
<1>5. ASSUME NEW i \in 1..4
      PROVE  due[i] = After(due[i - 1], b[i])
  <2>1. i \in 0..4 /\ i # 0
    OBVIOUS
  <2>2. QED
    BY <1>3, <2>1 DEF After
<1>6. QED
  BY <1>1, <1>4, <1>5 DEF b

LEMMA DueType ==
  ASSUME NEW n
  PROVE  \A i \in 0..4 : Due(n)[i] \in 0..5
<1> DEFINE due == Due(n)
           b == FirstBytes(n)
<1>1. due[0] = 0 /\ \A i \in 1..4 : due[i] = After(due[i - 1], b[i])
  BY DueSteps
<1>2. \A x : Trailing(x) \in 0..5
  BY DEF Trailing
<1>3. \A d \in 0..5 : \A x : After(d, x) \in 0..5
  BY <1>2 DEF After
<1> HIDE DEF due, b
<1>4. due[0] \in 0..5
  BY <1>1
<1>5. \A i \in 1..4 : due[i - 1] \in 0..5 => due[i] \in 0..5
  BY <1>1, <1>3, Zenon
<1>6. 1 - 1 = 0 /\ 2 - 1 = 1 /\ 3 - 1 = 2 /\ 4 - 1 = 3
  OBVIOUS
<1>7. due[1] \in 0..5 /\ due[2] \in 0..5 /\ due[3] \in 0..5 /\ due[4] \in 0..5
  <2>1. 1 \in 1..4 /\ 2 \in 1..4 /\ 3 \in 1..4 /\ 4 \in 1..4
    OBVIOUS
  <2>2. /\ due[0] \in 0..5 => due[1] \in 0..5
        /\ due[1] \in 0..5 => due[2] \in 0..5
        /\ due[2] \in 0..5 => due[3] \in 0..5
        /\ due[3] \in 0..5 => due[4] \in 0..5
    BY <1>5, <1>6, <2>1
  <2>3. QED
    BY <1>4, <2>2
<1>8. ASSUME NEW i \in 0..4
      PROVE  due[i] \in 0..5
  <2>1. i = 0 \/ i = 1 \/ i = 2 \/ i = 3 \/ i = 4
    OBVIOUS
  <2>2. QED
    BY <1>4, <1>7, <2>1
<1>9. QED
  BY <1>8 DEF due

\* What the reader skips in front of a message, and a length that is skipped: none of it
\* is a bracket, and it takes nothing of the message with it.
Skipped == Char \ {"{", "["}

Harmless(n) == Due(n)[4] = 0 /\ \A i \in 1..4 : LengthChars(n)[i] \notin {"{", "["}

LEMMA LengthsType ==
  ASSUME NEW n
  PROVE  LengthChars(n) \in Seq(Char) /\ (Harmless(n) => LengthChars(n) \in Seq(Skipped))
<1> DEFINE l == LengthChars(n)
<1>1. \A code : Kind(code) \in Char
  BY CharFacts DEF Kind
<1>2. "byte" \in Char
  BY CharFacts
<1>3. l \in [1..4 -> Char]
  BY <1>1, <1>2 DEF LengthChars
<1>4. Harmless(n) => \A i \in 1..4 : l[i] \notin {"{", "["}
  BY DEF Harmless
<1> HIDE DEF l
<1>5. Harmless(n) => l \in [1..4 -> Skipped]
  BY <1>3, <1>4 DEF Skipped
<1>6. 4 \in Nat
  OBVIOUS
<1>7. QED
  BY <1>3, <1>5, <1>6, SeqDef DEF l

\* The characters of a message, and the bytes of it that are announced.
Size(t, extra) == Overhead + extra + Len(Escaped(Meant(t)))

Bytes(t, extra) == Size(t, extra) + Padding(Size(t, extra)) + Wide(t) + 1

\* A message is its length and what that leaves of its body.
LEMMA MessageParts ==
  ASSUME NEW t \in Seq(Alphabet), NEW extra
  PROVE  LET n == Bytes(t, extra)
         IN  /\ Message(t, extra) \in Seq(Char)
             /\ Harmless(n) => Message(t, extra) = LengthChars(n) \o Body(t)
<1> DEFINE e == Escaped(Meant(t))
           n == Bytes(t, extra)
           k == Due(n)[4]
           l == LengthChars(n)
           b == (Opening \o e) \o Ending
           m == Message(t, extra)
           rest == SubSeq(b, k + 1, Len(b))
<1>1. m = l \o rest
  BY DEF Message, Bytes, Size
<1>2. k \in 0..5 /\ l \in Seq(Char)
  <2>1. 4 \in 0..4
    OBVIOUS
  <2>2. QED
    BY <2>1, DueType, LengthsType
<1>3. Opening \in Seq(Char) /\ e \in Seq(Char) /\ Ending \in Seq(Char)
  BY OpeningFacts, EndingFacts, EscapedFlattens, MeantType
<1>4. b = Body(t) /\ b \in Seq(Char)
  <2> DEFINE o == Opening
             x == Ending
  <2>1. b = (o \o e) \o x /\ Body(t) = o \o (e \o x)
    BY DEF Body, TextOnwards
  <2>2. (o \o e) \o x = o \o (e \o x)
    <3> HIDE DEF o, e, x
    <3>1. o \in Seq(Char) /\ e \in Seq(Char) /\ x \in Seq(Char)
      BY <1>3 DEF o, x
    <3>2. QED
      BY ONLY <3>1, Regrouped
  <2>3. QED
    BY <2>1, <2>2, BodyType
<1> HIDE DEF b, l, m
<1>5. rest \in Seq(Char)
  <2>1. Len(b) \in Nat /\ \A i \in 1..Len(b) : b[i] \in Char
    BY <1>4, LenProperties, ElementOfSeq
  <2> HIDE DEF k
  <2>2. k + 1 \in Int /\ Len(b) \in Int /\ \A i \in k + 1..Len(b) : b[i] \in Char
    BY <1>2, <2>1
  <2>3. QED
    BY <2>2, SubSeqProperties
<1>6. ASSUME Harmless(n)
      PROVE  m = l \o b
  <2>1. k = 0 /\ 0 + 1 = 1
    <3>1. Due(n)[4] = 0
      BY <1>6, Zenon DEF Harmless
    <3>2. 0 + 1 = 1
      OBVIOUS
    <3>3. QED
      BY ONLY <3>1, <3>2
  <2>2. rest = SubSeq(b, 1, Len(b))
    BY <2>1
  <2>3. SubSeq(b, 1, Len(b)) = b
    BY <1>4, SubSeqFull
  <2>4. QED
    BY <1>1, <2>2, <2>3
<1> HIDE DEF rest
<1>7. m \in Seq(Char)
  BY <1>1, <1>2, <1>5, ConcatProperties
<1>8. QED
  BY <1>4, <1>6, <1>7 DEF m, l

-----------------------------------------------------------------------------
\* One text has been received, or none.
AtMostOne(texts) == texts = <<>> \/ \E t \in Seq(Char) : texts = <<t>>

LEMMA AtMostOneFacts ==
  /\ AtMostOne(<<>>) /\ \A t \in Seq(Char) : AtMostOne(<<t>>)
  /\ \A texts : AtMostOne(texts) => Len(texts) <= 1 /\ ToSet(texts) \subseteq Seq(Char)
<1>1. AtMostOne(<<>>) /\ \A t \in Seq(Char) : AtMostOne(<<t>>)
  BY DEF AtMostOne
<1>2. Len(<<>>) <= 1 /\ ToSet(<<>>) \subseteq Seq(Char)
  BY ToSetShort, EmptySeq
<1>3. ASSUME NEW t \in Seq(Char)
      PROVE  Len(<<t>>) <= 1 /\ ToSet(<<t>>) \subseteq Seq(Char)
  BY ToSetShort
<1>4. QED
  BY <1>1, <1>2, <1>3 DEF AtMostOne

\* The types, and that a bracket that has been found is counted.
TypeInv ==
  /\ text \in Seq(Alphabet)
  /\ stream \in Seq(Char)
  /\ obj \in Seq(Char)
  /\ AtMostOne(received)
  /\ open \in {"none", "{", "["}
  /\ needed \in Nat
  /\ open # "none" => needed # 0
  /\ inString \in BOOLEAN
  /\ escaped \in BOOLEAN

LEMMA TypesFollow == TypeInv => TypeOK
  BY AtMostOneFacts DEF TypeInv, TypeOK

LEMMA DataType ==
  ASSUME NEW o \in Seq(Char)
  PROVE  DataOf(o) \in Seq(Char)
<1> DEFINE n == Len(o)
<1>1. n \in Nat /\ \A i \in 1..n : o[i] \in Char
  BY LenProperties, ElementOfSeq
<1> HIDE DEF n
<1>2. n - 3 \in Int /\ \A i \in 8..n - 3 : o[i] \in Char
  BY <1>1
<1>3. SubSeq(o, 8, n - 3) \in Seq(Char)
  BY <1>2, SubSeqProperties
<1>4. Len(Opening) + 1 = 8
  <2>1. Len(Opening) = 7
    BY OpeningFacts
  <2>2. QED
    BY ONLY <2>1
<1>5. QED
  BY <1>3, <1>4, UnescapedType DEF DataOf, n

LEMMA TypeInit == Init => TypeInv
<1> SUFFICES ASSUME Init PROVE TypeInv
  OBVIOUS
<1>1. <<>> \in Seq(Alphabet) /\ <<>> \in Seq(Char)
  BY EmptySeq
<1>2. AtMostOne(received)
  BY <1>1, AtMostOneFacts DEF Init
<1>3. QED
  BY <1>1, <1>2 DEF Init, TypeInv

LEMMA TypeNext == TypeInv /\ [Next]_vars => TypeInv'
<1> SUFFICES ASSUME TypeInv, [Next]_vars PROVE TypeInv'
  OBVIOUS
<1>1. CASE Write
  <2>1. text' \in Seq(Alphabet)
    BY <1>1, TextsSent DEF Write
  <2>2. PICK extra \in Extra : stream' = stream \o Message(text', extra)
    BY <1>1 DEF Write
  <2>3. Message(text', extra) \in Seq(Char)
    BY <2>1, MessageParts
  <2>4. stream' \in Seq(Char)
    BY <2>2, <2>3, ConcatProperties DEF TypeInv
  <2>5. AtMostOne(received)'
    BY <1>1, AtMostOneFacts DEF Write
  <2>6. UNCHANGED <<open, needed, inString, escaped, obj>>
    BY <1>1 DEF Write
  <2>7. QED
    BY <2>1, <2>4, <2>5, <2>6 DEF TypeInv
<1>2. ASSUME stream # <<>>
      PROVE  Head(stream) \in Char /\ Tail(stream) \in Seq(Char)
  BY <1>2, ConsParts DEF TypeInv
<1>3. received' = received => AtMostOne(received)'
  BY DEF TypeInv
<1>4. CASE FindBracket
  <2>1. stream' \in Seq(Char)
    BY <1>2, <1>4 DEF FindBracket
  <2>2. <<Head(stream)>> \in Seq(Char)
    BY <1>2, <1>4, CharFacts DEF FindBracket
  <2>3. /\ Head(stream) \in {"{", "["} =>
             open' \in {"{", "["} /\ needed' = 1 /\ obj' = <<Head(stream)>>
        /\ Head(stream) \notin {"{", "["} => UNCHANGED <<open, needed, obj>>
    BY <1>4 DEF FindBracket
  <2>4. UNCHANGED <<text, inString, escaped, received>>
    BY <1>4 DEF FindBracket
  <2>5. /\ obj' \in Seq(Char) /\ needed' \in Nat
        /\ open' \in {"none", "{", "["} /\ (open' # "none" => needed' # 0)
    <3>1. CASE Head(stream) \in {"{", "["}
      <4>1. needed' = 1 /\ open' \in {"{", "["}
        BY <2>3, <3>1
      <4>2. obj' \in Seq(Char)
        BY <2>2, <2>3, <3>1
      <4>3. 1 \in Nat /\ 1 # 0
        OBVIOUS
      <4>4. QED
        BY <4>1, <4>2, <4>3, Zenon
    <3>2. CASE Head(stream) \notin {"{", "["}
      <4>1. UNCHANGED <<open, needed, obj>>
        BY <2>3, <3>2
      <4>2. QED
        BY <4>1 DEF TypeInv
    <3>3. QED
      BY <3>1, <3>2
  <2>6. /\ text' \in Seq(Alphabet) /\ AtMostOne(received)'
        /\ inString' \in BOOLEAN /\ escaped' \in BOOLEAN
    BY <1>3, <2>4 DEF TypeInv
  <2>7. QED
    BY <2>1, <2>5, <2>6 DEF TypeInv
<1>5. ASSUME InMessage, NEW error, Read(error)
      PROVE  stream' \in Seq(Char) /\ Append(obj, Head(stream)) \in Seq(Char)
  <2>1. Head(stream) \in Char /\ Tail(stream) \in Seq(Char) /\ <<>> \in Seq(Char)
    BY <1>2, <1>5, EmptySeq DEF InMessage
  <2>2. QED
    BY <1>5, <2>1, AppendProperties DEF Read, TypeInv
<1>6. CASE ConsumeString
  <2>1. stream' \in Seq(Char) /\ obj' \in Seq(Char)
    BY <1>5, <1>6 DEF ConsumeString
  <2>2. inString' \in BOOLEAN /\ escaped' \in BOOLEAN
    BY <1>6 DEF ConsumeString
  <2>3. QED
    BY <1>6, <1>3, <2>1, <2>2 DEF ConsumeString, TypeInv
<1>7. CASE CountBrackets
  <2> DEFINE c == Head(stream)
             left == CASE c = open  -> needed + 1
                       [] c = Close -> needed - 1
                       [] OTHER     -> needed
  <2>1. open # "none" /\ needed \in Nat /\ needed # 0
    BY <1>7 DEF CountBrackets, InMessage, TypeInv
  <2>2. left \in Nat
    BY <2>1
  <2>3. stream' \in Seq(Char) /\ Append(obj, c) \in Seq(Char)
    BY <1>5, <1>7 DEF CountBrackets
  <2>4. /\ IF left = 0
             THEN /\ received' = IF IsMessage(Append(obj, c)) THEN <<DataOf(Append(obj, c))>>
                                 ELSE <<>>
                  /\ open' = "none" /\ needed' = 0 /\ obj' = <<>>
             ELSE /\ needed' = left /\ obj' = Append(obj, c)
                  /\ UNCHANGED <<open, received>>
        /\ UNCHANGED <<text, escaped>> /\ inString' \in BOOLEAN
    BY <1>7 DEF CountBrackets
  <2> HIDE DEF left, c
  <2>5. DataOf(Append(obj, c)) \in Seq(Char) /\ <<>> \in Seq(Char)
    BY <2>3, DataType, EmptySeq
  <2>6. CASE left = 0
    <3>1. AtMostOne(received)'
      BY <2>4, <2>5, <2>6, AtMostOneFacts
    <3>2. open' = "none" /\ needed' = 0 /\ obj' \in Seq(Char)
      BY <2>4, <2>5, <2>6
    <3>3. text' \in Seq(Alphabet) /\ inString' \in BOOLEAN /\ escaped' \in BOOLEAN
      BY <2>4 DEF TypeInv
    <3>4. QED
      BY <2>3, <3>1, <3>2, <3>3 DEF TypeInv
  <2>7. CASE left # 0
    BY <1>3, <2>2, <2>3, <2>4, <2>7 DEF TypeInv
  <2>8. QED
    BY <2>6, <2>7
<1>8. CASE UNCHANGED vars
  BY <1>8, <1>3 DEF vars, TypeInv
<1>9. QED
  BY <1>1, <1>4, <1>6, <1>7, <1>8 DEF Next

LEMMA TypeAlways == Spec => []TypeInv
  BY TypeInit, TypeNext, PTL DEF Spec

\* Whatever is sent and however long the reader reads on behind what it has taken for the
\* end of a message, stream and message are characters, and brackets are never counted
\* below zero.
THEOREM FramingTypes == Spec => []TypeOK
  BY TypeAlways, TypesFollow, PTL

-----------------------------------------------------------------------------
\* The phases of a message on its way.  Every length that is sent is harmless: the reader
\* finds the bracket of the message and no other one.
SafeLengths ==
  \A t \in SeqOf(Alphabet, MaxText) : \A extra \in Extra : Harmless(Bytes(t, extra))

\* What has been collected when a of the text has been read.
SoFar(a) == Opening \o Escaped(a)

\* Where the reader is.
Reader == <<received, open, needed, obj, stream, inString, escaped>>

\* In the middle of a message: o collected, s to be read.
Midway(o, s, quoted, behind) == << <<>>, "{", 1, o, s, quoted, behind>>

Between ==
  /\ open = "none"
  /\ needed = 0
  /\ obj = <<>>
  /\ inString = FALSE
  /\ escaped = FALSE

\* The message has been handled; its final NUL may still be there.
Idle == Between /\ received = <<Meant(text)>> /\ stream \in {<<>>, <<"NUL">>}

\* In front of the message.
Waiting ==
  Between /\ received = <<>> /\ \E p \in Seq(Skipped) : Halves(stream, p, Body(text))

\* k characters of the opening have been read.
Opened(t, k, quoted) ==
  Midway(Gone(<<>>, Opening, k), Left(Opening, k, TextOnwards(t)), quoted, FALSE)

InOpening ==
  \/ Reader = Opened(Meant(text), 1, FALSE)
  \/ Reader = Opened(Meant(text), 2, TRUE)
  \/ Reader = Opened(Meant(text), 3, TRUE)
  \/ Reader = Opened(Meant(text), 4, TRUE)
  \/ Reader = Opened(Meant(text), 5, FALSE)
  \/ Reader = Opened(Meant(text), 6, FALSE)

InText ==
  \E a, b \in Seq(Char) :
    Halves(Meant(text), a, b) /\ Reader = Midway(SoFar(a), TextOnwards(b), TRUE, FALSE)

\* Behind the backslash in front of c.
InEscape ==
  \E a, b \in Seq(Char) : \E c \in Special :
    /\ Halves(Meant(text), a, Cons(c, b))
    /\ Reader = Midway(Append(SoFar(a), "backslash"), Cons(c, TextOnwards(b)), TRUE, TRUE)

\* k characters of the ending have been read.
Ended(t, k) == Midway(Gone(SoFar(t), Ending, k), Left(Ending, k, <<>>), FALSE, FALSE)

InEnding == Reader = Ended(Meant(text), 1) \/ Reader = Ended(Meant(text), 2)

Phase == Idle \/ Waiting \/ InOpening \/ InText \/ InEscape \/ InEnding

-----------------------------------------------------------------------------
\* Parts of the message.
LEMMA SoFarType == \A a \in Seq(Char) : SoFar(a) \in Seq(Char)
<1> SUFFICES ASSUME NEW a \in Seq(Char) PROVE SoFar(a) \in Seq(Char)
  OBVIOUS
<1>1. Opening \in Seq(Char) /\ Escaped(a) \in Seq(Char)
  BY OpeningFacts, EscapedFlattens
<1>2. QED
  BY <1>1, ConcatProperties DEF SoFar

LEMMA AppendInto ==
  \A x, y \in Seq(Char) : \A c \in Char : Append(x \o y, c) = x \o Append(y, c)
<1> SUFFICES ASSUME NEW x \in Seq(Char), NEW y \in Seq(Char), NEW c \in Char
             PROVE  Append(x \o y, c) = x \o Append(y, c)
  OBVIOUS
<1> DEFINE one == <<c>>
           xy == x \o y
<1>1. one \in Seq(Char) /\ xy \in Seq(Char)
  BY CharFacts, ConcatProperties
<1>2. (x \o y) \o one = x \o (y \o one)
  <2> HIDE DEF one, xy
  <2>1. QED
    BY ONLY <1>1, Regrouped
<1>3. Append(xy, c) = xy \o one /\ Append(y, c) = y \o one
  BY <1>1, AppendIsConcat
<1>4. QED
  BY <1>2, <1>3

LEMMA ConsInto ==
  \A c \in Char : \A a, b \in Seq(Char) : Cons(c, a) \o b = Cons(c, a \o b)
  BY ConsConcat

LEMMA SoFarNext ==
  ASSUME NEW a \in Seq(Char), NEW c \in Char
  PROVE  /\ c \in Special => Append(Append(SoFar(a), "backslash"), c) = SoFar(Append(a, c))
         /\ c \notin Special => Append(SoFar(a), c) = SoFar(Append(a, c))
<1> DEFINE o == Opening
           e == Escaped(a)
           bs == "backslash"
<1>1. o \in Seq(Char) /\ e \in Seq(Char) /\ bs \in Char
  BY OpeningFacts, EscapedFlattens, CharFacts
<1>2. Append(e, bs) \in Seq(Char)
  BY <1>1, AppendProperties
<1>3. Append(o \o e, bs) = o \o Append(e, bs) /\ Append(o \o e, c) = o \o Append(e, c)
  <2> HIDE DEF o, e, bs
  <2>1. QED
    BY <1>1, AppendInto
<1>4. Append(o \o Append(e, bs), c) = o \o Append(Append(e, bs), c)
  <2> DEFINE x == Append(e, bs)
  <2>1. x \in Seq(Char)
    BY <1>2
  <2>2. Append(o \o x, c) = o \o Append(x, c)
    <3> HIDE DEF o, x
    <3>1. QED
      BY <1>1, <2>1, AppendInto
  <2>3. QED
    BY <2>2
<1>5. CASE c \in Special
  <2>1. Escaped(Append(a, c)) = Append(Append(e, bs), c)
    BY <1>5, EscapedAppend
  <2>2. QED
    BY <1>3, <1>4, <1>5, <2>1 DEF SoFar
<1>6. CASE c \notin Special
  <2>1. Escaped(Append(a, c)) = Append(e, c)
    BY <1>6, EscapedAppend
  <2>2. QED
    BY <1>3, <1>6, <2>1 DEF SoFar
<1>7. QED
  BY <1>5, <1>6

LEMMA TextNext ==
  ASSUME NEW c \in Char, NEW b \in Seq(Char)
  PROVE  /\ c \in Special =>
              TextOnwards(Cons(c, b)) = Cons("backslash", Cons(c, TextOnwards(b)))
         /\ c \notin Special => TextOnwards(Cons(c, b)) = Cons(c, TextOnwards(b))
<1> DEFINE e == Escaped(b)
           n == Ending
           bs == "backslash"
<1>1. e \in Seq(Char) /\ n \in Seq(Char) /\ bs \in Char
  BY EndingFacts, EscapedFlattens, CharFacts
<1>2. Cons(c, e) \in Seq(Char)
  BY <1>1, ConsFacts
<1>3. Cons(c, e) \o n = Cons(c, e \o n)
  <2> HIDE DEF e, n
  <2>1. QED
    BY <1>1, ConsInto
<1>4. Cons(bs, Cons(c, e)) \o n = Cons(bs, Cons(c, e) \o n)
  <2> DEFINE x == Cons(c, e)
  <2>1. x \in Seq(Char)
    BY <1>2
  <2>2. Cons(bs, x) \o n = Cons(bs, x \o n)
    <3> HIDE DEF x, n, bs
    <3>1. QED
      BY <1>1, <2>1, ConsInto
  <2>3. QED
    BY <2>2
<1>5. CASE c \in Special
  <2>1. Escaped(Cons(c, b)) = Cons(bs, Cons(c, e))
    BY <1>5, EscapedCons
  <2>2. QED
    BY <1>3, <1>4, <1>5, <2>1 DEF TextOnwards
<1>6. CASE c \notin Special
  <2>1. Escaped(Cons(c, b)) = Cons(c, e)
    BY <1>6, EscapedCons
  <2>2. QED
    BY <1>3, <1>6, <2>1 DEF TextOnwards
<1>7. QED
  BY <1>5, <1>6

LEMMA EmptyTypes == <<>> \in Seq(Char)
  BY EmptySeq

LEMMA EndingNext ==
  /\ TextOnwards(<<>>) = Cons("quote", Left(Ending, 1, <<>>))
  /\ Left(Ending, 1, <<>>) = Cons("]", Left(Ending, 2, <<>>))
  /\ Left(Ending, 2, <<>>) = Cons("}", Left(Ending, 3, <<>>))
  /\ Left(Ending, 3, <<>>) = <<"NUL">>
  /\ \A k \in 1..3 : Left(Ending, k, <<>>) \in Seq(Char)
<1> DEFINE n == Ending
           l(k) == Left(n, k, <<>>)
<1>1. n \in Seq(Char) /\ Len(n) = 4
  BY EndingFacts
<1>2. n[1] = "quote" /\ n[2] = "]" /\ n[3] = "}" /\ n[4] = "NUL"
  BY EndingFacts
<1>3. ASSUME NEW k \in Nat, k + 1 <= 4
      PROVE  l(k) = Cons(n[k + 1], l(k + 1))
  BY <1>1, <1>3, LeftNext, EmptyTypes
<1>4. \A k \in 0..4 : l(k) \in Seq(Char)
  BY <1>1, LeftType, EmptyTypes
<1>5. l(0) = n \o <<>> /\ l(4) = <<>>
  <2>1. \A r \in Seq(Char) : Left(n, 0, r) = n \o r /\ Left(n, Len(n), r) = r
    BY <1>1, LeftEnds, Zenon
  <2>2. Left(n, 0, <<>>) = n \o <<>> /\ Left(n, Len(n), <<>>) = <<>>
    BY <2>1, EmptyTypes
  <2>3. QED
    BY <1>1, <2>2
<1>6. n \o <<>> = n
  BY <1>1, ConcatEmptySeq
<1>7. TextOnwards(<<>>) = n
  <2>1. Escaped(<<>>) \o n = <<>> \o n
    BY EscapedSmall
  <2>2. <<>> \o n = n
    BY <1>1, ConcatEmptySeq
  <2>3. QED
    BY <2>1, <2>2 DEF TextOnwards
<1> HIDE DEF l, n
<1>8. l(0) = Cons(n[1], l(1)) /\ l(1) = Cons(n[2], l(2))
      /\ l(2) = Cons(n[3], l(3)) /\ l(3) = Cons(n[4], l(4))
  <2>1. 0 + 1 = 1 /\ 1 + 1 = 2 /\ 2 + 1 = 3 /\ 3 + 1 = 4
    OBVIOUS
  <2>2. l(0) = Cons(n[0 + 1], l(0 + 1)) /\ l(1) = Cons(n[1 + 1], l(1 + 1))
        /\ l(2) = Cons(n[2 + 1], l(2 + 1)) /\ l(3) = Cons(n[3 + 1], l(3 + 1))
    BY <1>3
  <2>3. QED
    BY <2>1, <2>2
<1>9. Cons("NUL", <<>>) = <<"NUL">>
  BY DEF Cons
<1>10. l(3) = <<"NUL">>
  BY <1>2, <1>5, <1>8, <1>9
<1>11. TextOnwards(<<>>) = Cons("quote", l(1)) /\ l(1) = Cons("]", l(2)) /\ l(2) = Cons("}", l(3))
  BY <1>2, <1>5, <1>6, <1>7, <1>8
<1>12. \A k \in 1..3 : l(k) \in Seq(Char)
  BY <1>4
<1>13. QED
  BY <1>10, <1>11, <1>12 DEF l, n

-----------------------------------------------------------------------------
\* Single steps.  In the middle of a message only the next character is read, by
\* consumeString inside a string and by parse outside.
LEMMA ReaderParts ==
  ASSUME NEW o, NEW s, NEW q, NEW e, Reader = Midway(o, s, q, e)
  PROVE  /\ received = <<>> /\ open = "{" /\ needed = 1 /\ obj = o /\ stream = s
         /\ inString = q /\ escaped = e
  BY DEF Reader, Midway

LEMMA ReaderMade ==
  ASSUME NEW o, NEW s, NEW q, NEW e,
         received' = <<>>, open' = "{", needed' = 1, obj' = o, stream' = s,
         inString' = q, escaped' = e
  PROVE  Reader' = Midway(o, s, q, e)
  BY DEF Reader, Midway

LEMMA MidwayReads ==
  ASSUME NEW o \in Seq(Char), NEW c \in Char, NEW r \in Seq(Char),
         NEW q \in BOOLEAN, NEW e \in BOOLEAN, Reader = Midway(o, Cons(c, r), q, e), Next
  PROVE  /\ Head(stream) = c /\ Tail(stream) = r
         /\ IF q THEN ConsumeString ELSE CountBrackets
<1>1. /\ received = <<>> /\ open = "{" /\ stream = Cons(c, r)
      /\ inString = q
  BY ReaderParts
<1>2. Head(stream) = c /\ Tail(stream) = r
  BY <1>1, ConsFacts
<1>3. ~Write /\ ~FindBracket
  BY <1>1 DEF Write, FindBracket
<1>4. ConsumeString \/ CountBrackets
  BY <1>3 DEF Next
<1>5. CASE q
  <2>1. ~CountBrackets
    BY <1>1, <1>5 DEF CountBrackets
  <2>2. QED
    BY <1>2, <1>4, <1>5, <2>1
<1>6. CASE ~q
  <2>1. ~ConsumeString
    BY <1>1, <1>6 DEF ConsumeString
  <2>2. QED
    BY <1>2, <1>4, <1>6, <2>1
<1>7. QED
  BY <1>5, <1>6

LEMMA InStringStep ==
  ASSUME NEW o \in Seq(Char), NEW c \in Char, NEW r \in Seq(Char), NEW e \in BOOLEAN,
         c # "NUL", Reader = Midway(o, Cons(c, r), TRUE, e), Next
  PROVE  /\ text' = text
         /\ ~e /\ c = "quote" => Reader' = Midway(Append(o, c), r, FALSE, FALSE)
         /\ ~e /\ c = "backslash" => Reader' = Midway(Append(o, c), r, TRUE, TRUE)
         /\ e \/ c \notin Special => Reader' = Midway(Append(o, c), r, TRUE, FALSE)
<1>1. Head(stream) = c /\ stream' = r /\ ConsumeString
  <2>1. Head(stream) = c /\ Tail(stream) = r /\ ConsumeString
    BY MidwayReads
  <2>2. Read(Head(stream) = "NUL")
    BY <2>1 DEF ConsumeString
  <2>3. QED
    BY <2>1, <2>2 DEF Read
<1>2. received = <<>> /\ open = "{" /\ needed = 1 /\ obj = o /\ escaped = e
  BY ReaderParts
<1>3. /\ obj' = Append(obj, Head(stream))
      /\ escaped' = (Head(stream) = "backslash" /\ ~escaped)
      /\ inString' = (Head(stream) # "quote" \/ escaped)
      /\ UNCHANGED <<text, open, needed, received>>
  BY <1>1 DEF ConsumeString
<1>4. received' = <<>> /\ open' = "{" /\ needed' = 1 /\ obj' = Append(o, c)
      /\ text' = text
  BY <1>1, <1>2, <1>3
<1>5. escaped' = (c = "backslash" /\ ~e) /\ inString' = (c # "quote" \/ e)
  BY <1>1, <1>2, <1>3
<1>6. CASE ~e /\ c = "quote"
  <2>1. escaped' = FALSE /\ inString' = FALSE
    BY <1>5, <1>6
  <2>2. QED
    BY <1>1, <1>4, <1>6, <2>1, ReaderMade DEF Special
<1>7. CASE ~e /\ c = "backslash"
  <2>1. escaped' = TRUE /\ inString' = TRUE
    BY <1>5, <1>7
  <2>2. QED
    BY <1>1, <1>4, <1>7, <2>1, ReaderMade DEF Special
<1>8. CASE e \/ c \notin Special
  <2>1. escaped' = FALSE /\ inString' = TRUE
    BY <1>5, <1>8 DEF Special
  <2>2. QED
    BY <1>1, <1>4, <1>8, <2>1, ReaderMade DEF Special
<1>9. QED
  BY <1>6, <1>7, <1>8 DEF Special

\* Outside of strings everything but a curly bracket is collected and not counted.
LEMMA OutsideStep ==
  ASSUME NEW o \in Seq(Char), NEW c \in Char, NEW r \in Seq(Char),
         c \notin {"{", "}"}, Reader = Midway(o, Cons(c, r), FALSE, FALSE), Next
  PROVE  /\ text' = text
         /\ c = "quote" => Reader' = Midway(Append(o, c), r, TRUE, FALSE)
         /\ c # "quote" => Reader' = Midway(Append(o, c), r, FALSE, FALSE)
<1> DEFINE left == CASE Head(stream) = open  -> needed + 1
                     [] Head(stream) = Close -> needed - 1
                     [] OTHER                -> needed
<1>1. Head(stream) = c /\ Tail(stream) = r /\ CountBrackets
  BY MidwayReads
<1>2. received = <<>> /\ open = "{" /\ needed = 1 /\ obj = o /\ escaped = FALSE
  BY ReaderParts
<1>3. /\ inString' = (Head(stream) = "quote")
      /\ Read(left = 0 /\ ~IsMessage(Append(obj, Head(stream))))
      /\ left # 0 => /\ needed' = left /\ obj' = Append(obj, Head(stream))
                     /\ UNCHANGED <<open, received>>
      /\ UNCHANGED <<text, escaped>>
  BY <1>1 DEF CountBrackets
<1>4. left = 1
  <2>1. Close = "}"
    BY <1>2 DEF Close
  <2>2. QED
    BY <1>1, <1>2, <2>1
<1> HIDE DEF left
<1>5. needed' = 1 /\ obj' = Append(o, c) /\ UNCHANGED <<open, received>>
  <2>1. left # 0
    BY ONLY <1>4
  <2>2. needed' = left /\ obj' = Append(obj, Head(stream)) /\ UNCHANGED <<open, received>>
    BY <1>3, <2>1
  <2>3. QED
    BY <1>1, <1>2, <1>4, <2>2, Zenon
<1>6. text' = text /\ received' = <<>> /\ open' = "{" /\ escaped' = FALSE /\ stream' = r
  <2>1. left # 0
    BY ONLY <1>4
  <2>2. stream' = r
    BY <1>1, <1>3, <2>1 DEF Read
  <2>3. QED
    BY <1>2, <1>3, <1>5, <2>2
<1>7. /\ c = "quote" => inString' = TRUE
      /\ c # "quote" => inString' = FALSE
  BY <1>1, <1>3
<1>8. QED
  BY <1>1, <1>5, <1>6, <1>7, ReaderMade

\* The closing bracket ends the message.
LEMMA LastStep ==
  ASSUME NEW o \in Seq(Char), NEW r \in Seq(Char),
         IsMessage(Append(o, "}")), Reader = Midway(o, Cons("}", r), FALSE, FALSE), Next
  PROVE  /\ text' = text /\ received' = <<DataOf(Append(o, "}"))>> /\ stream' = r
         /\ Between'
<1> DEFINE left == CASE Head(stream) = open  -> needed + 1
                     [] Head(stream) = Close -> needed - 1
                     [] OTHER                -> needed
<1>1. Head(stream) = "}" /\ Tail(stream) = r /\ CountBrackets
  BY MidwayReads, CharFacts
<1>2. open = "{" /\ needed = 1 /\ obj = o /\ escaped = FALSE
  BY ReaderParts
<1>3. /\ inString' = (Head(stream) = "quote")
      /\ Read(left = 0 /\ ~IsMessage(Append(obj, Head(stream))))
      /\ left = 0 => /\ received' = IF IsMessage(Append(obj, Head(stream)))
                                    THEN <<DataOf(Append(obj, Head(stream)))>> ELSE <<>>
                     /\ open' = "none" /\ needed' = 0 /\ obj' = <<>>
      /\ UNCHANGED <<text, escaped>>
  BY <1>1 DEF CountBrackets
<1>4. left = 0
  <2>1. Close = "}"
    BY <1>2 DEF Close
  <2>2. Head(stream) # open /\ Head(stream) = Close
    BY <1>1, <1>2, <2>1
  <2>3. left = needed - 1
    BY <2>2
  <2> HIDE DEF left
  <2>4. needed = 1
    BY <1>2
  <2>5. QED
    BY ONLY <2>3, <2>4
<1> HIDE DEF left
<1>5. received' = <<DataOf(Append(o, "}"))>> /\ open' = "none" /\ needed' = 0 /\ obj' = <<>>
  BY <1>1, <1>2, <1>3, <1>4
<1>6. text' = text /\ escaped' = FALSE /\ inString' = FALSE /\ stream' = r
  <2>1. IsMessage(Append(obj, Head(stream)))
    BY <1>1, <1>2
  <2>2. stream' = r
    BY <1>1, <1>3, <2>1 DEF Read
  <2>3. QED
    BY <1>1, <1>2, <1>3, <2>2
<1>7. QED
  BY <1>1, <1>5, <1>6 DEF Between

-----------------------------------------------------------------------------
\* Step by step through the phases.
LEMMA MeantText == TypeInv => Meant(text) \in Seq(Char)
  BY MeantType DEF TypeInv

\* Behind the opening the text begins.
LEMMA OpeningEnds ==
  /\ Gone(<<>>, Opening, 7) = SoFar(<<>>)
  /\ \A r \in Seq(Char) : Left(Opening, 7, r) = r
<1>1. Opening \in Seq(Char) /\ Len(Opening) = 7
  BY OpeningFacts
<1>2. Gone(<<>>, Opening, Len(Opening)) = <<>> \o Opening
      /\ \A r \in Seq(Char) : Left(Opening, Len(Opening), r) = r
  BY <1>1, LeftEnds, EmptyTypes, Zenon
<1>3. <<>> \o Opening = Opening /\ Opening \o <<>> = Opening
  BY <1>1, ConcatEmptySeq
<1>4. SoFar(<<>>) = Opening
  BY <1>3, EscapedSmall DEF SoFar
<1>5. QED
  BY <1>1, <1>2, <1>3, <1>4

LEMMA HalvesEnds ==
  ASSUME NEW t \in Seq(Char)
  PROVE  Halves(t, <<>>, t) /\ \A a \in Seq(Char) : Halves(t, a, <<>>) => a = t
<1>1. t = <<>> \o t
  BY ConcatEmptySeq
<1>2. ASSUME NEW a \in Seq(Char), t = a \o <<>>
      PROVE  a = t
  BY <1>2, ConcatEmptySeq
<1>3. QED
  BY <1>1, <1>2 DEF Halves

LEMMA OpeningInside == \A i \in 2..7 : Opening[i] \in {"quote", "a", "["}
<1> SUFFICES ASSUME NEW i \in 2..7 PROVE Opening[i] \in {"quote", "a", "["}
  OBVIOUS
<1>1. i = 2 \/ i = 3 \/ i = 4 \/ i = 5 \/ i = 6 \/ i = 7
  OBVIOUS
<1>2. QED
  BY <1>1, OpeningFacts, Zenon

LEMMA OpenedNext ==
  ASSUME NEW t, t = Meant(text), t \in Seq(Char), NEW k \in 1..6, NEW quoted \in BOOLEAN,
         Reader = Opened(t, k, quoted), Next
  PROVE  LET c == Opening[k + 1]
         IN  /\ text' = text
             /\ quoted /\ c = "quote" => Reader' = Opened(t, k + 1, FALSE)
             /\ quoted /\ c \notin Special => Reader' = Opened(t, k + 1, TRUE)
             /\ ~quoted /\ c = "quote" => Reader' = Opened(t, k + 1, TRUE)
             /\ ~quoted /\ c \notin {"quote", "{", "}"} => Reader' = Opened(t, k + 1, FALSE)
<1> DEFINE b == TextOnwards(t)
           c == Opening[k + 1]
           gone(i) == Gone(<<>>, Opening, i)
           left(i) == Left(Opening, i, b)
           x == gone(k)
           y == left(k + 1)
           xc == Append(x, c)
<1>1. b \in Seq(Char)
  BY BodyType
<1>2. Opening \in Seq(Char) /\ Len(Opening) = 7
  BY OpeningFacts
<1>3. k \in Nat /\ k + 1 \in 0..7 /\ k \in 0..7 /\ k + 1 <= 7 /\ k + 1 \in 1..7
  OBVIOUS
<1>4. x \in Seq(Char) /\ y \in Seq(Char) /\ c \in Char
  <2> HIDE DEF b
  <2>1. c \in Char
    BY <1>2, <1>3, ElementOfSeq
  <2>2. QED
    BY <1>1, <1>2, <1>3, <2>1, LeftType, EmptyTypes
<1>5. left(k) = Cons(c, y)
  <2> HIDE DEF b
  <2>1. QED
    BY <1>1, <1>2, <1>3, LeftNext
<1>6. xc = gone(k + 1)
  BY <1>2, <1>3, GoneNext, EmptyTypes
<1>7. Reader = Midway(x, Cons(c, y), quoted, FALSE)
  BY <1>5 DEF Opened
<1>8. \A q : Midway(xc, y, q, FALSE) = Opened(t, k + 1, q)
  BY <1>6 DEF Opened
<1> DEFINE further(q) == Opened(t, k + 1, q)
<1> HIDE DEF x, y, c, gone, left, further
<1>9. \A q : Midway(Append(x, c), y, q, FALSE) = further(q)
  BY <1>8 DEF further
<1>10. c \notin {"{", "}", "NUL"}
  <2>1. k + 1 \in 2..7
    OBVIOUS
  <2>2. QED
    BY <2>1, OpeningInside DEF c
<1>11. CASE quoted
  <2>1. Reader = Midway(x, Cons(c, y), TRUE, FALSE)
    BY <1>7, <1>11
  <2>2. /\ text' = text
        /\ c = "quote" => Reader' = Midway(Append(x, c), y, FALSE, FALSE)
        /\ c \notin Special => Reader' = Midway(Append(x, c), y, TRUE, FALSE)
    BY <1>4, <1>10, <2>1, InStringStep
  <2>3. QED
    BY <1>9, <1>11, <2>2 DEF further, c
<1>12. CASE ~quoted
  <2>1. Reader = Midway(x, Cons(c, y), FALSE, FALSE)
    BY <1>7, <1>12
  <2>2. c \notin {"{", "}"} =>
          /\ text' = text
          /\ c = "quote" => Reader' = Midway(Append(x, c), y, TRUE, FALSE)
          /\ c # "quote" => Reader' = Midway(Append(x, c), y, FALSE, FALSE)
    BY <1>4, <2>1, OutsideStep
  <2>3. QED
    BY <1>9, <1>10, <1>12, <2>2 DEF further, c
<1>13. QED
  BY <1>11, <1>12

LEMMA OpeningStep == TypeInv /\ InOpening /\ Next => (InOpening \/ InText)'
<1> SUFFICES ASSUME TypeInv, InOpening, Next PROVE (InOpening \/ InText)'
  OBVIOUS
<1> DEFINE t == Meant(text)
<1>1. t \in Seq(Char) /\ TextOnwards(t) \in Seq(Char)
  BY MeantText, BodyType
<1> HIDE DEF t
<1>2. t = Meant(text)
  BY DEF t
<1>3. CASE Reader = Opened(t, 1, FALSE)
  <2>1. 1 + 1 = 2 /\ 1 \in 1..6
    OBVIOUS
  <2>2. Opening[1 + 1] = "quote"
    BY <2>1, OpeningFacts
  <2>3. text' = text /\ Reader' = Opened(t, 1 + 1, TRUE)
    BY <1>1, <1>2, <1>3, <2>1, <2>2, OpenedNext
  <2>4. QED
    BY <1>2, <2>1, <2>3 DEF InOpening
<1>4. CASE Reader = Opened(t, 2, TRUE)
  <2>1. 2 + 1 = 3 /\ 2 \in 1..6
    OBVIOUS
  <2>2. Opening[2 + 1] \notin Special
    BY <2>1, OpeningFacts DEF Special
  <2>3. text' = text /\ Reader' = Opened(t, 2 + 1, TRUE)
    BY <1>1, <1>2, <1>4, <2>1, <2>2, OpenedNext
  <2>4. QED
    BY <1>2, <2>1, <2>3 DEF InOpening
<1>5. CASE Reader = Opened(t, 3, TRUE)
  <2>1. 3 + 1 = 4 /\ 3 \in 1..6
    OBVIOUS
  <2>2. Opening[3 + 1] \notin Special
    BY <2>1, OpeningFacts DEF Special
  <2>3. text' = text /\ Reader' = Opened(t, 3 + 1, TRUE)
    BY <1>1, <1>2, <1>5, <2>1, <2>2, OpenedNext
  <2>4. QED
    BY <1>2, <2>1, <2>3 DEF InOpening
<1>6. CASE Reader = Opened(t, 4, TRUE)
  <2>1. 4 + 1 = 5 /\ 4 \in 1..6
    OBVIOUS
  <2>2. Opening[4 + 1] = "quote"
    BY <2>1, OpeningFacts
  <2>3. text' = text /\ Reader' = Opened(t, 4 + 1, FALSE)
    BY <1>1, <1>2, <1>6, <2>1, <2>2, OpenedNext
  <2>4. QED
    BY <1>2, <2>1, <2>3 DEF InOpening
<1>7. CASE Reader = Opened(t, 5, FALSE)
  <2>1. 5 + 1 = 6 /\ 5 \in 1..6
    OBVIOUS
  <2>2. Opening[5 + 1] \notin {"quote", "{", "}"}
    BY <2>1, OpeningFacts
  <2>3. text' = text /\ Reader' = Opened(t, 5 + 1, FALSE)
    BY <1>1, <1>2, <1>7, <2>1, <2>2, OpenedNext
  <2>4. QED
    BY <1>2, <2>1, <2>3 DEF InOpening
<1>8. CASE Reader = Opened(t, 6, FALSE)
  <2>1. 6 + 1 = 7 /\ 6 \in 1..6
    OBVIOUS
  <2>2. Opening[6 + 1] = "quote"
    BY <2>1, OpeningFacts
  <2>3. text' = text /\ Reader' = Opened(t, 6 + 1, TRUE)
    BY <1>1, <1>2, <1>8, <2>1, <2>2, OpenedNext
  <2>4. Reader' = Midway(SoFar(<<>>), TextOnwards(t), TRUE, FALSE)
    BY <1>1, <2>1, <2>3, OpeningEnds DEF Opened
  <2>5. Meant(text)' = t /\ Halves(t, <<>>, t)
    BY <1>1, <1>2, <2>3, HalvesEnds
  <2>6. QED
    BY <1>1, <2>4, <2>5, EmptyTypes DEF InText
<1>9. QED
  BY <1>2, <1>3, <1>4, <1>5, <1>6, <1>7, <1>8 DEF InOpening

\* The end of the message is no character of a text.
LEMMA TextHasNoNul ==
  ASSUME TypeInv, NEW a \in Seq(Char), NEW c \in Char, NEW b \in Seq(Char),
         Halves(Meant(text), a, Cons(c, b))
  PROVE  c # "NUL"
<1> DEFINE t == Meant(text)
           r == Cons(c, b)
<1>1. r \in Seq(Char) /\ r # <<>> /\ Head(r) = c
  BY ConsFacts
<1>2. t = a \o r
  BY DEF Halves
<1>3. DOMAIN t = 1..Len(text) /\ \A i \in 1..Len(text) : t[i] = "newline" \/ t[i] \in Alphabet
  <2>1. DOMAIN text = 1..Len(text) /\ \A i \in 1..Len(text) : text[i] \in Alphabet
    BY LenProperties, ElementOfSeq DEF TypeInv
  <2>2. QED
    BY <2>1 DEF Meant
<1> HIDE DEF t, r
<1>4. /\ a \o r \in Seq(Char) /\ Len(a \o r) = Len(a) + Len(r)
      /\ \A i \in 1..Len(a) + Len(r) : (a \o r)[i] = IF i <= Len(a) THEN a[i] ELSE r[i - Len(a)]
  BY <1>1, ConcatProperties
<1>5. Len(a) \in Nat /\ Len(r) \in Nat /\ Len(r) # 0
  BY <1>1, LenProperties, EmptySeq
<1> DEFINE k == Len(a) + 1
<1>6. k \in 1..Len(a) + Len(r) /\ ~(k <= Len(a)) /\ k - Len(a) = 1
  BY <1>5
<1> HIDE DEF k
<1>7. t[k] = c
  <2>1. r[1] = c
    BY <1>1
  <2>2. QED
    BY <1>2, <1>4, <1>6, <2>1
<1>8. k \in DOMAIN t
  BY <1>2, <1>4, <1>6, LenProperties
<1>9. "NUL" \notin Alphabet
  BY FramingAssumption
<1>10. QED
  BY <1>3, <1>7, <1>8, <1>9

LEMMA EndingGone ==
  ASSUME NEW x \in Seq(Char)
  PROVE  /\ Append(x, "quote") = Gone(x, Ending, 1)
         /\ Append(Gone(x, Ending, 1), "]") = Gone(x, Ending, 2)
         /\ Append(Gone(x, Ending, 2), "}") = Gone(x, Ending, 3)
         /\ \A k \in 1..3 : Gone(x, Ending, k) \in Seq(Char)
<1> DEFINE n == Ending
           gone(k) == Gone(x, n, k)
<1>1. n \in Seq(Char) /\ Len(n) = 4
  BY EndingFacts
<1>2. n[1] = "quote" /\ n[2] = "]" /\ n[3] = "}"
  BY EndingFacts
<1>3. \A k \in 0..4 : gone(k) \in Seq(Char)
  BY <1>1, LeftType
<1>4. ASSUME NEW k \in Nat, k + 1 <= 4
      PROVE  Append(gone(k), n[k + 1]) = gone(k + 1)
  BY <1>1, <1>4, GoneNext
<1>5. gone(0) = x
  BY <1>1, LeftEnds
<1> HIDE DEF gone, n
<1>6. 0 + 1 = 1 /\ 1 + 1 = 2 /\ 2 + 1 = 3
  OBVIOUS
<1>7. /\ Append(gone(0), n[0 + 1]) = gone(0 + 1)
      /\ Append(gone(1), n[1 + 1]) = gone(1 + 1)
      /\ Append(gone(2), n[2 + 1]) = gone(2 + 1)
  <2>1. /\ 0 \in Nat /\ 1 \in Nat /\ 2 \in Nat
        /\ 0 + 1 <= 4 /\ 1 + 1 <= 4 /\ 2 + 1 <= 4
    OBVIOUS
  <2>2. QED
    BY <1>4, <2>1, Zenon
<1>8. /\ Append(x, "quote") = gone(1)
      /\ Append(gone(1), "]") = gone(2)
      /\ Append(gone(2), "}") = gone(3)
  BY <1>2, <1>5, <1>6, <1>7
<1>9. \A k \in 1..3 : gone(k) \in Seq(Char)
  BY <1>3
<1>10. QED
  BY <1>8, <1>9 DEF gone, n

LEMMA TextStep == TypeInv /\ InText /\ Next => (InText \/ InEscape \/ InEnding)'
<1> SUFFICES ASSUME TypeInv, InText, Next PROVE (InText \/ InEscape \/ InEnding)'
  OBVIOUS
<1> DEFINE t == Meant(text)
<1>1. t \in Seq(Char)
  BY MeantText
<1> HIDE DEF t
<1>2. PICK a \in Seq(Char), b \in Seq(Char) :
        Halves(t, a, b) /\ Reader = Midway(SoFar(a), TextOnwards(b), TRUE, FALSE)
  BY DEF InText, t
<1>3. SoFar(a) \in Seq(Char)
  BY SoFarType
<1>4. text' = text => Meant(text)' = t
  BY DEF t
<1>5. CASE b = <<>>
  <2> DEFINE r == Left(Ending, 1, <<>>)
  <2>1. r \in Seq(Char) /\ TextOnwards(b) = Cons("quote", r)
    <3>1. 1 \in 1..3
      OBVIOUS
    <3>2. r \in Seq(Char)
      BY <3>1, EndingNext
    <3>3. TextOnwards(b) = Cons("quote", r)
      BY <1>5, EndingNext
    <3>4. QED
      BY <3>2, <3>3
  <2>2. text' = text /\ Reader' = Midway(Append(SoFar(a), "quote"), r, FALSE, FALSE)
    <3> HIDE DEF r
    <3>1. QED
      BY <1>2, <1>3, <2>1, InStringStep, CharFacts
  <2>3. a = t
    BY <1>1, <1>2, <1>5, HalvesEnds
  <2>4. Append(SoFar(a), "quote") = Gone(SoFar(a), Ending, 1)
    BY <1>3, EndingGone
  <2>5. Reader' = Ended(t, 1)
    BY <2>2, <2>3, <2>4 DEF Ended
  <2>6. QED
    BY <1>4, <2>2, <2>5 DEF InEnding
<1>6. CASE b # <<>>
  <2>1. PICK c \in Char, d \in Seq(Char) : b = Cons(c, d)
    BY <1>6, ConsParts
  <2>2. TextOnwards(d) \in Seq(Char) /\ c # "NUL"
    BY <1>2, <2>1, BodyType, TextHasNoNul DEF t
  <2>3. CASE c \in Special
    <3> DEFINE r == Cons(c, TextOnwards(d))
    <3>1. r \in Seq(Char) /\ TextOnwards(b) = Cons("backslash", r)
      BY <2>1, <2>2, <2>3, ConsFacts, TextNext
    <3>2. text' = text /\ Reader' = Midway(Append(SoFar(a), "backslash"), r, TRUE, TRUE)
      <4> HIDE DEF r
      <4>1. QED
        BY <1>2, <1>3, <3>1, InStringStep, CharFacts
    <3>3. QED
      BY <1>2, <1>4, <2>1, <2>3, <3>2 DEF InEscape
  <2>4. CASE c \notin Special
    <3> DEFINE r == TextOnwards(d)
               ac == Append(a, c)
    <3>1. r \in Seq(Char) /\ TextOnwards(b) = Cons(c, r)
      BY <2>1, <2>2, <2>4, TextNext
    <3>2. text' = text /\ Reader' = Midway(Append(SoFar(a), c), r, TRUE, FALSE)
      <4> HIDE DEF r
      <4>1. QED
        BY <1>2, <1>3, <2>2, <2>4, <3>1, InStringStep
    <3>3. Append(SoFar(a), c) = SoFar(ac)
      BY <2>4, SoFarNext
    <3>4. ac \in Seq(Char)
      BY AppendProperties
    <3>5. Halves(t, ac, d)
      BY <1>2, <2>1, HalvesMove
    <3> HIDE DEF ac
    <3>6. QED
      BY <1>4, <3>2, <3>3, <3>4, <3>5 DEF InText
  <2>5. QED
    BY <2>3, <2>4
<1>7. QED
  BY <1>5, <1>6

LEMMA EscapeStep == TypeInv /\ InEscape /\ Next => InText'
<1> SUFFICES ASSUME TypeInv, InEscape, Next PROVE InText'
  OBVIOUS
<1> DEFINE t == Meant(text)
<1>1. PICK a \in Seq(Char), b \in Seq(Char), c \in Special :
        /\ Halves(t, a, Cons(c, b))
        /\ Reader = Midway(Append(SoFar(a), "backslash"), Cons(c, TextOnwards(b)), TRUE, TRUE)
  BY DEF InEscape
<1>2. text' = text => Meant(text)' = t
  OBVIOUS
<1> HIDE DEF t
<1>3. c \in Char /\ c # "NUL"
  BY CharFacts DEF Special
<1> DEFINE o == Append(SoFar(a), "backslash")
           r == TextOnwards(b)
           ac == Append(a, c)
<1>4. o \in Seq(Char) /\ r \in Seq(Char)
  BY SoFarType, CharFacts, AppendProperties, BodyType
<1>5. text' = text /\ Reader' = Midway(Append(o, c), r, TRUE, FALSE)
  <2>1. Reader = Midway(o, Cons(c, r), TRUE, TRUE)
    BY <1>1
  <2> HIDE DEF o, r
  <2>2. QED
    BY <1>3, <1>4, <2>1, InStringStep
<1>6. Append(o, c) = SoFar(ac)
  BY <1>3, SoFarNext
<1>7. ac \in Seq(Char)
  BY <1>3, AppendProperties
<1>8. Halves(t, ac, b)
  BY <1>1, <1>3, HalvesMove
<1> HIDE DEF ac, o
<1>9. QED
  BY <1>2, <1>5, <1>6, <1>7, <1>8 DEF InText

\* What the handler gets of the whole message is the text.
LEMMA WholeMessage ==
  ASSUME NEW t \in Seq(Char)
  PROVE  LET o == Gone(SoFar(t), Ending, 3)
         IN  IsMessage(o) /\ DataOf(o) = t
<1>1. Escaped(t) \in Seq(Char)
  BY EscapedFlattens
<1> DEFINE o == Gone(Opening \o Escaped(t), Ending, 3)
<1>2. IsMessage(o) /\ DataOf(o) = Unescaped(Escaped(t))
  BY <1>1, DataOfMessage
<1>3. QED
  BY <1>2, UnescapedEscaped DEF SoFar

LEMMA EndingStep == TypeInv /\ InEnding /\ Next => (InEnding \/ Idle)'
<1> SUFFICES ASSUME TypeInv, InEnding, Next PROVE (InEnding \/ Idle)'
  OBVIOUS
<1> DEFINE t == Meant(text)
           gone(k) == Gone(SoFar(t), Ending, k)
           left(k) == Left(Ending, k, <<>>)
<1>1. t \in Seq(Char)
  BY MeantText
<1>2. text' = text => Meant(text)' = t
  OBVIOUS
<1>3. SoFar(t) \in Seq(Char)
  BY <1>1, SoFarType
<1>4. \A k \in 1..3 : gone(k) \in Seq(Char) /\ left(k) \in Seq(Char)
  BY <1>3, EndingGone, EndingNext
<1>5. Reader = Ended(t, 1) \/ Reader = Ended(t, 2)
  BY DEF InEnding
<1> HIDE DEF t
<1>6. left(1) = Cons("]", left(2)) /\ left(2) = Cons("}", left(3)) /\ left(3) = <<"NUL">>
  BY EndingNext
<1>7. Append(gone(1), "]") = gone(2) /\ Append(gone(2), "}") = gone(3)
  BY <1>3, EndingGone
<1>8. IsMessage(gone(3)) /\ DataOf(gone(3)) = t
  BY <1>1, WholeMessage
<1>9. \A k : Ended(t, k) = Midway(gone(k), left(k), FALSE, FALSE)
  BY DEF Ended
<1> HIDE DEF gone, left
<1>10. /\ gone(1) \in Seq(Char) /\ gone(2) \in Seq(Char)
       /\ left(2) \in Seq(Char) /\ left(3) \in Seq(Char)
  <2>1. 1 \in 1..3 /\ 2 \in 1..3 /\ 3 \in 1..3
    OBVIOUS
  <2>2. QED
    BY <1>4, <2>1, Zenon
<1>11. CASE Reader = Ended(t, 1)
  <2>1. Reader = Midway(gone(1), Cons("]", left(2)), FALSE, FALSE)
    BY <1>6, <1>9, <1>11
  <2>2. text' = text /\ Reader' = Midway(Append(gone(1), "]"), left(2), FALSE, FALSE)
    BY <1>10, <2>1, OutsideStep, CharFacts
  <2>3. Reader' = Ended(t, 2)
    BY <1>7, <1>9, <2>2
  <2>4. QED
    BY <1>2, <2>2, <2>3 DEF InEnding
<1>12. CASE Reader = Ended(t, 2)
  <2>1. Reader = Midway(gone(2), Cons("}", left(3)), FALSE, FALSE)
    BY <1>6, <1>9, <1>12
  <2>2. /\ text' = text /\ received' = <<DataOf(Append(gone(2), "}"))>> /\ stream' = left(3)
        /\ Between'
    BY <1>7, <1>8, <1>10, <2>1, LastStep
  <2>3. received' = <<t>> /\ stream' = <<"NUL">>
    BY <1>6, <1>7, <1>8, <2>2
  <2>4. QED
    BY <1>2, <2>2, <2>3 DEF Idle
<1>13. QED
  BY <1>5, <1>11, <1>12

\* Between two messages only determine_bracket_type reads.
LEMMA BetweenReads ==
  ASSUME Between, Next
  PROVE  Write \/ FindBracket
<1>1. open = "none"
  BY DEF Between
<1>2. ~ConsumeString /\ ~CountBrackets
  BY <1>1 DEF ConsumeString, CountBrackets, InMessage
<1>3. QED
  BY <1>2 DEF Next

\* What is no bracket is skipped, a curly bracket begins a message.
LEMMA FindBracketStep ==
  ASSUME Between, FindBracket, NEW c \in Char, NEW r \in Seq(Char), stream = Cons(c, r)
  PROVE  /\ text' = text /\ received' = received /\ stream' = r
         /\ c \notin {"{", "["} => Between'
         /\ c = "{" /\ received = <<>> => Reader' = Midway(<<c>>, r, FALSE, FALSE)
<1>1. Head(stream) = c /\ Tail(stream) = r
  BY ConsFacts
<1>2. /\ stream' = Tail(stream)
      /\ Head(stream) \in {"{", "["} =>
           open' = Head(stream) /\ needed' = 1 /\ obj' = <<Head(stream)>>
      /\ Head(stream) \notin {"{", "["} => UNCHANGED <<open, needed, obj>>
      /\ UNCHANGED <<text, inString, escaped, received>>
  BY DEF FindBracket
<1>3. /\ open = "none" /\ needed = 0 /\ obj = <<>>
      /\ inString = FALSE /\ escaped = FALSE
  BY DEF Between
<1>4. CASE c \notin {"{", "["}
  <2>1. UNCHANGED <<open, needed, obj>>
    BY <1>1, <1>2, <1>4
  <2>2. QED
    BY <1>1, <1>2, <1>3, <1>4, <2>1 DEF Between
<1>5. CASE c \in {"{", "["}
  <2>1. open' = c /\ needed' = 1 /\ obj' = <<c>>
    BY <1>1, <1>2, <1>5
  <2>2. c = "{" /\ received = <<>> => Reader' = Midway(<<c>>, r, FALSE, FALSE)
    BY <1>1, <1>2, <1>3, <2>1, ReaderMade
  <2>3. QED
    BY <1>1, <1>2, <1>5, <2>2
<1>6. QED
  BY <1>4, <1>5

LEMMA BodyBegins ==
  ASSUME NEW t \in Seq(Alphabet)
  PROVE  LET r == Left(Opening, 1, TextOnwards(Meant(t)))
         IN  r \in Seq(Char) /\ Body(t) = Cons("{", r)
             /\ \A q : Midway(<<"{">>, r, q, FALSE) = Opened(Meant(t), 1, q)
<1> DEFINE b == TextOnwards(Meant(t))
           r == Left(Opening, 1, b)
<1>1. b \in Seq(Char)
  BY MeantType, BodyType
<1>2. Opening \in Seq(Char) /\ Len(Opening) = 7 /\ Opening[1] = "{"
  BY OpeningFacts
<1>3. 0 + 1 = 1 /\ 0 \in Nat /\ 0 + 1 <= 7 /\ 1 \in 0..7
  OBVIOUS
<1>4. Body(t) = Cons("{", r) /\ r \in Seq(Char)
  <2> HIDE DEF b
  <2>1. Left(Opening, 0, b) = Opening \o b
    BY <1>1, <1>2, LeftEnds
  <2>2. Left(Opening, 0, b) = Cons(Opening[0 + 1], Left(Opening, 0 + 1, b))
    BY <1>1, <1>2, <1>3, LeftNext
  <2>3. r \in Seq(Char)
    BY <1>1, <1>2, <1>3, LeftType
  <2>4. Body(t) = Opening \o b
    BY DEF Body, b
  <2>5. QED
    BY <1>2, <1>3, <2>1, <2>2, <2>3, <2>4
<1>5. Gone(<<>>, Opening, 1) = <<"{">>
  <2>1. Gone(<<>>, Opening, 0) = <<>>
    BY <1>2, LeftEnds, EmptyTypes
  <2>2. Append(Gone(<<>>, Opening, 0), Opening[0 + 1]) = Gone(<<>>, Opening, 0 + 1)
    BY <1>2, <1>3, GoneNext, EmptyTypes
  <2>3. Append(<<>>, "{") = <<"{">>
    OBVIOUS
  <2>4. QED
    BY <1>2, <1>3, <2>1, <2>2, <2>3
<1>6. QED
  BY <1>4, <1>5 DEF Opened

LEMMA SkippedSeq ==
  /\ Seq(Skipped) \subseteq Seq(Char)
  /\ <<>> \in Seq(Skipped) /\ <<"NUL">> \in Seq(Skipped)
<1>1. Skipped \subseteq Char /\ "NUL" \in Skipped
  BY CharFacts DEF Skipped
<1>2. ASSUME NEW S, NEW T, S \subseteq T, NEW s \in Seq(S)
      PROVE  s \in Seq(T)
  <2>1. Len(s) \in Nat /\ s \in [1..Len(s) -> S]
    BY LenProperties
  <2>2. s \in [1..Len(s) -> T]
    BY <1>2, <2>1
  <2>3. QED
    BY <2>1, <2>2, SeqDef
<1>3. ASSUME NEW S, NEW c \in S
      PROVE  <<c>> \in Seq(S)
  OBVIOUS
<1>4. QED
  BY <1>1, <1>2, <1>3, EmptySeq

LEMMA EndingNul == <<"NUL">> = Cons("NUL", <<>>)
  BY DEF Cons

LEMMA EmptyMeant == Meant(<<>>) = <<>>
<1>1. DOMAIN <<>> = {}
  OBVIOUS
<1>2. Meant(<<>>) = [i \in {} |-> "newline"]
  BY <1>1 DEF Meant
<1>3. QED
  BY <1>2

LEMMA WaitingStep == TypeInv /\ Waiting /\ Next => (Waiting \/ InOpening)'
<1> SUFFICES ASSUME TypeInv, Waiting, Next PROVE (Waiting \/ InOpening)'
  OBVIOUS
<1> DEFINE b == Body(text)
<1>1. Between /\ received = <<>>
  BY DEF Waiting
<1>2. PICK p \in Seq(Skipped) : Halves(stream, p, b)
  BY DEF Waiting
<1>3. b \in Seq(Char)
  BY BodyType DEF TypeInv
<1>4. FindBracket
  <2>1. ~Write
    BY <1>1 DEF Write
  <2>2. QED
    BY <1>1, <2>1, BetweenReads
<1>5. CASE p = <<>>
  <2> DEFINE r == Left(Opening, 1, TextOnwards(Meant(text)))
  <2>1. r \in Seq(Char) /\ b = Cons("{", r)
        /\ Midway(<<"{">>, r, FALSE, FALSE) = Opened(Meant(text), 1, FALSE)
    BY BodyBegins DEF TypeInv
  <2>2. stream = b
    BY <1>2, <1>3, <1>5, ConcatEmptySeq DEF Halves
  <2>3. text' = text /\ Reader' = Midway(<<"{">>, r, FALSE, FALSE)
    <3> HIDE DEF r, b
    <3>1. QED
      BY <1>1, <1>4, <2>1, <2>2, FindBracketStep, CharFacts
  <2>4. Reader' = Opened(Meant(text'), 1, FALSE)
    BY <2>1, <2>3
  <2>5. QED
    BY <2>4 DEF InOpening
<1>6. CASE p # <<>>
  <2>1. PICK c \in Skipped, q \in Seq(Skipped) : p = Cons(c, q)
    <3>1. Head(p) \in Skipped /\ Tail(p) \in Seq(Skipped) /\ p = Cons(Head(p), Tail(p))
      BY <1>6, ConsParts
    <3>2. QED
      BY <3>1
  <2>2. c \in Char /\ q \in Seq(Char)
    BY <2>1, SkippedSeq DEF Skipped
  <2> DEFINE r == q \o b
  <2>3. r \in Seq(Char)
    BY <1>3, <2>2, ConcatProperties
  <2>4. stream = Cons(c, r)
    <3> HIDE DEF b
    <3>1. Cons(c, q) \o b = Cons(c, q \o b)
      BY <1>3, <2>2, ConsInto
    <3>2. QED
      BY <1>2, <2>1, <3>1 DEF Halves
  <2>5. text' = text /\ received' = <<>> /\ stream' = r /\ Between'
    <3>1. c \notin {"{", "["}
      BY <2>1 DEF Skipped
    <3> HIDE DEF r
    <3>2. QED
      BY <1>1, <1>4, <2>2, <2>3, <2>4, <3>1, FindBracketStep
  <2>6. Body(text') = b
    BY <2>5
  <2>7. Halves(stream', q, Body(text'))
    BY <2>5, <2>6 DEF Halves
  <2>8. QED
    BY <2>1, <2>5, <2>7 DEF Waiting
<1>7. QED
  BY <1>5, <1>6

LEMMA IdleStep == SafeLengths /\ TypeInv /\ Idle /\ Next => (Idle \/ Waiting)'
<1> SUFFICES ASSUME SafeLengths, TypeInv, Idle, Next PROVE (Idle \/ Waiting)'
  OBVIOUS
<1>1. Between /\ received = <<Meant(text)>> /\ stream \in {<<>>, <<"NUL">>}
  BY DEF Idle
<1>2. CASE Write
  <2>1. PICK extra \in Extra : stream' = stream \o Message(text', extra)
    BY <1>2 DEF Write
  <2>2. text' \in SeqOf(Alphabet, MaxText) /\ text' \in Seq(Alphabet)
    BY <1>2, TextsSent DEF Write
  <2> DEFINE n == Bytes(text', extra)
             l == LengthChars(n)
             b == Body(text')
             p == stream \o l
  <2>3. Harmless(n) /\ Message(text', extra) = l \o b
    <3>1. Harmless(n)
      BY <2>1, <2>2 DEF SafeLengths
    <3>2. QED
      BY <2>2, <3>1, MessageParts
  <2>4. l \in Seq(Skipped) /\ stream \in Seq(Skipped)
    BY <1>1, <2>3, LengthsType, SkippedSeq
  <2>5. p \in Seq(Skipped)
    <3> HIDE DEF l
    <3>1. QED
      BY <2>4, ConcatProperties
  <2>6. l \in Seq(Char) /\ stream \in Seq(Char) /\ b \in Seq(Char)
    BY <2>2, <2>4, SkippedSeq, BodyType
  <2>7. Halves(stream', p, b)
    <3>1. (stream \o l) \o b = stream \o (l \o b)
      <4> HIDE DEF l, b
      <4>1. QED
        BY ONLY <2>6, Regrouped
    <3>2. QED
      BY <2>1, <2>3, <3>1 DEF Halves
  <2>8. received' = <<>> /\ UNCHANGED <<open, needed, inString, escaped, obj>>
    BY <1>2 DEF Write
  <2>9. Between'
    BY <1>1, <2>8 DEF Between
  <2> HIDE DEF p
  <2>10. QED
    BY <2>5, <2>7, <2>8, <2>9 DEF Waiting
<1>3. CASE FindBracket
  <2>1. stream = <<"NUL">>
    BY <1>1, <1>3 DEF FindBracket
  <2>2. <<"NUL">> = Cons("NUL", <<>>)
    BY EndingNul
  <2>3. text' = text /\ received' = received /\ stream' = <<>> /\ Between'
    BY <1>1, <1>3, <2>1, <2>2, FindBracketStep, CharFacts, EmptyTypes
  <2>4. received' = <<Meant(text')>>
    BY <1>1, <2>3
  <2>5. QED
    BY <2>3, <2>4 DEF Idle
<1>4. QED
  BY <1>1, <1>2, <1>3, BetweenReads

-----------------------------------------------------------------------------
\* One of the phases it always is.
LEMMA PhaseInit == Init => Phase
<1> SUFFICES ASSUME Init PROVE Phase
  OBVIOUS
<1>1. Between /\ received = <<text>> /\ text = <<>> /\ stream = <<>>
  BY DEF Init, Between
<1>2. Meant(<<>>) = <<>>
  BY EmptyMeant
<1>3. QED
  BY <1>1, <1>2 DEF Phase, Idle

LEMMA PhaseNext == SafeLengths /\ TypeInv /\ Phase /\ [Next]_vars => Phase'
<1> SUFFICES ASSUME SafeLengths, TypeInv, Phase, [Next]_vars PROVE Phase'
  OBVIOUS
<1>1. CASE Next
  BY <1>1, IdleStep, WaitingStep, OpeningStep, TextStep, EscapeStep, EndingStep DEF Phase
<1>2. CASE UNCHANGED vars
  BY <1>2 DEF vars, Phase, Idle, Waiting, InOpening, InText, InEscape, InEnding, Between, Reader
<1>3. QED
  BY <1>1, <1>2

LEMMA PhaseAlways == ASSUME SafeLengths PROVE Spec => [](TypeInv /\ Phase)
<1>1. Init => TypeInv /\ Phase
  BY TypeInit, PhaseInit
<1>2. TypeInv /\ Phase /\ [Next]_vars => (TypeInv /\ Phase)'
  BY TypeNext, PhaseNext
<1>3. QED
  BY <1>1, <1>2, PTL DEF Spec

\* Only between two messages is there nothing to read.
LEMMA OnwardsNotEmpty ==
  /\ \A b \in Seq(Char) : TextOnwards(b) # <<>>
  /\ \A t \in Seq(Char) : \A k \in 1..6 : Left(Opening, k, TextOnwards(t)) # <<>>
  /\ Left(Ending, 1, <<>>) # <<>> /\ Left(Ending, 2, <<>>) # <<>>
<1>1. \A c \in Char : \A r \in Seq(Char) : Cons(c, r) # <<>>
  BY ConsFacts
<1>2. ASSUME NEW b \in Seq(Char)
      PROVE  TextOnwards(b) # <<>>
  <2>1. CASE b = <<>>
    <3>1. 1 \in 1..3
      OBVIOUS
    <3>2. Left(Ending, 1, <<>>) \in Seq(Char)
          /\ TextOnwards(b) = Cons("quote", Left(Ending, 1, <<>>))
      BY <2>1, <3>1, EndingNext
    <3>3. QED
      BY <1>1, <3>2, CharFacts
  <2>2. CASE b # <<>>
    <3>1. PICK c \in Char, d \in Seq(Char) : b = Cons(c, d)
      BY <2>2, ConsParts
    <3>2. TextOnwards(d) \in Seq(Char) /\ "backslash" \in Char
      BY BodyType, CharFacts
    <3>3. Cons(c, TextOnwards(d)) \in Seq(Char)
      BY <3>2, ConsFacts
    <3>4. TextOnwards(b) = Cons("backslash", Cons(c, TextOnwards(d)))
          \/ TextOnwards(b) = Cons(c, TextOnwards(d))
      BY <3>1, TextNext
    <3>5. QED
      BY <1>1, <3>2, <3>3, <3>4
  <2>3. QED
    BY <2>1, <2>2
<1>3. ASSUME NEW t \in Seq(Char), NEW k \in 1..6
      PROVE  Left(Opening, k, TextOnwards(t)) # <<>>
  <2> DEFINE b == TextOnwards(t)
             c == Opening[k + 1]
             r == Left(Opening, k + 1, b)
  <2>1. b \in Seq(Char)
    BY BodyType
  <2>2. Opening \in Seq(Char) /\ Len(Opening) = 7
    BY OpeningFacts
  <2>3. k \in Nat /\ k + 1 <= 7 /\ k + 1 \in 0..7 /\ k + 1 \in 1..7
    OBVIOUS
  <2> HIDE DEF b
  <2>4. c \in Char /\ r \in Seq(Char)
    BY <2>1, <2>2, <2>3, LeftType, ElementOfSeq
  <2>5. Left(Opening, k, b) = Cons(c, r)
    BY <2>1, <2>2, <2>3, LeftNext
  <2> HIDE DEF c, r
  <2>6. QED
    BY <1>1, <2>4, <2>5 DEF b
<1>4. Left(Ending, 1, <<>>) # <<>> /\ Left(Ending, 2, <<>>) # <<>>
  <2>1. 2 \in 1..3 /\ 3 \in 1..3
    OBVIOUS
  <2>2. Left(Ending, 2, <<>>) \in Seq(Char) /\ Left(Ending, 3, <<>>) \in Seq(Char)
    BY <2>1, EndingNext
  <2>3. /\ Left(Ending, 1, <<>>) = Cons("]", Left(Ending, 2, <<>>))
        /\ Left(Ending, 2, <<>>) = Cons("}", Left(Ending, 3, <<>>))
    BY EndingNext
  <2>4. QED
    BY <1>1, <2>2, <2>3, CharFacts
<1>5. QED
  BY <1>2, <1>3, <1>4

\* In the middle of a message no text has been received, and there is more to read.
LEMMA MidwayOpen ==
  TypeInv /\ (InOpening \/ InText \/ InEscape \/ InEnding) => received = <<>> /\ stream # <<>>
<1> SUFFICES ASSUME TypeInv, InOpening \/ InText \/ InEscape \/ InEnding
             PROVE  received = <<>> /\ stream # <<>>
  OBVIOUS
<1> DEFINE t == Meant(text)
<1>1. t \in Seq(Char)
  BY MeantText
<1>2. CASE InOpening
  <2>1. PICK k \in 1..6, q \in BOOLEAN : Reader = Opened(t, k, q)
    <3>1. 1 \in 1..6 /\ 2 \in 1..6 /\ 3 \in 1..6 /\ 4 \in 1..6 /\ 5 \in 1..6
          /\ 6 \in 1..6
      OBVIOUS
    <3>2. QED
      BY <1>2, <3>1, Zenon DEF InOpening
  <2>2. received = <<>> /\ stream = Left(Opening, k, TextOnwards(t))
    BY <2>1, ReaderParts DEF Opened
  <2> HIDE DEF t
  <2>3. QED
    BY <1>1, <2>2, OnwardsNotEmpty
<1>3. CASE InText
  <2>1. PICK a \in Seq(Char), b \in Seq(Char) :
          Reader = Midway(SoFar(a), TextOnwards(b), TRUE, FALSE)
    BY <1>3 DEF InText
  <2>2. received = <<>> /\ stream = TextOnwards(b)
    BY <2>1, ReaderParts
  <2>3. QED
    BY <2>2, OnwardsNotEmpty
<1>4. CASE InEscape
  <2>1. PICK a \in Seq(Char), b \in Seq(Char), c \in Special :
          Reader = Midway(Append(SoFar(a), "backslash"), Cons(c, TextOnwards(b)), TRUE, TRUE)
    BY <1>4 DEF InEscape
  <2>2. received = <<>> /\ stream = Cons(c, TextOnwards(b))
    BY <2>1, ReaderParts
  <2>3. c \in Char /\ TextOnwards(b) \in Seq(Char)
    BY CharFacts, BodyType DEF Special
  <2>4. QED
    BY <2>2, <2>3, ConsFacts
<1>5. CASE InEnding
  <2>1. PICK k \in {1, 2} : Reader = Ended(t, k)
    BY <1>5 DEF InEnding
  <2>2. received = <<>> /\ stream = Left(Ending, k, <<>>)
    BY <2>1, ReaderParts DEF Ended
  <2>3. QED
    BY <2>1, <2>2, OnwardsNotEmpty
<1>6. QED
  BY <1>2, <1>3, <1>4, <1>5

LEMMA PhaseShows == TypeInv /\ Phase => ArrivesUnchanged /\ NeverWaitsForMore
<1> SUFFICES ASSUME TypeInv, Phase PROVE ArrivesUnchanged /\ NeverWaitsForMore
  OBVIOUS
<1>1. CASE Idle
  <2>1. received = <<Meant(text)>> /\ open = "none"
    BY <1>1 DEF Idle, Between
  <2>2. received # <<>>
    BY <2>1
  <2>3. QED
    BY <2>1, <2>2 DEF ArrivesUnchanged, NeverWaitsForMore
<1>2. CASE Waiting
  <2> DEFINE b == Body(text)
  <2>1. PICK p \in Seq(Skipped) : Halves(stream, p, b)
    BY <1>2 DEF Waiting
  <2>2. p \in Seq(Char)
    BY SkippedSeq
  <2>3. b \in Seq(Char) /\ b # <<>>
    <3>1. PICK r \in Seq(Char) : b = Cons("{", r)
      BY BodyBegins DEF TypeInv
    <3>2. b \in Seq(Char)
      BY BodyType DEF TypeInv
    <3> HIDE DEF b
    <3>3. QED
      BY <3>1, <3>2, ConsFacts, CharFacts
  <2> HIDE DEF b
  <2>4. stream # <<>>
    <3>1. Len(p \o b) = Len(p) + Len(b)
      BY <2>2, <2>3, ConcatProperties
    <3>2. Len(p) \in Nat /\ Len(b) \in Nat /\ Len(b) # 0
      BY <2>2, <2>3, LenProperties, EmptySeq
    <3>3. Len(p) + Len(b) # 0
      BY <3>2
    <3>4. Len(<<>>) = 0
      OBVIOUS
    <3>5. p \o b # <<>>
      BY <3>1, <3>3, <3>4
    <3>6. QED
      BY <2>1, <3>5 DEF Halves
  <2>5. received = <<>>
    BY <1>2 DEF Waiting
  <2>6. QED
    BY <2>4, <2>5 DEF ArrivesUnchanged, NeverWaitsForMore
<1>3. CASE InOpening \/ InText \/ InEscape \/ InEnding
  BY <1>3, MidwayOpen DEF ArrivesUnchanged, NeverWaitsForMore
<1>4. QED
  BY <1>1, <1>2, <1>3 DEF Phase

\* The blank that toBytes adds is enough for messages of one byte a character and fewer
\* than 122 of them: 91 bytes are never announced, and 123 only by 122 characters.  The
\* higher bytes of such a length are zero.
LEMMA ShortLengths ==
  ASSUME NEW n \in Nat, n < 123, n # 91
  PROVE  Harmless(n)
<1> DEFINE b == FirstBytes(n)
           l == LengthChars(n)
<1>1. n % 256 = n /\ n \div 256 = 0 /\ n \div 65536 = 0 /\ n \div 16777216 = 0 /\ 0 % 256 = 0
  <2>1. n % 256 = n
    OBVIOUS
  <2>2. n \div 256 = 0
    OBVIOUS
  <2>3. n \div 65536 = 0
    OBVIOUS
  <2>4. n \div 16777216 = 0
    OBVIOUS
  <2>5. 0 % 256 = 0
    OBVIOUS
  <2>6. QED
    BY <2>1, <2>2, <2>3, <2>4, <2>5
<1>2. b[1] = n /\ b[2] = 0 /\ b[3] = 0 /\ b[4] = 0
  BY <1>1 DEF FirstBytes
<1>3. Trailing(n) = 0 /\ Trailing(0) = 0
  BY DEF Trailing
<1>4. \A i \in 1..4 : Trailing(b[i]) = 0 /\ b[i] \in Nat /\ b[i] < 123 /\ b[i] # 91
  <2> SUFFICES ASSUME NEW i \in 1..4
               PROVE  Trailing(b[i]) = 0 /\ b[i] \in Nat /\ b[i] < 123 /\ b[i] # 91
    OBVIOUS
  <2>1. b[i] = n \/ b[i] = 0
    <3>1. i = 1 \/ i = 2 \/ i = 3 \/ i = 4
      OBVIOUS
    <3> HIDE DEF b
    <3>2. QED
      BY <1>2, <3>1
  <2> HIDE DEF b
  <2>2. CASE b[i] = n
    BY <1>3, <2>2
  <2>3. CASE b[i] = 0
    <3>1. 0 \in Nat /\ 0 < 123 /\ 0 # 91
      OBVIOUS
    <3>2. QED
      BY <1>3, <2>3, <3>1
  <2>4. QED
    BY <2>1, <2>2, <2>3
<1>5. Due(n)[0] = 0 /\ \A i \in 1..4 : Due(n)[i] = After(Due(n)[i - 1], b[i])
  BY DueSteps
<1> DEFINE due == Due(n)
<1> HIDE DEF b, due
<1>6. \A i \in 1..4 : due[i - 1] = 0 => due[i] = 0
  BY <1>4, <1>5 DEF After, due
<1>7. due[0] = 0 /\ due[1] = 0 /\ due[2] = 0 /\ due[3] = 0 /\ due[4] = 0
  <2>1. 1 - 1 = 0 /\ 2 - 1 = 1 /\ 3 - 1 = 2 /\ 4 - 1 = 3
    OBVIOUS
  <2>2. 1 \in 1..4 /\ 2 \in 1..4 /\ 3 \in 1..4 /\ 4 \in 1..4
    OBVIOUS
  <2>3. /\ due[0] = 0 => due[1] = 0
        /\ due[1] = 0 => due[2] = 0
        /\ due[2] = 0 => due[3] = 0
        /\ due[3] = 0 => due[4] = 0
    BY <1>6, <2>1, <2>2
  <2>4. due[0] = 0
    BY <1>5 DEF due
  <2>5. QED
    BY <2>3, <2>4
<1>8. ASSUME NEW i \in 1..4
      PROVE  l[i] \notin {"{", "["}
  <2>1. due[i - 1] = 0
    <3>1. i - 1 = 0 \/ i - 1 = 1 \/ i - 1 = 2 \/ i - 1 = 3
      OBVIOUS
    <3>2. QED
      BY <1>7, <3>1
  <2>2. l[i] = Kind(Code(b, i))
    BY <2>1 DEF LengthChars, due, b
  <2>3. Code(b, i) = b[i]
    BY <1>4 DEF Code
  <2>4. b[i] # 91 /\ b[i] # 123
    <3> DEFINE x == b[i]
    <3>1. x \in Nat /\ x < 123 /\ x # 91
      BY <1>4
    <3> HIDE DEF x
    <3>2. x # 123
      BY ONLY <3>1
    <3>3. QED
      BY <3>1, <3>2 DEF x
  <2>5. QED
    BY <2>2, <2>3, <2>4 DEF Kind
<1>9. QED
  BY <1>7, <1>8 DEF Harmless, due

THEOREM ShortLengthsAreSafe ==
  ASSUME \A t \in SeqOf(Alphabet, MaxText) : \A extra \in Extra :
           Wide(t) = 0 /\ Size(t, extra) < 122
  PROVE  SafeLengths
<1> SUFFICES ASSUME NEW t \in SeqOf(Alphabet, MaxText), NEW extra \in Extra
             PROVE  Harmless(Bytes(t, extra))
  BY DEF SafeLengths
<1>1. t \in Seq(Alphabet)
  BY TextsSent
<1> DEFINE n == Size(t, extra)
<1>2. n \in Nat
  <2>1. Overhead \in Nat /\ extra \in Nat
    BY FramingAssumption
  <2>2. Len(Escaped(Meant(t))) \in Nat
    BY <1>1, MeantType, EscapedFlattens, LenProperties
  <2>3. QED
    BY <2>1, <2>2 DEF Size
<1>3. Wide(t) = 0 /\ n < 122
  OBVIOUS
<1>4. Bytes(t, extra) = n + Padding(n) + 0 + 1
  BY <1>3 DEF Bytes
<1> HIDE DEF n
<1>5. Padding(n) = IF n = 90 THEN 1 ELSE 0
  BY DEF Padding
<1> DEFINE k == Bytes(t, extra)
<1>6. k \in Nat /\ k < 123 /\ k # 91
  <2> HIDE DEF k
  <2>1. CASE n = 90
    <3>1. k = 92
      BY <1>4, <1>5, <2>1 DEF k
    <3>2. QED
      BY ONLY <3>1
  <2>2. CASE n # 90
    <3>1. k = n + 1
      BY <1>2, <1>4, <1>5, <2>2 DEF k
    <3>2. QED
      BY ONLY <1>2, <1>3, <2>2, <3>1
  <2>3. QED
    BY <2>1, <2>2
<1> HIDE DEF k
<1>7. QED
  BY <1>6, ShortLengths DEF k

\* Whatever quotes, backslashes, brackets and line breaks it has and however long it is, a
\* text that toBytes sends is the text the handler gets, message after message, and the
\* reader is then where the next message begins: as long as every length is harmless,
\* which run length_122 shows it need not be.
THEOREM TextArrives == ASSUME SafeLengths PROVE Spec => []ArrivesUnchanged
<1>1. Spec => [](TypeInv /\ Phase)
  BY PhaseAlways
<1>2. TypeInv /\ Phase => ArrivesUnchanged
  BY PhaseShows
<1>3. QED
  BY <1>1, <1>2, PTL

\* The reader, which counts brackets and knows no length, always finds the end of the
\* message, if no length misleads it: it never waits for characters that toBytes does not
\* send.
THEOREM EndIsFound == ASSUME SafeLengths PROVE Spec => []NeverWaitsForMore
<1>1. Spec => [](TypeInv /\ Phase)
  BY PhaseAlways
<1>2. TypeInv /\ Phase => NeverWaitsForMore
  BY PhaseShows
<1>3. QED
  BY <1>1, <1>2, PTL

=============================================================================
