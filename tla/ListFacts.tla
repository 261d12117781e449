------------------------------ MODULE ListFacts -------------------------------
(***************************************************************************)
(* What the proofs need to know of lists joined end to end (FlattenSeq of   *)
(* the community modules), which the models use for lists put together and  *)
(* for lists from which something is left out, of functions that apply      *)
(* another again and again, and of the greatest number of a set.  The       *)
(* induction is over sets of numbers: a set that holds 0 and every          *)
(* successor holds all of them.                                             *)
(***************************************************************************)
EXTENDS Integers, SequencesExt, SequenceTheorems, WellFoundedInduction, TLAPS

LEMMA LeastNatural ==
  ASSUME NEW T \in SUBSET Nat, T # {}
  PROVE  \E n \in T : \A m \in T : n <= m
<1>1. PICK n \in T : \A m \in T : <<m, n>> \notin OpToRel(<, Nat)
  BY WFMin, NatLessThanWellFounded
<1>2. OpToRel(<, Nat) = {ss \in Nat \X Nat : ss[1] < ss[2]}
  BY DEF OpToRel
<1>3. ASSUME NEW m \in T
      PROVE  n <= m
  <2>1. ~(<<m, n>>[1] < <<m, n>>[2])
    BY <1>1, <1>2
  <2>2. QED
    BY <2>1
<1>4. QED
  BY <1>3

LEMMA SetInduction ==
  ASSUME NEW T, 0 \in T, \A n \in Nat : n \in T => n + 1 \in T
  PROVE  \A n \in Nat : n \in T
<1> SUFFICES ASSUME Nat \ T # {} PROVE FALSE
  OBVIOUS
<1>1. PICK n \in Nat \ T : \A m \in Nat \ T : n <= m
  BY LeastNatural
<1>2. n # 0 /\ n - 1 \in Nat /\ ~(n <= n - 1) /\ (n - 1) + 1 = n
  BY <1>1
<1>3. QED
  BY <1>1, <1>2

\* A finite set of numbers has a greatest member.
LEMMA GreatestOfFinite ==
  ASSUME NEW S \in SUBSET Nat, IsFiniteSet(S), S # {}
  PROVE  Max(S) \in S /\ \A x \in S : x <= Max(S)
<1>1. PICK s \in Seq(S) : \A x \in S : \E i \in 1..Len(s) : s[i] = x
  BY DEF IsFiniteSet
<1> DEFINE n == Len(s)
           T == {k \in Nat : \E m \in Nat : \A i \in 1..n : i <= k => s[i] <= m}
           U == {m \in Nat : \A x \in S : x <= m}
<1>2. n \in Nat /\ \A i \in 1..n : s[i] \in Nat
  BY LenProperties, ElementOfSeq
<1>3. \A x \in S : \E i \in 1..n : s[i] = x
  BY <1>1
<1> HIDE DEF n
<1>4. 0 \in T
  BY <1>2
<1>5. ASSUME NEW k \in Nat, k \in T
      PROVE  k + 1 \in T
  <2>1. PICK m \in Nat : \A i \in 1..n : i <= k => s[i] <= m
    BY <1>5
  <2>2. CASE k + 1 \in 1..n
    <3> DEFINE last == s[k + 1]
    <3>1. last \in Nat
      BY <1>2, <2>2
    <3> HIDE DEF last
    <3>2. PICK l \in Nat : m <= l /\ last <= l
      <4>1. CASE m <= last
        BY <3>1, <4>1
      <4>2. CASE last <= m
        BY <4>2
      <4>3. QED
        BY <3>1, <4>1, <4>2
    <3>3. ASSUME NEW i \in 1..n, i <= k + 1
          PROVE  s[i] <= l
      <4>1. s[i] \in Nat /\ last \in Nat
        BY <1>2, <3>1
      <4>2. CASE i = k + 1
        BY <3>2, <4>2 DEF last
      <4>3. CASE i <= k
        BY <2>1, <3>2, <4>1, <4>3
      <4>4. QED
        BY <3>3, <4>2, <4>3
    <3>4. QED
      BY <3>3
  <2>3. CASE k + 1 \notin 1..n
    <3>1. \A i \in 1..n : i <= k + 1 => i <= k
      BY <1>2, <2>3
    <3>2. QED
      BY <2>1, <3>1
  <2>4. QED
    BY <2>2, <2>3
<1> HIDE DEF T
<1>6. n \in T
  BY <1>2, <1>4, <1>5, SetInduction
<1>7. PICK m \in Nat : \A i \in 1..n : s[i] <= m
  BY <1>2, <1>6 DEF T
<1>8. m \in U
  BY <1>3, <1>7
<1>9. PICK g \in U : \A u \in U : g <= u
  BY <1>8, LeastNatural
<1>10. g \in S
  <2> SUFFICES ASSUME g \notin S PROVE FALSE
    OBVIOUS
  <2>1. \A x \in S : x <= g /\ x # g /\ x \in Nat /\ g \in Nat
    BY <1>9
  <2>2. g # 0
    <3>1. PICK x \in S : TRUE
      OBVIOUS
    <3>2. x <= g /\ x # g /\ x \in Nat /\ g \in Nat
      BY <2>1, <3>1
    <3>3. QED
      BY <3>2
  <2>3. g - 1 \in U
    BY <2>1, <2>2
  <2>4. QED
    BY <1>9, <2>3
<1>11. \E x \in S : \A y \in S : x >= y
  BY <1>9, <1>10
<1>12. Max(S) \in S /\ \A y \in S : Max(S) >= y
  BY <1>11 DEF Max
<1>13. QED
  BY <1>12

-----------------------------------------------------------------------------
\* f says what F makes of a when it is applied 0, 1, ..., n times.
Iterated(f, F, a, n) == f[0] = a /\ \A i \in 1..n : f[i] = F[f[i - 1]]

LEMMA IteratedOnceMore ==
  ASSUME NEW A, NEW a \in A, NEW F \in [A -> A], NEW k \in Nat,
         NEW f \in [0..k -> A], Iterated(f, F, a, k)
  PROVE  \E g \in [0..k + 1 -> A] : Iterated(g, F, a, k + 1)
<1> DEFINE g == [j \in 0..k + 1 |-> IF j = k + 1 THEN F[f[k]] ELSE f[j]]
<1>1. g \in [0..k + 1 -> A]
  <2>1. f[k] \in A /\ \A j \in 0..k + 1 : j # k + 1 => j \in 0..k
    OBVIOUS
  <2>2. QED
    BY <2>1
<1>2. g[k + 1] = F[f[k]] /\ \A j \in 0..k : g[j] = f[j]
  OBVIOUS
<1> HIDE DEF g
<1>3. ASSUME NEW i \in 1..k + 1
      PROVE  g[i] = F[g[i - 1]]
  <2>1. i - 1 \in 0..k /\ (i # k + 1 => i \in 1..k /\ i \in 0..k) /\ (i = k + 1 => i - 1 = k)
    OBVIOUS
  <2>2. g[i - 1] = f[i - 1]
    BY <1>2, <2>1
  <2>3. CASE i = k + 1
    BY <1>2, <2>1, <2>2, <2>3
  <2>4. CASE i # k + 1
    <3>1. f[i] = F[f[i - 1]]
      BY <2>1, <2>4 DEF Iterated
    <3>2. QED
      BY <1>2, <2>1, <2>2, <2>4, <3>1
  <2>5. QED
    BY <2>3, <2>4
<1>4. g[0] = a
  BY <1>2 DEF Iterated
<1>5. QED
  BY <1>1, <1>3, <1>4 DEF Iterated

LEMMA IteratedUnique ==
  ASSUME NEW F, NEW a, NEW m \in Nat, NEW n \in Nat, m <= n,
         NEW f, Iterated(f, F, a, m), NEW g, Iterated(g, F, a, n)
  PROVE  \A i \in 0..m : f[i] = g[i]
<1> DEFINE T == {i \in Nat : i <= m => f[i] = g[i]}
<1>1. 0 \in T
  BY DEF Iterated
<1>2. ASSUME NEW i \in Nat, i \in T
      PROVE  i + 1 \in T
  <2>1. CASE i + 1 <= m
    <3>1. i <= m /\ i + 1 \in 1..m /\ i + 1 \in 1..n /\ (i + 1) - 1 = i /\ i + 1 \in Nat
      BY <2>1
    <3>2. f[i + 1] = F[f[i]] /\ g[i + 1] = F[g[i]]
      BY <3>1 DEF Iterated
    <3>3. f[i] = g[i]
      BY <1>2, <3>1
    <3>4. QED
      BY <3>1, <3>2, <3>3
  <2>2. CASE ~(i + 1 <= m)
    BY <2>2
  <2>3. QED
    BY <2>1, <2>2
<1> HIDE DEF T
<1>3. \A i \in Nat : i \in T
  BY <1>1, <1>2, SetInduction
<1>4. QED
  BY <1>3 DEF T

\* A function can be applied any number of times: the recursive definitions of the models
\* define something.
LEMMA IteratesExist ==
  ASSUME NEW A, NEW a \in A, NEW F \in [A -> A]
  PROVE  \E f \in [Nat -> A] : f[0] = a /\ \A n \in Nat : f[n + 1] = F[f[n]]
<1> DEFINE T == {n \in Nat : \E g \in [0..n -> A] : Iterated(g, F, a, n)}
<1>1. 0 \in T
  <2> DEFINE g == [j \in 0..0 |-> a]
  <2>1. g \in [0..0 -> A] /\ Iterated(g, F, a, 0)
    BY DEF Iterated
  <2>2. QED
    BY <2>1
<1>2. ASSUME NEW n \in Nat, n \in T
      PROVE  n + 1 \in T
  BY <1>2, IteratedOnceMore
<1> HIDE DEF T
<1>3. \A n \in Nat : n \in T
  BY <1>1, <1>2, SetInduction
<1> DEFINE G == [n \in Nat |-> CHOOSE g \in [0..n -> A] : Iterated(g, F, a, n)]
           f == [n \in Nat |-> G[n][n]]
<1>4. \A n \in Nat : G[n] \in [0..n -> A] /\ Iterated(G[n], F, a, n)
  BY <1>3 DEF T
<1> HIDE DEF G
<1>5. f \in [Nat -> A]
  <2>1. \A n \in Nat : n \in 0..n
    OBVIOUS
  <2>2. \A n \in Nat : G[n][n] \in A
    BY <1>4, <2>1
  <2>3. QED
    BY <2>2
<1>6. f[0] = a
  BY <1>4 DEF Iterated
<1>7. ASSUME NEW n \in Nat
      PROVE  f[n + 1] = F[f[n]]
  <2>1. n + 1 \in Nat /\ n <= n + 1 /\ n + 1 \in 1..n + 1 /\ (n + 1) - 1 = n /\ n \in 0..n
    OBVIOUS
  <2>2. G[n + 1][n + 1] = F[G[n + 1][n]]
    BY <1>4, <2>1 DEF Iterated
  <2>3. G[n][n] = G[n + 1][n]
    BY <1>4, <2>1, IteratedUnique
  <2>4. QED
    BY <2>1, <2>2, <2>3
<1> HIDE DEF f
<1>8. QED
  BY <1>5, <1>6, <1>7

-----------------------------------------------------------------------------
\* f says, from front to back, what the first n lists are when joined.
JoinsUpto(f, lists, n) ==
  f[0] = <<>> /\ \A i \in 1..n : f[i] = f[i - 1] \o lists[i]

Joins(f, lists) == JoinsUpto(f, lists, Len(lists))

\* One list more.
LEMMA JoinsOneMore ==
  ASSUME NEW S, NEW lists, NEW k \in Nat, lists[k + 1] \in Seq(S),
         NEW f \in [0..k -> Seq(S)], JoinsUpto(f, lists, k)
  PROVE  \E g \in [0..k + 1 -> Seq(S)] : JoinsUpto(g, lists, k + 1)
<1> DEFINE more == f[k] \o lists[k + 1]
           g == [j \in 0..k + 1 |-> IF j = k + 1 THEN more ELSE f[j]]
<1>1. more \in Seq(S)
  <2>1. f[k] \in Seq(S)
    OBVIOUS
  <2>2. QED
    BY <2>1, ConcatProperties
<1>2. more = f[k] \o lists[k + 1]
  OBVIOUS
<1> HIDE DEF more
<1>3. g \in [0..k + 1 -> Seq(S)]
  BY <1>1
<1>4. g[k + 1] = more /\ \A j \in 0..k : g[j] = f[j]
  OBVIOUS
<1> HIDE DEF g
<1>5. ASSUME NEW i \in 1..k + 1
      PROVE  g[i] = g[i - 1] \o lists[i]
  <2>1. CASE i = k + 1
    <3>1. i - 1 = k /\ k \in 0..k
      BY <2>1
    <3>2. g[i] = more /\ g[i - 1] = f[k]
      BY <1>4, <2>1, <3>1
    <3>3. QED
      BY <1>2, <2>1, <3>2
  <2>2. CASE i # k + 1
    <3>1. i \in 1..k /\ i \in 0..k /\ i - 1 \in 0..k
      BY <2>2
    <3>2. f[i] = f[i - 1] \o lists[i]
      BY <3>1 DEF JoinsUpto
    <3>3. QED
      BY <1>4, <3>1, <3>2
  <2>3. QED
    BY <2>1, <2>2
<1>6. g[0] = <<>>
  BY <1>4 DEF JoinsUpto
<1>7. QED
  BY <1>3, <1>5, <1>6 DEF JoinsUpto

LEMMA JoinsExist ==
  ASSUME NEW S, NEW lists \in Seq(Seq(S))
  PROVE  \E f \in [0..Len(lists) -> Seq(S)] : Joins(f, lists)
<1> DEFINE n == Len(lists)
           Joined(k) == \E f \in [0..k -> Seq(S)] : JoinsUpto(f, lists, k)
           T == {k \in Nat : k <= n => Joined(k)}
<1>1. n \in Nat /\ \A i \in 1..n : lists[i] \in Seq(S)
  BY LenProperties, ElementOfSeq
<1>2. Joined(0)
  <2>1. [j \in 0..0 |-> <<>>] \in [0..0 -> Seq(S)]
    BY EmptySeq
  <2>2. JoinsUpto([j \in 0..0 |-> <<>>], lists, 0)
    BY DEF JoinsUpto
  <2>3. QED
    BY <2>1, <2>2
<1>3. ASSUME NEW k \in Nat, k + 1 <= n, Joined(k)
      PROVE  Joined(k + 1)
  <2>1. lists[k + 1] \in Seq(S)
    BY <1>1, <1>3
  <2>2. QED
    BY <1>3, <2>1, JoinsOneMore
<1> HIDE DEF Joined, n
<1>4. 0 \in T
  BY <1>2
<1>5. ASSUME NEW k \in Nat, k \in T
      PROVE  k + 1 \in T
  BY <1>1, <1>3, <1>5
<1>6. \A k \in Nat : k \in T
  <2> HIDE DEF T
  <2>1. QED
    BY <1>4, <1>5, SetInduction
<1>7. Joined(n)
  BY <1>1, <1>6
<1>8. QED
  BY <1>7 DEF n, Joined, Joins

\* The same up to n, without and with what is at 0.
SameUpto(f, g, n) == \A i \in 1..n : f[i] = g[i]
AgreeUpto(f, g, n) == \A i \in 0..n : f[i] = g[i]

\* Two joinings of lists that begin alike begin alike.
LEMMA JoinsUnique ==
  ASSUME NEW f, NEW g, NEW lists, NEW others, NEW n \in Nat,
         JoinsUpto(f, lists, n), JoinsUpto(g, others, n),
         SameUpto(lists, others, n)
  PROVE  AgreeUpto(f, g, n)
<1> DEFINE T == {k \in Nat : k <= n => f[k] = g[k]}
<1>1. 0 \in T
  BY DEF JoinsUpto
<1>2. ASSUME NEW k \in Nat, k \in T, k + 1 <= n
      PROVE  f[k + 1] = g[k + 1]
  <2>1. k + 1 \in 1..n /\ (k + 1) - 1 = k /\ k <= n
    BY <1>2
  <2>2. f[k + 1] = f[k] \o lists[k + 1]
    BY <2>1 DEF JoinsUpto
  <2>3. g[k + 1] = g[k] \o others[k + 1]
    BY <2>1 DEF JoinsUpto
  <2>4. lists[k + 1] = others[k + 1]
    BY <2>1 DEF SameUpto
  <2>5. QED
    BY <1>2, <2>1, <2>2, <2>3, <2>4
<1>3. \A k \in Nat : k \in T => k + 1 \in T
  BY <1>2
<1>4. \A k \in Nat : k \in T
  <2> HIDE DEF T
  <2>1. QED
    BY <1>1, <1>3, SetInduction
<1>5. QED
  BY <1>4 DEF AgreeUpto

\* FlattenSeq is the last of what a joining of the lists goes through.
LEMMA FlattenJoins ==
  ASSUME NEW S, NEW lists \in Seq(Seq(S))
  PROVE  \E f \in [0..Len(lists) -> Seq(S)] :
           Joins(f, lists) /\ FlattenSeq(lists) = f[Len(lists)]
<1> DEFINE n == Len(lists)
           Equation(g) == g = [i \in 1..n |-> IF i = 1 THEN lists[i] ELSE g[i - 1] \o lists[i]]
           flatten == CHOOSE g : Equation(g)
<1>1. n \in Nat /\ \A i \in 1..n : lists[i] \in Seq(S)
  BY LenProperties, ElementOfSeq
<1>2. PICK f \in [0..n -> Seq(S)] : Joins(f, lists)
  BY JoinsExist
<1>3. CASE n = 0
  <2>1. lists = <<>>
    BY <1>3, EmptySeq
  <2>2. FlattenSeq(lists) = <<>>
    BY <1>3, <2>1 DEF FlattenSeq
  <2>3. f[n] = <<>>
    BY <1>2, <1>3 DEF Joins, JoinsUpto
  <2>4. QED
    BY <1>2, <2>2, <2>3
<1>4. CASE n # 0
  <2> DEFINE h == [i \in 1..n |-> f[i]]
  <2>1. f[1] = lists[1]
    <3>1. 1 \in 1..n /\ 1 - 1 = 0 /\ lists[1] \in Seq(S)
      BY <1>1, <1>4
    <3>2. f[1] = <<>> \o lists[1]
      BY <1>2, <3>1 DEF Joins, JoinsUpto
    <3>3. QED
      BY <3>1, <3>2, ConcatEmptySeq
  <2>2. ASSUME NEW i \in 1..n
        PROVE  f[i] = IF i = 1 THEN lists[i] ELSE h[i - 1] \o lists[i]
    <3>1. CASE i = 1
      BY <2>1, <3>1
    <3>2. CASE i # 1
      <4>1. h[i - 1] = f[i - 1]
        BY <1>1, <3>2
      <4>2. f[i] = f[i - 1] \o lists[i]
        BY <1>2 DEF Joins, JoinsUpto
      <4>3. QED
        BY <3>2, <4>1, <4>2
    <3>3. QED
      BY <3>1, <3>2
  <2>3. Equation(h)
    BY <2>2, Zenon
  <2>4. Equation(flatten)
    BY <2>3, Zenon
  <2>5. FlattenSeq(lists) = flatten[n]
    BY <1>4 DEF FlattenSeq
  <2> HIDE DEF flatten
  <2> DEFINE k == [i \in 0..n |-> IF i = 0 THEN <<>> ELSE flatten[i]]
  <2>6. JoinsUpto(k, lists, n)
    <3>1. k[0] = <<>>
      BY <1>1
    <3>2. ASSUME NEW i \in 1..n
          PROVE  k[i] = k[i - 1] \o lists[i]
      <4>1. flatten[i] = IF i = 1 THEN lists[i] ELSE flatten[i - 1] \o lists[i]
        BY <2>4
      <4>2. k[i] = flatten[i]
        OBVIOUS
      <4>3. CASE i = 1
        <5>1. k[i - 1] = <<>>
          BY <1>1, <4>3
        <5>2. <<>> \o lists[i] = lists[i]
          BY <1>1, ConcatEmptySeq
        <5>3. QED
          BY <4>1, <4>2, <4>3, <5>1, <5>2
      <4>4. CASE i # 1
        <5>1. k[i - 1] = flatten[i - 1]
          BY <1>1, <4>4
        <5>2. QED
          BY <4>1, <4>2, <4>4, <5>1
      <4>5. QED
        BY <4>3, <4>4
    <3>3. QED
      BY <3>1, <3>2 DEF JoinsUpto
  <2>7. k[n] = flatten[n]
    BY <1>1, <1>4
  <2> HIDE DEF k
  <2>8. \A i \in 0..n : k[i] = f[i]
    BY <1>1, <1>2, <2>6, JoinsUnique DEF Joins, SameUpto, AgreeUpto
  <2>9. n \in 0..n
    BY <1>1
  <2>10. FlattenSeq(lists) = f[n]
    BY <2>5, <2>7, <2>8, <2>9
  <2>11. QED
    BY <1>2, <2>10
<1>5. QED
  BY <1>3, <1>4

LEMMA FlattenType ==
  ASSUME NEW S, NEW lists \in Seq(Seq(S))
  PROVE  FlattenSeq(lists) \in Seq(S)
<1>1. Len(lists) \in 0..Len(lists)
  BY LenProperties
<1>2. QED
  BY <1>1, FlattenJoins

LEMMA FlattenEmpty == FlattenSeq(<<>>) = <<>>
  BY DEF FlattenSeq

LEMMA FlattenOne ==
  ASSUME NEW S, NEW list \in Seq(S)
  PROVE  FlattenSeq(<<list>>) = list
<1>1. <<list>> \in Seq(Seq(S)) /\ Len(<<list>>) = 1 /\ <<list>>[1] = list
  OBVIOUS
<1>2. PICK f \in [0..1 -> Seq(S)] : Joins(f, <<list>>) /\ FlattenSeq(<<list>>) = f[1]
  BY <1>1, FlattenJoins
<1>3. f[0] = <<>> /\ f[1] = f[0] \o list
  <2>1. 1 \in 1..1 /\ 1 - 1 = 0
    OBVIOUS
  <2>2. QED
    BY <1>1, <1>2, <2>1 DEF Joins, JoinsUpto
<1>4. QED
  BY <1>2, <1>3, ConcatEmptySeq

\* Lists of lists, one behind the other.
LEMMA FlattenConcat ==
  ASSUME NEW S, NEW lists \in Seq(Seq(S)), NEW more \in Seq(Seq(S))
  PROVE  FlattenSeq(lists \o more) = FlattenSeq(lists) \o FlattenSeq(more)
<1> DEFINE both == lists \o more
           m == Len(lists)
           n == Len(more)
<1>1. /\ both \in Seq(Seq(S)) /\ Len(both) = m + n
      /\ \A i \in 1..m + n : both[i] = IF i <= m THEN lists[i] ELSE more[i - m]
      /\ m \in Nat /\ n \in Nat
      /\ \A i \in 1..n : more[i] \in Seq(S)
  BY ConcatProperties, LenProperties, ElementOfSeq
<1> HIDE DEF both
<1>2. PICK f \in [0..m -> Seq(S)] : Joins(f, lists) /\ FlattenSeq(lists) = f[m]
  BY FlattenJoins
<1>3. PICK g \in [0..n -> Seq(S)] : Joins(g, more) /\ FlattenSeq(more) = g[n]
  BY FlattenJoins
<1>4. PICK h \in [0..m + n -> Seq(S)] : Joins(h, both) /\ FlattenSeq(both) = h[m + n]
  BY <1>1, FlattenJoins
<1>5. JoinsUpto(f, lists, m) /\ JoinsUpto(g, more, n) /\ JoinsUpto(h, both, m + n)
  BY <1>1, <1>2, <1>3, <1>4 DEF Joins
<1> HIDE DEF m, n
<1>6. h[m] = f[m]
  <2>1. m \in Nat /\ m \in 0..m /\ \A i \in 1..m : i \in 1..m + n /\ i <= m
    BY <1>1
  <2>2. JoinsUpto(h, both, m)
    BY <1>5, <2>1 DEF JoinsUpto
  <2>3. SameUpto(both, lists, m)
    BY <1>1, <2>1 DEF SameUpto
  <2>4. JoinsUpto(f, lists, m)
    BY <1>5
  <2>5. m \in Nat
    BY <1>1
  <2>6. AgreeUpto(h, f, m)
    BY <2>2, <2>3, <2>4, <2>5, JoinsUnique
  <2>7. QED
    BY <2>1, <2>6 DEF AgreeUpto
<1>7. f[m] \in Seq(S) /\ \A k \in 0..n : g[k] \in Seq(S)
  <2>1. m \in 0..m
    BY <1>1
  <2>2. QED
    BY <2>1
<1> DEFINE T == {k \in Nat : k <= n => h[m + k] = f[m] \o g[k]}
<1>8. 0 \in T
  <2>1. g[0] = <<>>
    BY <1>5 DEF JoinsUpto
  <2>2. f[m] \o <<>> = f[m]
    BY <1>7, ConcatEmptySeq
  <2>3. m + 0 = m
    BY <1>1
  <2>4. QED
    BY <1>6, <2>1, <2>2, <2>3
<1>9. ASSUME NEW k \in Nat, k \in T, k + 1 <= n
      PROVE  h[m + (k + 1)] = f[m] \o g[k + 1]
  <2>1. /\ k + 1 \in 1..n /\ (k + 1) - 1 = k /\ k <= n
        /\ m + (k + 1) \in 1..m + n /\ (m + (k + 1)) - 1 = m + k
        /\ ~(m + (k + 1) <= m) /\ (m + (k + 1)) - m = k + 1
    BY <1>1, <1>9
  <2>2. both[m + (k + 1)] = more[k + 1]
    BY <1>1, <2>1
  <2>3. h[m + (k + 1)] = h[m + k] \o more[k + 1]
    BY <1>5, <2>1, <2>2 DEF JoinsUpto
  <2>4. g[k + 1] = g[k] \o more[k + 1]
    BY <1>5, <2>1 DEF JoinsUpto
  <2>5. h[m + k] = f[m] \o g[k]
    BY <1>9, <2>1
  <2>6. k \in 0..n
    BY <2>1
  <2>7. (f[m] \o g[k]) \o more[k + 1] = f[m] \o (g[k] \o more[k + 1])
    <3> DEFINE a == f[m]
               b == g[k]
               c == more[k + 1]
    <3>1. a \in Seq(S) /\ b \in Seq(S) /\ c \in Seq(S)
      BY <1>1, <1>7, <2>1, <2>6
    <3> HIDE DEF a, b, c
    <3>2. (a \o b) \o c = a \o (b \o c)
      BY ONLY <3>1, ConcatAssociative, SMTT(40)
    <3>3. QED
      BY <3>2 DEF a, b, c
  <2>8. QED
    BY <2>3, <2>4, <2>5, <2>7
<1>10. ASSUME NEW k \in Nat, k \in T
       PROVE  k + 1 \in T
  <2>1. k + 1 \in Nat
    OBVIOUS
  <2>2. CASE k + 1 <= n
    BY <1>9, <1>10, <2>1, <2>2
  <2>3. CASE ~(k + 1 <= n)
    BY <2>1, <2>3
  <2>4. QED
    BY <2>2, <2>3
<1>11. \A k \in Nat : k \in T
  <2> HIDE DEF T
  <2>1. QED
    BY <1>8, <1>10, SetInduction
<1>12. h[m + n] = f[m] \o g[n]
  <2>1. n \in T
    <3> HIDE DEF T
    <3>1. QED
      BY <1>1, <1>11
  <2>2. n <= n
    BY <1>1
  <2>3. QED
    BY <2>1, <2>2
<1>13. QED
  BY <1>2, <1>3, <1>4, <1>12 DEF both

-----------------------------------------------------------------------------
\* What is in a list, and that it is there once.
LEMMA ToSetOf ==
  ASSUME NEW S, NEW s \in Seq(S)
  PROVE  /\ \A e : e \in ToSet(s) <=> \E i \in 1..Len(s) : e = s[i]
         /\ ToSet(s) \subseteq S
         /\ s # <<>> => Head(s) \in ToSet(s) /\ ToSet(s) # {}
<1>1. Len(s) \in Nat /\ DOMAIN s = 1..Len(s) /\ s \in [1..Len(s) -> S]
  BY LenProperties
<1>2. \A e : e \in ToSet(s) <=> \E i \in 1..Len(s) : e = s[i]
  BY <1>1 DEF ToSet
<1>3. ToSet(s) \subseteq S
  BY <1>1, <1>2
<1>4. ASSUME s # <<>>
      PROVE  Head(s) \in ToSet(s)
  <2>1. Len(s) # 0
    BY <1>4, EmptySeq
  <2>2. 1 \in 1..Len(s)
    BY <1>1, <2>1
  <2>3. Head(s) = s[1]
    BY <1>4
  <2>4. QED
    BY <1>2, <2>2, <2>3
<1>5. QED
  BY <1>2, <1>3, <1>4

LEMMA ToSetShort ==
  /\ ToSet(<<>>) = {} /\ IsInjective(<<>>)
  /\ \A e : ToSet(<<e>>) = {e} /\ IsInjective(<<e>>)
  BY DEF ToSet, IsInjective

LEMMA ToSetConcat ==
  ASSUME NEW S, NEW s \in Seq(S), NEW t \in Seq(S)
  PROVE  ToSet(s \o t) = ToSet(s) \union ToSet(t)
<1> DEFINE m == Len(s)
           n == Len(t)
           st == s \o t
<1>1. m \in Nat /\ n \in Nat
  BY LenProperties
<1>2. st \in Seq(S) /\ Len(st) = m + n
  BY ConcatProperties
<1>3. /\ \A i \in 1..m : i \in 1..m + n /\ st[i] = s[i]
      /\ \A i \in 1..n : m + i \in 1..m + n /\ st[m + i] = t[i]
      /\ \A i \in 1..m + n : i \in 1..m \/ (i - m \in 1..n /\ st[i] = t[i - m])
  BY <1>1, ConcatProperties
<1> HIDE DEF m, n, st
<1>4. \A e : e \in ToSet(st) <=> \E i \in 1..m + n : e = st[i]
  BY <1>2, ToSetOf
<1>5. \A e : e \in ToSet(s) <=> \E i \in 1..m : e = s[i]
  BY ToSetOf DEF m
<1>6. \A e : e \in ToSet(t) <=> \E i \in 1..n : e = t[i]
  BY ToSetOf DEF n
<1>7. ASSUME NEW e
      PROVE  e \in ToSet(st) <=> e \in ToSet(s) \/ e \in ToSet(t)
  <2>1. ASSUME e \in ToSet(st)
        PROVE  e \in ToSet(s) \/ e \in ToSet(t)
    BY <1>3, <1>4, <1>5, <1>6, <2>1
  <2>2. ASSUME e \in ToSet(s)
        PROVE  e \in ToSet(st)
    BY <1>3, <1>4, <1>5, <2>2
  <2>3. ASSUME e \in ToSet(t)
        PROVE  e \in ToSet(st)
    BY <1>3, <1>4, <1>6, <2>3
  <2>4. QED
    BY <2>1, <2>2, <2>3
<1>8. QED
  BY <1>7 DEF st

LEMMA InjectiveList ==
  ASSUME NEW S, NEW s \in Seq(S)
  PROVE  IsInjective(s) <=> \A i, j \in 1..Len(s) : s[i] = s[j] => i = j
<1>1. DOMAIN s = 1..Len(s)
  BY LenProperties
<1>2. QED
  BY <1>1 DEF IsInjective

LEMMA InjectiveConcat ==
  ASSUME NEW S, NEW s \in Seq(S), NEW t \in Seq(S),
         IsInjective(s), IsInjective(t), ToSet(s) \intersect ToSet(t) = {}
  PROVE  IsInjective(s \o t)
<1> DEFINE m == Len(s)
           n == Len(t)
           st == s \o t
<1>1. m \in Nat /\ n \in Nat
  BY LenProperties
<1>2. st \in Seq(S) /\ Len(st) = m + n
  BY ConcatProperties
<1>3. \A i \in 1..m + n : i <= m => i \in 1..m /\ st[i] = s[i]
  BY <1>1, ConcatProperties
<1>4. \A i \in 1..m + n : ~(i <= m) => i - m \in 1..n /\ st[i] = t[i - m]
  BY <1>1, ConcatProperties
<1>5. \A i, j \in 1..m : s[i] = s[j] => i = j
  BY InjectiveList
<1>6. \A i, j \in 1..n : t[i] = t[j] => i = j
  BY InjectiveList
<1>7. \A i \in 1..m : \A j \in 1..n : s[i] # t[j]
  BY ToSetOf
<1> HIDE DEF m, n, st
<1>8. ASSUME NEW i \in 1..m + n, NEW j \in 1..m + n, st[i] = st[j]
      PROVE  i = j
  <2>1. CASE i <= m /\ j <= m
    BY <1>3, <1>5, <1>8, <2>1
  <2>2. CASE ~(i <= m) /\ ~(j <= m)
    <3>1. i - m = j - m
      BY <1>4, <1>6, <1>8, <2>2
    <3>2. QED
      BY <1>1, <3>1
  <2>3. CASE i <= m /\ ~(j <= m)
    BY <1>3, <1>4, <1>7, <1>8, <2>3
  <2>4. CASE ~(i <= m) /\ j <= m
    BY <1>3, <1>4, <1>7, <1>8, <2>4
  <2>5. QED
    BY <2>1, <2>2, <2>3, <2>4
<1>9. IsInjective(st)
  BY <1>2, <1>8, InjectiveList
<1>10. QED
  BY <1>9 DEF st

LEMMA AppendFacts ==
  ASSUME NEW S, NEW s \in Seq(S), NEW e \in S
  PROVE  /\ ToSet(Append(s, e)) = ToSet(s) \union {e}
         /\ IsInjective(s) /\ e \notin ToSet(s) => IsInjective(Append(s, e))
<1> DEFINE t == <<e>>
<1>1. t \in Seq(S) /\ Append(s, e) = s \o t
  BY AppendIsConcat
<1>2. ToSet(t) = {e} /\ IsInjective(t)
  BY ToSetShort
<1> HIDE DEF t
<1>3. ToSet(s \o t) = ToSet(s) \union ToSet(t)
  BY <1>1, ToSetConcat
<1>4. ASSUME IsInjective(s), e \notin ToSet(s)
      PROVE  IsInjective(s \o t)
  <2>1. ToSet(s) \intersect ToSet(t) = {}
    BY <1>2, <1>4
  <2>2. QED
    BY <1>1, <1>2, <1>4, <2>1, InjectiveConcat
<1>5. QED
  BY <1>1, <1>2, <1>3, <1>4

-----------------------------------------------------------------------------
\* Joined lists hold what each of them holds, and once if each list holds it once and no
\* two share a member.
LEMMA FlattenToSet ==
  ASSUME NEW S, NEW lists \in Seq(Seq(S))
  PROVE  \A e : e \in ToSet(FlattenSeq(lists)) <=> \E i \in 1..Len(lists) : e \in ToSet(lists[i])
<1> DEFINE n == Len(lists)
<1>1. n \in Nat /\ \A i \in 1..n : lists[i] \in Seq(S)
  BY LenProperties, ElementOfSeq
<1>2. PICK f \in [0..n -> Seq(S)] : Joins(f, lists) /\ FlattenSeq(lists) = f[n]
  BY FlattenJoins
<1>3. f[0] = <<>> /\ \A i \in 1..n : f[i] = f[i - 1] \o lists[i]
  BY <1>2 DEF Joins, JoinsUpto
<1> HIDE DEF n
<1> DEFINE In(e, k) == \E i \in 1..k : e \in ToSet(lists[i])
           T == {k \in Nat : k <= n => \A e : e \in ToSet(f[k]) <=> In(e, k)}
<1>4. 0 \in T
  BY <1>3, ToSetShort
<1>5. ASSUME NEW k \in Nat, k \in T, k + 1 <= n
      PROVE  \A e : e \in ToSet(f[k + 1]) <=> In(e, k + 1)
  <2>1. k + 1 \in 1..n /\ (k + 1) - 1 = k /\ k \in 0..n /\ k <= n
    BY <1>1, <1>5
  <2>2. f[k] \in Seq(S) /\ lists[k + 1] \in Seq(S) /\ f[k + 1] = f[k] \o lists[k + 1]
    BY <1>1, <1>3, <2>1
  <2>3. ToSet(f[k + 1]) = ToSet(f[k]) \union ToSet(lists[k + 1])
    BY <2>2, ToSetConcat
  <2>4. \A e : e \in ToSet(f[k]) <=> In(e, k)
    BY <1>5, <2>1
  <2>5. 1..k + 1 = (1..k) \union {k + 1}
    OBVIOUS
  <2>6. \A e : In(e, k + 1) <=> In(e, k) \/ e \in ToSet(lists[k + 1])
    BY <2>5
  <2> HIDE DEF In
  <2>7. QED
    BY <2>3, <2>4, <2>6
<1>6. ASSUME NEW k \in Nat, k \in T
      PROVE  k + 1 \in T
  <2> HIDE DEF In
  <2>1. k + 1 \in Nat
    OBVIOUS
  <2>2. CASE k + 1 <= n
    BY <1>5, <1>6, <2>1, <2>2
  <2>3. CASE ~(k + 1 <= n)
    BY <2>1, <2>3
  <2>4. QED
    BY <2>2, <2>3
<1>7. \A k \in Nat : k \in T
  <2> HIDE DEF T
  <2>1. QED
    BY <1>4, <1>6, SetInduction
<1>8. n \in T
  <2> HIDE DEF T
  <2>1. QED
    BY <1>1, <1>7
<1>9. \A e : e \in ToSet(f[n]) <=> In(e, n)
  <2> HIDE DEF In
  <2>1. n <= n
    BY <1>1
  <2>2. QED
    BY <1>8, <2>1
<1>10. QED
  BY <1>2, <1>9 DEF n

LEMMA FlattenInjective ==
  ASSUME NEW S, NEW lists \in Seq(Seq(S)),
         \A i \in 1..Len(lists) : IsInjective(lists[i]),
         \A i, j \in 1..Len(lists) : i # j => ToSet(lists[i]) \intersect ToSet(lists[j]) = {}
  PROVE  IsInjective(FlattenSeq(lists))
<1> DEFINE n == Len(lists)
<1>1. n \in Nat /\ \A i \in 1..n : lists[i] \in Seq(S)
  BY LenProperties, ElementOfSeq
<1>2. PICK f \in [0..n -> Seq(S)] : Joins(f, lists) /\ FlattenSeq(lists) = f[n]
  BY FlattenJoins
<1>3. f[0] = <<>> /\ \A i \in 1..n : f[i] = f[i - 1] \o lists[i]
  BY <1>2 DEF Joins, JoinsUpto
<1>4. /\ \A i \in 1..n : IsInjective(lists[i])
      /\ \A i, j \in 1..n : i # j => ToSet(lists[i]) \intersect ToSet(lists[j]) = {}
  OBVIOUS
<1> HIDE DEF n
<1> DEFINE Good(k) == /\ \A e \in ToSet(f[k]) : \E i \in 1..k : e \in ToSet(lists[i])
                      /\ IsInjective(f[k])
           T == {k \in Nat : k <= n => Good(k)}
<1>5. Good(0)
  BY <1>3, ToSetShort
<1>6. ASSUME NEW k \in Nat, Good(k), k + 1 <= n
      PROVE  Good(k + 1)
  <2>1. k + 1 \in 1..n /\ (k + 1) - 1 = k /\ k \in 0..n
    BY <1>1, <1>6
  <2>2. \A i \in 1..k : i \in 1..k + 1 /\ i \in 1..n /\ i # k + 1
    BY <1>1, <1>6
  <2>3. f[k] \in Seq(S) /\ lists[k + 1] \in Seq(S) /\ f[k + 1] = f[k] \o lists[k + 1]
    BY <1>1, <1>3, <2>1
  <2>4. ToSet(f[k + 1]) = ToSet(f[k]) \union ToSet(lists[k + 1])
    BY <2>3, ToSetConcat
  <2>5. ToSet(f[k]) \intersect ToSet(lists[k + 1]) = {}
    BY <1>4, <1>6, <2>1, <2>2
  <2>6. IsInjective(f[k + 1])
    BY <1>4, <1>6, <2>1, <2>3, <2>5, InjectiveConcat
  <2>7. k + 1 \in 1..k + 1
    OBVIOUS
  <2>8. QED
    BY <1>6, <2>2, <2>4, <2>6, <2>7
<1> HIDE DEF Good
<1>7. 0 \in T
  BY <1>5
<1>8. ASSUME NEW k \in Nat, k \in T
      PROVE  k + 1 \in T
  <2>1. k + 1 \in Nat /\ (k + 1 <= n => k <= n)
    BY <1>1
  <2>2. QED
    BY <1>6, <1>8, <2>1
<1>9. \A k \in Nat : k \in T
  <2> HIDE DEF T
  <2>1. QED
    BY <1>7, <1>8, SetInduction
<1>10. n \in T
  <2> HIDE DEF T
  <2>1. QED
    BY <1>1, <1>9
<1>11. Good(n)
  <2>1. n <= n
    BY <1>1
  <2>2. QED
    BY <1>10, <2>1
<1>12. QED
  BY <1>2, <1>11 DEF Good

\* What holds of no list and is kept by putting lists together holds of lists joined.
LEMMA FlattenKeeps ==
  ASSUME NEW S, NEW lists \in Seq(Seq(S)), NEW Good \in SUBSET Seq(S),
         <<>> \in Good, \A s, t \in Good : s \o t \in Good,
         \A i \in 1..Len(lists) : lists[i] \in Good
  PROVE  FlattenSeq(lists) \in Good
<1> DEFINE n == Len(lists)
<1>1. n \in Nat
  BY LenProperties
<1>2. PICK f \in [0..n -> Seq(S)] : Joins(f, lists) /\ FlattenSeq(lists) = f[n]
  BY FlattenJoins
<1>3. f[0] = <<>> /\ \A i \in 1..n : f[i] = f[i - 1] \o lists[i]
  BY <1>2 DEF Joins, JoinsUpto
<1>4. \A i \in 1..n : lists[i] \in Good
  OBVIOUS
<1> HIDE DEF n
<1> DEFINE T == {k \in Nat : k <= n => f[k] \in Good}
<1>5. 0 \in T
  BY <1>3
<1>6. ASSUME NEW k \in Nat, k \in T
      PROVE  k + 1 \in T
  <2>1. ASSUME k + 1 <= n
        PROVE  f[k + 1] \in Good
    <3>1. k + 1 \in 1..n /\ (k + 1) - 1 = k /\ k <= n
      BY <1>1, <2>1
    <3>2. f[k] \in Good /\ f[k + 1] = f[k] \o lists[k + 1]
      BY <1>3, <1>6, <3>1
    <3>3. QED
      BY <1>4, <3>1, <3>2
  <2>2. QED
    BY <2>1
<1>7. \A k \in Nat : k \in T
  <2> HIDE DEF T
  <2>1. QED
    BY <1>5, <1>6, SetInduction
<1>8. n \in T /\ n <= n
  <2> HIDE DEF T
  <2>1. QED
    BY <1>1, <1>7
<1>9. QED
  BY <1>2, <1>8 DEF n

\* A list turned round has the same members.
LEMMA ReverseFacts ==
  ASSUME NEW S, NEW s \in Seq(S)
  PROVE  /\ Reverse(s) \in Seq(S)
         /\ ToSet(Reverse(s)) = ToSet(s)
         /\ IsInjective(s) => IsInjective(Reverse(s))
<1> DEFINE n == Len(s)
           r == Reverse(s)
<1>1. n \in Nat /\ \A i \in 1..n : s[i] \in S
  BY LenProperties, ElementOfSeq
<1> HIDE DEF n
<1>2. \A i \in 1..n : (n - i) + 1 \in 1..n /\ n - ((n - i) + 1) + 1 = i
  BY <1>1
<1>3. r = [i \in 1..n |-> s[(n - i) + 1]]
  BY DEF Reverse, n
<1>4. \A i \in 1..n : r[i] = s[(n - i) + 1] /\ r[i] \in S
  BY <1>1, <1>2, <1>3
<1>5. r \in Seq(S) /\ Len(r) = n
  BY <1>1, <1>3, <1>4
<1> HIDE DEF r
<1>6. /\ \A e : e \in ToSet(s) <=> \E i \in 1..n : e = s[i]
      /\ \A e : e \in ToSet(r) <=> \E i \in 1..n : e = r[i]
  BY <1>5, ToSetOf DEF n
<1>7. ASSUME NEW e
      PROVE  e \in ToSet(r) <=> e \in ToSet(s)
  <2>1. ASSUME NEW i \in 1..n, e = s[i]
        PROVE  \E j \in 1..n : e = r[j]
    <3>1. (n - i) + 1 \in 1..n /\ r[(n - i) + 1] = s[i]
      BY <1>2, <1>4
    <3>2. QED
      BY <2>1, <3>1
  <2>2. ASSUME NEW i \in 1..n, e = r[i]
        PROVE  \E j \in 1..n : e = s[j]
    BY <1>2, <1>4, <2>2
  <2>3. QED
    BY <1>6, <2>1, <2>2
<1>8. ASSUME IsInjective(s)
      PROVE  IsInjective(r)
  <2>1. \A i, j \in 1..n : s[i] = s[j] => i = j
    BY <1>8, InjectiveList DEF n
  <2>2. ASSUME NEW i \in 1..n, NEW j \in 1..n, r[i] = r[j]
        PROVE  i = j
    <3>1. (n - i) + 1 = (n - j) + 1
      BY <1>2, <1>4, <2>1, <2>2
    <3>2. QED
      BY <1>1, <3>1
  <2>3. QED
    BY <1>5, <2>2, InjectiveList
<1>9. QED
  BY <1>5, <1>7, <1>8 DEF r

-----------------------------------------------------------------------------
\* Lists that are the same up to n have the same parts up to n.
LEMMA SameParts ==
  ASSUME NEW S, NEW d \in Seq(S), NEW e \in Seq(S), NEW n \in Nat,
         n <= Len(d), n <= Len(e), SameUpto(d, e, n), NEW m \in 1..n + 1
  PROVE  SubSeq(d, m, n) = SubSeq(e, m, n)
<1>1. /\ \A i \in m..n : i \in 1..n /\ i \in 1..Len(d) /\ i \in 1..Len(e)
      /\ m \in Int /\ n \in Int
  BY LenProperties
<1>2. \A i \in m..n : d[i] \in S /\ e[i] \in S /\ d[i] = e[i]
  BY <1>1, ElementOfSeq DEF SameUpto
<1> DEFINE x == SubSeq(d, m, n)
           y == SubSeq(e, m, n)
<1>3. x \in Seq(S) /\ Len(x) = (IF m <= n THEN n - m + 1 ELSE 0)
      /\ \A i \in 1..n - m + 1 : x[i] = d[m + i - 1]
  BY <1>1, <1>2, SubSeqProperties
<1>4. y \in Seq(S) /\ Len(y) = (IF m <= n THEN n - m + 1 ELSE 0)
      /\ \A i \in 1..n - m + 1 : y[i] = e[m + i - 1]
  BY <1>1, <1>2, SubSeqProperties
<1> HIDE DEF x, y
<1>5. ASSUME NEW i \in 1..Len(x)
      PROVE  x[i] = y[i]
  <2>1. i \in 1..n - m + 1 /\ m + i - 1 \in m..n
    BY <1>1, <1>3
  <2>2. QED
    BY <1>2, <1>3, <1>4, <2>1
<1>6. x = y
  BY <1>3, <1>4, <1>5, SeqEqual
<1>7. QED
  BY <1>6 DEF x, y

\* The parts of two lists put together.
LEMMA PartsOfConcat ==
  ASSUME NEW S, NEW a \in Seq(S), NEW b \in Seq(S)
  PROVE  /\ SubSeq(a \o b, 1, Len(a)) = a
         /\ SubSeq(a \o b, Len(a) + 1, Len(a \o b)) = b
         /\ SameUpto(a, a \o b, Len(a))
<1> DEFINE m == Len(a)
           n == Len(b)
           ab == a \o b
           x == SubSeq(ab, 1, m)
           y == SubSeq(ab, m + 1, m + n)
<1>1. m \in Nat /\ n \in Nat /\ m \in Int /\ n \in Int
  BY LenProperties
<1>2. ab \in Seq(S) /\ Len(ab) = m + n
  BY ConcatProperties
<1>3. /\ \A i \in 1..m : i \in 1..m + n /\ ab[i] = a[i]
      /\ \A i \in m + 1..m + n : i \in 1..m + n /\ i - m \in 1..n /\ ab[i] = b[i - m]
  BY <1>1, ConcatProperties
<1>4. \A i \in 1..m + n : ab[i] \in S
  BY <1>2, ElementOfSeq
<1> HIDE DEF m, n, ab
<1>5. x \in Seq(S) /\ Len(x) = m /\ \A i \in 1..m : x[i] = a[i]
  <2>1. \A i \in 1..m : ab[i] \in S /\ 1 + i - 1 = i
    BY <1>1, <1>3, <1>4
  <2>2. x \in Seq(S) /\ Len(x) = (IF 1 <= m THEN m - 1 + 1 ELSE 0)
        /\ \A i \in 1..m - 1 + 1 : x[i] = ab[1 + i - 1]
    BY <1>1, <2>1, SubSeqProperties
  <2>3. (IF 1 <= m THEN m - 1 + 1 ELSE 0) = m /\ m - 1 + 1 = m
    BY <1>1
  <2>4. QED
    BY <1>3, <2>1, <2>2, <2>3
<1>6. y \in Seq(S) /\ Len(y) = n /\ \A i \in 1..n : y[i] = b[i]
  <2>1. \A i \in m + 1..m + n : ab[i] \in S
    BY <1>3, <1>4
  <2>2. y \in Seq(S) /\ Len(y) = (IF m + 1 <= m + n THEN m + n - (m + 1) + 1 ELSE 0)
        /\ \A i \in 1..m + n - (m + 1) + 1 : y[i] = ab[m + 1 + i - 1]
    BY <1>1, <2>1, SubSeqProperties
  <2>3. (IF m + 1 <= m + n THEN m + n - (m + 1) + 1 ELSE 0) = n /\ m + n - (m + 1) + 1 = n
    BY <1>1
  <2>4. \A i \in 1..n : m + 1 + i - 1 \in m + 1..m + n /\ (m + 1 + i - 1) - m = i
    BY <1>1
  <2>5. QED
    BY <1>3, <2>2, <2>3, <2>4
<1> HIDE DEF x, y
<1>7. x = a
  BY <1>5, SeqEqual DEF m
<1>8. y = b
  BY <1>6, SeqEqual DEF n
<1>9. SameUpto(a, ab, m)
  BY <1>3 DEF SameUpto
<1>10. QED
  BY <1>2, <1>7, <1>8, <1>9 DEF m, n, ab, x, y

-----------------------------------------------------------------------------
\* d with k members behind the i-th replaced by t.
Spliced(d, i, k, t) == SubSeq(d, 1, i) \o t \o SubSeq(d, i + k + 1, Len(d))

\* e is what that makes, member by member.
IsSpliced(e, S, d, i, k, t) ==
  /\ e \in Seq(S)
  /\ Len(e) = Len(d) - k + Len(t)
  /\ \A j \in 1..Len(d) - k + Len(t) :
       e[j] = IF j <= i THEN d[j] ELSE IF j <= i + Len(t) THEN t[j - i] ELSE d[j - Len(t) + k]

LEMMA SpliceFacts ==
  ASSUME NEW S, NEW d \in Seq(S), NEW i \in 0..Len(d), NEW k \in Nat, i + k <= Len(d),
         NEW t \in Seq(S)
  PROVE  IsSpliced(Spliced(d, i, k, t), S, d, i, k, t)
<1> DEFINE n == Len(d)
           l == Len(t)
           a == SubSeq(d, 1, i)
           c == SubSeq(d, i + k + 1, n)
           at == a \o t
           atc == at \o c
<1>1. n \in Nat /\ l \in Nat /\ i \in Nat /\ i <= n /\ i + k <= n
  BY LenProperties
<1>2. \A j \in 1..n : d[j] \in S
  BY ElementOfSeq
<1> HIDE DEF n, l
<1>3. a \in Seq(S) /\ Len(a) = i /\ \A j \in 1..i : a[j] = d[j]
  <2>1. \A j \in 1..i : d[j] \in S /\ 1 + j - 1 = j
    BY <1>1, <1>2
  <2>2. a \in Seq(S) /\ Len(a) = (IF 1 <= i THEN i - 1 + 1 ELSE 0)
        /\ \A j \in 1..i - 1 + 1 : a[j] = d[1 + j - 1]
    BY <1>1, <2>1, SubSeqProperties
  <2>3. (IF 1 <= i THEN i - 1 + 1 ELSE 0) = i /\ i - 1 + 1 = i
    BY <1>1
  <2>4. QED
    BY <2>1, <2>2, <2>3
<1>4. c \in Seq(S) /\ Len(c) = n - i - k /\ \A j \in 1..n - i - k : c[j] = d[i + k + j]
  <2>1. \A j \in i + k + 1..n : d[j] \in S
    BY <1>1, <1>2
  <2>2. c \in Seq(S) /\ Len(c) = (IF i + k + 1 <= n THEN n - (i + k + 1) + 1 ELSE 0)
        /\ \A j \in 1..n - (i + k + 1) + 1 : c[j] = d[i + k + 1 + j - 1]
    BY <1>1, <2>1, SubSeqProperties
  <2>3. (IF i + k + 1 <= n THEN n - (i + k + 1) + 1 ELSE 0) = n - i - k
        /\ n - (i + k + 1) + 1 = n - i - k
        /\ \A j \in 1..n - i - k : i + k + 1 + j - 1 = i + k + j
    BY <1>1
  <2>4. QED
    BY <2>2, <2>3
<1> HIDE DEF a, c
<1>5. at \in Seq(S) /\ Len(at) = i + l
      /\ \A j \in 1..i + l : at[j] = IF j <= i THEN a[j] ELSE t[j - i]
  BY <1>3, ConcatProperties DEF l
<1> HIDE DEF at
<1>6. atc \in Seq(S) /\ Len(atc) = (i + l) + (n - i - k)
      /\ \A j \in 1..(i + l) + (n - i - k) :
           atc[j] = IF j <= i + l THEN at[j] ELSE c[j - (i + l)]
  <2>1. at \in Seq(S) /\ c \in Seq(S)
    BY <1>4, <1>5
  <2>2. atc \in Seq(S) /\ Len(atc) = Len(at) + Len(c)
        /\ \A j \in 1..Len(at) + Len(c) :
             atc[j] = IF j <= Len(at) THEN at[j] ELSE c[j - Len(at)]
    BY <2>1, ConcatProperties
  <2>3. Len(at) = i + l /\ Len(c) = n - i - k
    BY <1>4, <1>5
  <2> HIDE DEF atc
  <2>4. QED
    BY <2>2, <2>3
<1> HIDE DEF atc
<1>7. (i + l) + (n - i - k) = n - k + l
  BY <1>1
<1>8. ASSUME NEW j \in 1..n - k + l
      PROVE  atc[j] = IF j <= i THEN d[j] ELSE IF j <= i + l THEN t[j - i] ELSE d[j - l + k]
  <2>1. CASE j <= i
    <3>1. j \in 1..i /\ j \in 1..i + l /\ j <= i + l
      BY <1>1, <2>1
    <3>2. QED
      BY <1>3, <1>5, <1>6, <1>7, <2>1, <3>1
  <2>2. CASE ~(j <= i) /\ j <= i + l
    <3>1. j \in 1..i + l
      BY <1>1, <2>2
    <3>2. QED
      BY <1>5, <1>6, <1>7, <2>2, <3>1
  <2>3. CASE ~(j <= i) /\ ~(j <= i + l)
    <3>1. j - (i + l) \in 1..n - i - k /\ i + k + (j - (i + l)) = j - l + k
      BY <1>1, <2>3
    <3>2. QED
      BY <1>4, <1>6, <1>7, <2>3, <3>1
  <2>4. QED
    BY <1>1, <2>1, <2>2, <2>3
<1>9. Spliced(d, i, k, t) = atc
  BY DEF Spliced, atc, at, a, c, n
<1>10. QED
  BY <1>6, <1>7, <1>8, <1>9 DEF n, l, IsSpliced

\* What is behind b of a list.
Behind(d, b) == SubSeq(d, b + 1, Len(d))

LEMMA BehindFacts ==
  ASSUME NEW S, NEW d \in Seq(S), NEW b \in 0..Len(d)
  PROVE  /\ SubSeq(d, b + 1, Len(d)) \in Seq(S)
         /\ Len(SubSeq(d, b + 1, Len(d))) = Len(d) - b
         /\ \A j \in 1..Len(d) - b : SubSeq(d, b + 1, Len(d))[j] = d[b + j]
<1> DEFINE n == Len(d)
           r == SubSeq(d, b + 1, n)
<1>1. n \in Nat /\ b \in Nat /\ b <= n /\ \A j \in 1..n : d[j] \in S
  BY LenProperties, ElementOfSeq
<1> HIDE DEF n
<1>2. \A j \in b + 1..n : d[j] \in S
  BY <1>1
<1>3. r \in Seq(S) /\ Len(r) = (IF b + 1 <= n THEN n - (b + 1) + 1 ELSE 0)
      /\ \A j \in 1..n - (b + 1) + 1 : r[j] = d[b + 1 + j - 1]
  BY <1>1, <1>2, SubSeqProperties
<1> HIDE DEF r
<1>4. (IF b + 1 <= n THEN n - (b + 1) + 1 ELSE 0) = n - b /\ n - (b + 1) + 1 = n - b
      /\ \A j \in 1..n - b : b + 1 + j - 1 = b + j
  BY <1>1
<1>5. r \in Seq(S) /\ Len(r) = n - b /\ \A j \in 1..n - b : r[j] = d[b + j]
  BY <1>3, <1>4
<1>6. QED
  BY <1>5 DEF n, r

\* Replacing behind b leaves what is before it alone, and is a replacement in what is
\* behind it.
LEMMA SpliceBehind ==
  ASSUME NEW S, NEW d \in Seq(S), NEW i \in 0..Len(d), NEW k \in Nat, i + k <= Len(d),
         NEW t \in Seq(S), NEW b \in 0..i
  PROVE  /\ b \in 0..Len(Spliced(d, i, k, t))
         /\ SameUpto(d, Spliced(d, i, k, t), b)
         /\ Behind(Spliced(d, i, k, t), b) = Spliced(Behind(d, b), i - b, k, t)
<1> DEFINE n == Len(d)
           l == Len(t)
           e == Spliced(d, i, k, t)
           m == n - k + l
           r == SubSeq(d, b + 1, n)
           x == SubSeq(e, b + 1, m)
           y == Spliced(r, i - b, k, t)
<1>1. n \in Nat /\ l \in Nat /\ i \in Nat /\ b \in Nat /\ i <= n /\ i + k <= n /\ b <= i
  BY LenProperties
<1>2. e \in Seq(S) /\ Len(e) = m
      /\ \A j \in 1..m :
           e[j] = IF j <= i THEN d[j] ELSE IF j <= i + l THEN t[j - i] ELSE d[j - l + k]
  <2>1. IsSpliced(e, S, d, i, k, t)
    BY SpliceFacts
  <2>2. QED
    BY <2>1 DEF IsSpliced
<1>3. r \in Seq(S) /\ Len(r) = n - b /\ \A j \in 1..n - b : r[j] = d[b + j]
  <2>1. b \in 0..Len(d)
    BY <1>1
  <2>2. QED
    BY <2>1, BehindFacts
<1> HIDE DEF n, l, e, r
<1>4. m \in Nat /\ b \in 0..m
  BY <1>1
<1> HIDE DEF m
<1>5. x \in Seq(S) /\ Len(x) = m - b /\ \A j \in 1..m - b : x[j] = e[b + j]
  BY <1>2, <1>4, BehindFacts
<1>6. i - b \in 0..n - b /\ (i - b) + k <= n - b
  BY <1>1
<1>7. y \in Seq(S) /\ Len(y) = (n - b) - k + l
      /\ \A j \in 1..(n - b) - k + l :
           y[j] = IF j <= i - b THEN r[j]
                  ELSE IF j <= (i - b) + l THEN t[j - (i - b)] ELSE r[j - l + k]
  <2>1. r \in Seq(S) /\ i - b \in 0..Len(r) /\ (i - b) + k <= Len(r)
    BY <1>3, <1>6
  <2>2. IsSpliced(y, S, r, i - b, k, t)
    BY <2>1, SpliceFacts
  <2> HIDE DEF y
  <2>3. QED
    BY <1>3, <2>2 DEF IsSpliced, l
<1> HIDE DEF x, y
<1>8. (n - b) - k + l = m - b
  BY <1>1 DEF m
<1>9. ASSUME NEW j \in 1..m - b
      PROVE  x[j] = y[j]
  <2> DEFINE p == b + j
  <2>1. p \in 1..m /\ p - i = j - (i - b)
        /\ (p <= i <=> j <= i - b) /\ (p <= i + l <=> j <= (i - b) + l)
    BY <1>1, <1>4
  <2>2. x[j] = e[p]
    BY <1>5
  <2>3. e[p] = IF p <= i THEN d[p] ELSE IF p <= i + l THEN t[p - i] ELSE d[p - l + k]
    <3> HIDE DEF p
    <3>1. QED
      BY <1>2, <2>1
  <2>4. y[j] = IF j <= i - b THEN r[j]
               ELSE IF j <= (i - b) + l THEN t[j - (i - b)] ELSE r[j - l + k]
    BY <1>7, <1>8
  <2>5. j <= i - b => j \in 1..n - b
    BY <1>1
  <2>6. j <= i - b => r[j] = d[p]
    BY <1>3, <2>5
  <2>7. ~(j <= i - b) /\ ~(j <= (i - b) + l)
          => j - l + k \in 1..n - b /\ b + (j - l + k) = p - l + k
    BY <1>1, <1>8
  <2>8. ~(j <= i - b) /\ ~(j <= (i - b) + l) => r[j - l + k] = d[p - l + k]
    BY <1>3, <2>7
  <2> HIDE DEF p
  <2>9. QED
    BY <2>1, <2>2, <2>3, <2>4, <2>6, <2>8
<1>10. x = y
  BY <1>5, <1>7, <1>8, <1>9, SeqEqual
<1>11. SameUpto(d, e, b)
  <2>1. \A j \in 1..b : j \in 1..m /\ j <= i
    BY <1>1, <1>4
  <2>2. QED
    BY <1>2, <2>1 DEF SameUpto
<1>12. QED
  BY <1>2, <1>4, <1>10, <1>11 DEF Behind, n, l, e, r, x, y
=============================================================================
