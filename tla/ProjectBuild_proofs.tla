------------------------- MODULE ProjectBuild_proofs -------------------------
(***************************************************************************)
(* That the session and the build queue go together, for any projects with  *)
(* any numbers of steps: what is queued is open, whatever is removed when,  *)
(* and a run that waits for a build is begun when all of it was done.       *)
(* Before that, of the build manager by itself (BM): that its counters      *)
(* agree with its queue, whatever lists of steps are handed to it at        *)
(* whatever time, and that an event of a thread is never taken for that of  *)
(* another step, if every list has a step that is enabled.                  *)
(***************************************************************************)
EXTENDS ProjectBuild, SessionManager_proofs, FunctionTheorems

-----------------------------------------------------------------------------
\* Where the steps of project p are in a list.
Places(steps, p) == {i \in DOMAIN steps : steps[i].project = p}

LEMMA PlacesAreFinite ==
  ASSUME NEW steps \in Seq(BM!BuildStep), NEW p
  PROVE  /\ IsFiniteSet(Places(steps, p))
         /\ Cardinality(Places(steps, p)) \in Nat
<1>1. DOMAIN steps = 1..Len(steps) /\ Len(steps) \in Nat
  BY LenProperties
<1>2. IsFiniteSet(1..Len(steps))
  BY <1>1, FS_Interval
<1>3. Places(steps, p) \in SUBSET (1..Len(steps))
  BY <1>1 DEF Places
<1>4. IsFiniteSet(Places(steps, p))
  BY <1>2, <1>3, FS_Subset
<1>5. QED
  BY <1>4, FS_CardinalityType

LEMMA CountIsNatural ==
  ASSUME NEW steps \in Seq(BM!BuildStep)
  PROVE  /\ BM!CountOf(steps) \in [Project -> Nat]
         /\ \A p \in Project : BM!CountOf(steps)[p] = Cardinality(Places(steps, p))
<1>1. \A p \in Project : BM!CountOf(steps)[p] = Cardinality(Places(steps, p))
  BY DEF BM!CountOf, BM!Cardinality, Cardinality, Places
<1>2. BM!CountOf(steps) = [p \in Project |-> BM!CountOf(steps)[p]]
  BY DEF BM!CountOf
<1>3. QED
  BY <1>1, <1>2, PlacesAreFinite

\* The steps of two lists one behind the other are those of the one and those of the other.
LEMMA CountOfConcatenation ==
  ASSUME NEW s \in Seq(BM!BuildStep), NEW t \in Seq(BM!BuildStep), NEW p \in Project
  PROVE  BM!CountOf(s \o t)[p] = BM!CountOf(s)[p] + BM!CountOf(t)[p]
<1> DEFINE A == Places(s, p)
           B == Places(t, p)
           C == {i \in Len(s) + 1..Len(s) + Len(t) : t[i - Len(s)].project = p}
           f == [i \in B |-> Len(s) + i]
<1>1. /\ s \o t \in Seq(BM!BuildStep)
      /\ Len(s \o t) = Len(s) + Len(t)
      /\ \A i \in 1..Len(s) + Len(t) : (s \o t)[i] = IF i <= Len(s) THEN s[i] ELSE t[i - Len(s)]
  BY ConcatProperties
<1>2. /\ DOMAIN s = 1..Len(s) /\ Len(s) \in Nat
      /\ DOMAIN t = 1..Len(t) /\ Len(t) \in Nat
      /\ DOMAIN (s \o t) = 1..Len(s) + Len(t)
  BY <1>1, LenProperties
<1>3. Places(s \o t, p) = A \union C
  <2>1. ASSUME NEW i \in Places(s \o t, p) PROVE i \in A \union C
    BY <1>1, <1>2, <2>1 DEF Places
  <2>2. ASSUME NEW i \in A PROVE i \in Places(s \o t, p)
    BY <1>1, <1>2, <2>2 DEF Places
  <2>3. ASSUME NEW i \in C PROVE i \in Places(s \o t, p)
    BY <1>1, <1>2, <2>3 DEF Places
  <2>4. QED
    BY <2>1, <2>2, <2>3
<1>4. A \intersect C = {}
  BY <1>2 DEF Places
<1>5. f \in Bijection(B, C)
  <2>1. f \in [B -> C]
    BY <1>2 DEF Places
  <2>2. \A a, b \in B : f[a] = f[b] => a = b
    BY <1>2 DEF Places
  <2>3. ASSUME NEW c \in C PROVE \E b \in B : f[b] = c
    <3>1. c - Len(s) \in B /\ Len(s) + (c - Len(s)) = c
      BY <1>2 DEF Places
    <3>2. QED
      BY <3>1
  <2>4. QED
    BY <2>1, <2>2, <2>3, Fun_IsBij
<1>6. IsFiniteSet(A) /\ IsFiniteSet(B) /\ Cardinality(A) \in Nat /\ Cardinality(B) \in Nat
  BY PlacesAreFinite
<1>7. IsFiniteSet(C) /\ Cardinality(C) = Cardinality(B)
  <2> HIDE DEF f, B, C
  <2>1. ExistsBijection(B, C)
    BY <1>5 DEF ExistsBijection
  <2>2. QED
    BY <1>6, <2>1, FS_Bijection
<1>8. Cardinality(A \union C) = Cardinality(A) + Cardinality(B)
  <2> HIDE DEF A, B, C
  <2>1. Cardinality(A \union C) = Cardinality(A) + Cardinality(C) - Cardinality(A \intersect C)
    BY <1>6, <1>7, FS_Union
  <2>2. Cardinality(A \intersect C) = 0
    BY <1>4, FS_EmptySet
  <2>3. QED
    BY <1>6, <1>7, <2>1, <2>2
<1>9. QED
  BY <1>1, <1>3, <1>8, CountIsNatural

LEMMA CountOfNone == \A p \in Project : BM!CountOf(<<>>)[p] = 0
<1>1. \A p : Places(<<>>, p) = {}
  BY DEF Places
<1>2. QED
  BY <1>1, CountIsNatural, EmptySeq, FS_EmptySet

LEMMA CountOfOne ==
  ASSUME NEW s \in BM!BuildStep, NEW p \in Project
  PROVE  BM!CountOf(<<s>>)[p] = IF s.project = p THEN 1 ELSE 0
<1>1. <<s>> \in Seq(BM!BuildStep)
  OBVIOUS
<1>2. Places(<<s>>, p) = IF s.project = p THEN {1} ELSE {}
  BY DEF Places
<1>3. Cardinality({1}) = 1 /\ Cardinality({}) = 0
  BY FS_EmptySet, FS_Singleton
<1>4. BM!CountOf(<<s>>)[p] = Cardinality(Places(<<s>>, p))
  BY <1>1, CountIsNatural
<1>5. QED
  BY <1>2, <1>3, <1>4

\* The steps of a list are those before a place, the one at it and those behind it.
LEMMA CountInThree ==
  ASSUME NEW steps \in Seq(BM!BuildStep), NEW k \in 0..Len(steps), NEW p \in Project
  PROVE  /\ SubSeq(steps, 1, k) \in Seq(BM!BuildStep)
         /\ SubSeq(steps, k + 2, Len(steps)) \in Seq(BM!BuildStep)
         /\ k = Len(steps) => BM!CountOf(steps)[p] = BM!CountOf(SubSeq(steps, 1, k))[p]
         /\ k < Len(steps) =>
              /\ steps[k + 1] \in BM!BuildStep
              /\ Len(SubSeq(steps, k + 2, Len(steps))) = Len(steps) - k - 1
              /\ BM!CountOf(steps)[p] = BM!CountOf(SubSeq(steps, 1, k))[p]
                                     + (IF steps[k + 1].project = p THEN 1 ELSE 0)
                                     + BM!CountOf(SubSeq(steps, k + 2, Len(steps)))[p]
<1> DEFINE n == Len(steps)
<1>1. n \in Nat /\ \A i \in 1..n : steps[i] \in BM!BuildStep
  BY LenProperties, ElementOfSeq
<1>2. SubSeq(steps, 1, k) \in Seq(BM!BuildStep)
  BY <1>1, SubSeqProperties
<1>3. SubSeq(steps, k + 2, n) \in Seq(BM!BuildStep)
  BY <1>1, SubSeqProperties
<1>4. k = n => SubSeq(steps, 1, k) = steps
  BY SubSeqFull
<1>5. ASSUME k < n
      PROVE  /\ steps[k + 1] \in BM!BuildStep
             /\ Len(SubSeq(steps, k + 2, n)) = n - k - 1
             /\ BM!CountOf(steps)[p] = BM!CountOf(SubSeq(steps, 1, k))[p]
                                    + (IF steps[k + 1].project = p THEN 1 ELSE 0)
                                    + BM!CountOf(SubSeq(steps, k + 2, n))[p]
  <2>1. steps[k + 1] \in BM!BuildStep /\ k + 1 \in 1..n /\ k \in 0..n
    BY <1>1, <1>5
  <2>2. Len(SubSeq(steps, k + 2, n)) = n - k - 1
    BY <1>1, <1>5, SubSeqProperties
  <2>3. steps = SubSeq(steps, 1, k) \o SubSeq(steps, k + 1, n)
    BY <1>1, <2>1, ConcatAdjacentSubSeq, SubSeqFull
  <2>4. SubSeq(steps, k + 1, n) = <<steps[k + 1]>> \o SubSeq(steps, (k + 1) + 1, n)
    BY <1>1, <2>1, SubSeqRecursiveFirst
  <2>5. SubSeq(steps, k + 1, n) \in Seq(BM!BuildStep)
    BY <1>1, <2>1, SubSeqProperties
  <2>6. (k + 1) + 1 = k + 2 /\ <<steps[k + 1]>> \in Seq(BM!BuildStep)
    BY <1>1, <2>1
  <2>7. BM!CountOf(steps)[p] = BM!CountOf(SubSeq(steps, 1, k))[p] + BM!CountOf(SubSeq(steps, k + 1, n))[p]
    <3> DEFINE before == SubSeq(steps, 1, k)
               from == SubSeq(steps, k + 1, n)
    <3>1. steps = before \o from
      BY <2>3
    <3>2. before \in Seq(BM!BuildStep) /\ from \in Seq(BM!BuildStep)
      BY <1>2, <2>5
    <3> HIDE DEF before, from
    <3>3. BM!CountOf(before \o from)[p] = BM!CountOf(before)[p] + BM!CountOf(from)[p]
      BY <3>2, CountOfConcatenation
    <3>4. QED
      BY <3>1, <3>3 DEF before, from
  <2>8. BM!CountOf(SubSeq(steps, k + 1, n))[p]
          = BM!CountOf(<<steps[k + 1]>>)[p] + BM!CountOf(SubSeq(steps, k + 2, n))[p]
    <3> DEFINE one == <<steps[k + 1]>>
               behind == SubSeq(steps, k + 2, n)
    <3>1. SubSeq(steps, k + 1, n) = one \o behind
      BY <2>4, <2>6
    <3>2. one \in Seq(BM!BuildStep) /\ behind \in Seq(BM!BuildStep)
      BY <1>3, <2>6
    <3> HIDE DEF one, behind
    <3>3. BM!CountOf(one \o behind)[p] = BM!CountOf(one)[p] + BM!CountOf(behind)[p]
      BY <3>2, CountOfConcatenation
    <3>4. QED
      BY <3>1, <3>3 DEF one, behind
  <2>9. BM!CountOf(<<steps[k + 1]>>)[p] = IF steps[k + 1].project = p THEN 1 ELSE 0
    BY <2>1, CountOfOne
  <2>10. /\ BM!CountOf(SubSeq(steps, 1, k))[p] \in Nat
         /\ BM!CountOf(SubSeq(steps, k + 2, n))[p] \in Nat
    BY <1>2, <1>3, CountIsNatural
  <2>11. QED
    BY <2>1, <2>2, <2>7, <2>8, <2>9, <2>10
<1>6. QED
  BY <1>2, <1>3, <1>4, <1>5

-----------------------------------------------------------------------------
\* No project is called NoProject, the project of no step.
LEMMA NoStepIsNone ==
  /\ BM!NoProject = NoProject /\ BM!NoStep.project = NoProject
  /\ BM!NoStep \notin BM!BuildStep /\ BM!NoStep.project \notin Project
  BY ProjectAssumption DEF BM!NoStep, BM!BuildStep, BM!NoProject, NoProject

\* A thread runs the current step, and is done before its event is posted.
ThreadRuns == thread # BM!NoStep => running /\ ~canceling /\ thread = current /\ posted = "none"

\* What holds whatever is requested.
CountersInv == BM!TypeOK /\ BM!CountsMatch /\ ThreadRuns

\* What holds if every request has an enabled step.
EventHasStep == posted # "none" /\ ~canceling => current # BM!NoStep

ManagerInv == CountersInv /\ EventHasStep

\* The steps of the manager, with any list of steps for a request.
AnyRequest == \E steps \in Seq(BM!BuildStep) : BM!BuildLists(steps)
AnyNext == AnyRequest \/ BM!StepEnds \/ BM!IgnoreEvent \/ BM!NextBuildQueue \/ BM!Cancel \/ BM!GoesOn

LEMMA ManagerInit == BM!Init => ManagerInv
<1> SUFFICES ASSUME BM!Init PROVE ManagerInv
  OBVIOUS
<1>1. BM!TypeOK
  BY EmptySeq DEF BM!Init, BM!TypeOK
<1>2. BM!CountsMatch
  BY CountOfNone, NoStepIsNone DEF BM!Init, BM!CountsMatch, BM!NoStep
<1>3. ThreadRuns /\ EventHasStep
  BY DEF BM!Init, ThreadRuns, EventHasStep
<1>4. QED
  BY <1>1, <1>2, <1>3 DEF ManagerInv, CountersInv

\* What is left when the queue is worked off, or cleared.
LEMMA AfterStopped ==
  ASSUME NEW success \in BOOLEAN, BM!Stopped(success),
         \A p \in Project : active'[p] = 0,
         active' \in [Project -> Nat], progress' \in Nat, canceling' \in BOOLEAN,
         thread' = BM!NoStep, posted' \in {"none", "success", "failure"}
  PROVE  CountersInv'
<1>1. BM!TypeOK'
  BY EmptySeq DEF BM!Stopped, BM!TypeOK
<1>2. \A p \in Project : BM!NoStep.project # p
  BY NoStepIsNone
<1>3. BM!CountsMatch'
  <2>1. queue' = <<>> /\ current' = BM!NoStep /\ ~running' /\ maxProgress' = 0
    BY DEF BM!Stopped
  <2>2. \A p \in Project : BM!CountOf(queue)'[p] = 0
    BY <2>1, CountOfNone DEF BM!CountOf
  <2>3. QED
    BY <1>2, <2>1, <2>2 DEF BM!CountsMatch
<1>4. ThreadRuns'
  BY DEF ThreadRuns
<1>5. QED
  BY <1>1, <1>3, <1>4 DEF CountersInv

\* Whether nextStep finds an enabled step, which goes on the thread, or none.
Found(steps, done, max) ==
  /\ running' = TRUE /\ finished' = "none" /\ posted' = "none"
  /\ maxProgress' = max /\ progress' \in Nat /\ done <= progress'
  /\ thread' = current' /\ current' \in Range(steps) /\ Range(queue') \subseteq Range(steps)

NoneFound(steps, done, event) ==
  /\ \A i \in 1..Len(steps) : ~steps[i].enabled
  /\ BM!Stopped(TRUE)
  /\ thread' = BM!NoStep /\ posted' = event
  /\ progress' = done + Len(steps)

LEMMA NextStepOutcome ==
  ASSUME NEW steps \in Seq(BM!BuildStep), NEW done \in Nat, NEW counts, NEW max, NEW event,
         BM!NextStep(steps, done, counts, max, event)
  PROVE  Found(steps, done, max) \/ NoneFound(steps, done, event)
<1>1. PICK skipped \in 0..Len(steps) :
        /\ BM!Disabled(steps, skipped)
        /\ IF skipped = Len(steps)
             THEN BM!Stopped(TRUE) /\ thread' = BM!NoStep /\ posted' = event
             ELSE /\ queue' = SubSeq(steps, skipped + 2, Len(steps))
                  /\ current' = steps[skipped + 1]
                  /\ running' = TRUE
                  /\ maxProgress' = max
                  /\ thread' = steps[skipped + 1]
                  /\ posted' = "none"
                  /\ finished' = "none"
        /\ progress' = done + skipped
  BY DEF BM!NextStep
<1>2. DOMAIN steps = 1..Len(steps)
  BY LenProperties
<1>3. Len(steps) \in Nat
  BY LenProperties
<1>4. skipped \in Nat /\ skipped <= Len(steps)
  BY <1>3
<1>5. CASE skipped = Len(steps)
  BY <1>1, <1>5 DEF NoneFound, BM!Disabled
<1>6. CASE skipped # Len(steps)
  <2> DEFINE n == Len(steps)
             rest == SubSeq(steps, skipped + 2, n)
  <2>1. progress' = done + skipped
    BY <1>1
  <2>2. n \in Nat /\ skipped \in Nat /\ skipped <= n /\ skipped # n
    BY <1>6, <1>3, <1>4
  <2> HIDE DEF n
  <2>3. skipped + 1 \in 1..n /\ skipped + 2 \in Int /\ n \in Int
    BY <2>2
  <2>4. progress' \in Nat /\ done <= progress'
    BY <2>1, <2>2
  <2>5. \A i \in skipped + 2..n : i \in 1..n
    BY <2>2
  <2>6. \A i \in skipped + 2..n : steps[i] \in BM!BuildStep
    BY <2>5, ElementOfSeq DEF n
  <2> DEFINE m == skipped + 2
  <2> HIDE DEF m
  <2>7. /\ rest \in Seq(BM!BuildStep)
        /\ \A i \in 1..n - m + 1 : rest[i] = steps[m + i - 1]
        /\ Len(rest) = IF m <= n THEN n - m + 1 ELSE 0
    <3>1. m \in Int /\ n \in Int
      BY <2>3 DEF m
    <3>2. \A i \in m..n : steps[i] \in BM!BuildStep
      BY <2>6 DEF m
    <3>3. rest = SubSeq(steps, m, n)
      BY DEF m
    <3> HIDE DEF rest
    <3>4. QED
      BY <3>1, <3>2, <3>3, SubSeqProperties
  <2>8. DOMAIN rest = 1..Len(rest)
    BY <2>7, LenProperties
  <2> HIDE DEF rest
  <2>9. ASSUME NEW i \in DOMAIN rest
        PROVE  rest[i] \in Range(steps)
    <3>1. i \in 1..n - m + 1 /\ m + i - 1 \in 1..n
      BY <2>2, <2>7, <2>8 DEF m
    <3>2. QED
      BY <1>2, <2>7, <3>1 DEF Range, n
  <2>10. Range(rest) \subseteq Range(steps)
    BY <2>9 DEF Range
  <2>11. steps[skipped + 1] \in Range(steps)
    BY <1>2, <2>3 DEF Range, n
  <2>12. QED
    BY <1>1, <1>6, <2>10, <2>11, <2>4 DEF Found, rest, n
<1>7. QED
  BY <1>5, <1>6

\* nextStep, called with counters that agree with the steps left, leaves them agreeing.
LEMMA AfterNextStep ==
  ASSUME NEW steps \in Seq(BM!BuildStep), NEW done \in Nat, NEW counts \in [Project -> Nat],
         \A p \in Project : counts[p] = BM!CountOf(steps)[p],
         NEW max, steps # <<>> => max = done + Len(steps),
         NEW event \in {"none", "success", "failure"},
         ~canceling', canceling' \in BOOLEAN,
         BM!NextStep(steps, done, counts, max, event)
  PROVE  CountersInv'
<1>1. PICK skipped \in 0..Len(steps) :
        /\ BM!Disabled(steps, skipped)
        /\ IF skipped = Len(steps)
             THEN BM!Stopped(TRUE) /\ thread' = BM!NoStep /\ posted' = event
             ELSE /\ queue' = SubSeq(steps, skipped + 2, Len(steps))
                  /\ current' = steps[skipped + 1]
                  /\ running' = TRUE
                  /\ maxProgress' = max
                  /\ thread' = steps[skipped + 1]
                  /\ posted' = "none"
                  /\ finished' = "none"
        /\ progress' = done + skipped
        /\ active' = [p \in Project |-> counts[p] - BM!CountOf(SubSeq(steps, 1, skipped))[p]]
  BY DEF BM!NextStep
<1> DEFINE skippedSteps == SubSeq(steps, 1, skipped)
           rest == SubSeq(steps, skipped + 2, Len(steps))
<1>2. Len(steps) \in Nat /\ DOMAIN steps = 1..Len(steps)
  BY LenProperties
<1>0. skipped \in Nat /\ Len(steps) \in Nat /\ skipped <= Len(steps)
  BY <1>2
<1>3. progress' = done + skipped /\ progress' \in Nat
  BY <1>1, <1>0
<1>4. CASE skipped = Len(steps)
  <2>1. \A p \in Project : active'[p] = 0
    <3>1. ASSUME NEW p \in Project PROVE active'[p] = 0
      <4>1. BM!CountOf(steps)[p] = BM!CountOf(skippedSteps)[p]
        BY <1>4, CountInThree
      <4>2. active'[p] = counts[p] - BM!CountOf(skippedSteps)[p]
        BY <1>1
      <4>3. counts[p] = BM!CountOf(steps)[p] /\ counts[p] \in Nat
        OBVIOUS
      <4>4. QED
        BY <4>1, <4>2, <4>3
    <3>2. QED
      BY <3>1
  <2>2. active' \in [Project -> Nat]
    BY <1>1, <2>1
  <2>3. BM!Stopped(TRUE) /\ thread' = BM!NoStep /\ posted' = event
    BY <1>1, <1>4
  <2>4. QED
    BY <1>3, <2>1, <2>2, <2>3, AfterStopped
<1>5. CASE skipped # Len(steps)
  <2>1. skipped < Len(steps)
    BY <1>0, <1>5
  <2>2. /\ queue' = rest /\ current' = steps[skipped + 1] /\ running' = TRUE
        /\ maxProgress' = max /\ thread' = steps[skipped + 1]
        /\ posted' = "none" /\ finished' = "none"
    BY <1>1, <1>5
  <2>3. ASSUME NEW p \in Project
        PROVE  /\ active'[p] = BM!CountOf(rest)[p] + IF steps[skipped + 1].project = p THEN 1 ELSE 0
               /\ active'[p] \in Nat
    <3>1. /\ BM!CountOf(steps)[p] = BM!CountOf(skippedSteps)[p]
                                 + (IF steps[skipped + 1].project = p THEN 1 ELSE 0)
                                 + BM!CountOf(rest)[p]
          /\ skippedSteps \in Seq(BM!BuildStep) /\ rest \in Seq(BM!BuildStep)
      BY <2>1, CountInThree
    <3>2. BM!CountOf(skippedSteps)[p] \in Nat /\ BM!CountOf(rest)[p] \in Nat
      BY <3>1, CountIsNatural
    <3>3. active'[p] = counts[p] - BM!CountOf(skippedSteps)[p] /\ counts[p] = BM!CountOf(steps)[p]
      BY <1>1
    <3>4. QED
      BY <3>1, <3>2, <3>3
  <2>4. /\ rest \in Seq(BM!BuildStep) /\ steps[skipped + 1] \in BM!BuildStep
        /\ Len(rest) = Len(steps) - skipped - 1
    <3>1. CASE Project = {}
      <4>1. BM!BuildStep = {}
        BY <3>1 DEF BM!BuildStep
      <4>2. steps[skipped + 1] \in BM!BuildStep
        BY <1>2, <2>1, ElementOfSeq
      <4>3. QED
        BY <4>1, <4>2
    <3>2. CASE \E p \in Project : TRUE
      BY <2>1, <3>2, CountInThree
    <3>3. QED
      BY <3>1, <3>2
  <2>5. max = done + Len(steps) /\ max \in Nat
    <3>1. steps # <<>>
      BY <1>0, <2>1, EmptySeq
    <3>2. QED
      BY <1>0, <3>1
  <2>6. BM!TypeOK'
    <3>1. active' \in [Project -> Nat]
      BY <1>1, <2>3
    <3>2. QED
      BY <1>3, <2>2, <2>4, <2>5, <3>1 DEF BM!TypeOK
  <2>7. BM!CountsMatch'
    <3>1. \A p \in Project : BM!CountOf(queue)'[p] = BM!CountOf(rest)[p]
      BY <2>2 DEF BM!CountOf
    <3>2. progress' + 1 + Len(queue') = maxProgress'
      <4>1. Len(queue') = Len(steps) - skipped - 1
        BY <2>2, <2>4
      <4>2. maxProgress' = done + Len(steps)
        BY <2>2, <2>5
      <4>3. QED
        BY <1>0, <1>3, <4>1, <4>2
    <3>3. current' # BM!NoStep
      BY <2>2, <2>4, NoStepIsNone
    <3>4. QED
      BY <2>2, <2>3, <3>1, <3>2, <3>3 DEF BM!CountsMatch
  <2>8. ThreadRuns'
    BY <2>2 DEF ThreadRuns
  <2>9. QED
    BY <2>6, <2>7, <2>8 DEF CountersInv
<1>6. QED
  BY <1>4, <1>5

\* Without the current step, if there is one, the counters are those of the queue.
LEMMA CountersWithoutCurrent ==
  ASSUME CountersInv
  PROVE  /\ BM!WithoutCurrent \in [Project -> Nat]
         /\ \A p \in Project : BM!WithoutCurrent[p] = BM!CountOf(queue)[p]
<1>1. queue \in Seq(BM!BuildStep) /\ active \in [Project -> Nat]
  BY DEF CountersInv, BM!TypeOK
<1>2. \A p \in Project : BM!CountOf(queue)[p] \in Nat
  BY <1>1, CountIsNatural
<1>3. \A p \in Project : active[p] = BM!CountOf(queue)[p] + IF current.project = p THEN 1 ELSE 0
  BY DEF CountersInv, BM!CountsMatch
<1>4. \A p \in Project : BM!WithoutCurrent[p] = BM!CountOf(queue)[p]
  BY <1>1, <1>2, <1>3 DEF BM!WithoutCurrent
<1>5. BM!WithoutCurrent \in [Project -> Nat]
  BY <1>1, <1>2, <1>4 DEF BM!WithoutCurrent
<1>6. QED
  BY <1>4, <1>5

\* The current step over and the queue cleared, no counter is left.
LEMMA AfterClearBuildQueue ==
  ASSUME CountersInv, BM!ClearBuildQueue,
         progress' \in Nat, canceling' \in BOOLEAN,
         thread' = BM!NoStep, posted' \in {"none", "success", "failure"}
  PROVE  CountersInv'
<1>1. \A p \in Project : BM!WithoutCurrent[p] = BM!CountOf(queue)[p]
  BY CountersWithoutCurrent
<1>2. \A p \in Project : active'[p] = 0
  BY <1>1, CountIsNatural DEF BM!ClearBuildQueue, CountersInv, BM!TypeOK
<1>3. active' \in [Project -> Nat]
  BY <1>2 DEF BM!ClearBuildQueue
<1>4. QED
  BY <1>2, <1>3, AfterStopped DEF BM!ClearBuildQueue

-----------------------------------------------------------------------------
LEMMA BuildListsKeeps ==
  ASSUME CountersInv, NEW steps \in Seq(BM!BuildStep), BM!BuildLists(steps)
  PROVE  CountersInv'
<1> DEFINE counts == [p \in Project |-> active[p] + BM!CountOf(steps)[p]]
<1>1. BM!TypeOK /\ BM!CountsMatch /\ ThreadRuns
  BY DEF CountersInv
<1>2. Len(steps) \in Nat
  BY LenProperties
<1>3. counts \in [Project -> Nat]
  BY <1>1, CountIsNatural DEF BM!TypeOK
<1>4. CASE running
  <2>1. /\ queue' = queue \o steps
        /\ active' = counts
        /\ maxProgress' = maxProgress + Len(steps)
        /\ finished' = "none"
        /\ UNCHANGED <<current, running, canceling, progress, thread, posted>>
    BY <1>4 DEF BM!BuildLists
  <2>2. queue' \in Seq(BM!BuildStep) /\ Len(queue') = Len(queue) + Len(steps) /\ Len(queue) \in Nat
    BY <1>1, <2>1, ConcatProperties, LenProperties DEF BM!TypeOK
  <2>3. maxProgress' \in Nat
    BY <1>1, <1>2, <2>1 DEF BM!TypeOK
  <2>4. BM!TypeOK'
    BY <1>1, <1>3, <2>1, <2>2, <2>3 DEF BM!TypeOK
  <2>5. \A p \in Project : BM!CountOf(queue)'[p] = BM!CountOf(queue \o steps)[p]
    BY <2>1 DEF BM!CountOf
  <2>6. ASSUME NEW p \in Project
        PROVE  active'[p] = BM!CountOf(queue)'[p] + IF current'.project = p THEN 1 ELSE 0
    <3>1. BM!CountOf(queue)'[p] = BM!CountOf(queue)[p] + BM!CountOf(steps)[p]
      BY <1>1, <2>5, CountOfConcatenation DEF BM!TypeOK
    <3>2. BM!CountOf(queue)[p] \in Nat /\ BM!CountOf(steps)[p] \in Nat
      BY <1>1, CountIsNatural DEF BM!TypeOK
    <3>3. active'[p] = active[p] + BM!CountOf(steps)[p] /\ current' = current
      BY <2>1
    <3>4. active[p] = BM!CountOf(queue)[p] + IF current.project = p THEN 1 ELSE 0
      BY <1>1 DEF BM!CountsMatch
    <3>5. QED
      BY <3>1, <3>2, <3>3, <3>4
  <2>7. current' # BM!NoStep /\ progress' + 1 + Len(queue') = maxProgress'
    <3>1. progress + 1 + Len(queue) = maxProgress /\ current # BM!NoStep
      BY <1>1, <1>4 DEF BM!CountsMatch
    <3>2. progress \in Nat /\ progress' = progress /\ current' = current
      BY <1>1, <2>1 DEF BM!TypeOK
    <3>3. maxProgress' = maxProgress + Len(steps)
      BY <2>1
    <3>4. QED
      BY <1>2, <2>2, <3>1, <3>2, <3>3
  <2>8. BM!CountsMatch'
    BY <1>4, <2>1, <2>6, <2>7 DEF BM!CountsMatch
  <2>9. ThreadRuns'
    BY <1>1, <2>1 DEF ThreadRuns
  <2>10. QED
    BY <2>4, <2>8, <2>9 DEF CountersInv
<1>5. CASE ~running
  <2>1. queue = <<>> /\ current = BM!NoStep /\ maxProgress = 0
    BY <1>1, <1>5 DEF BM!CountsMatch
  <2>2. \A p \in Project : active[p] = 0
    BY <1>1, <2>1, CountOfNone, NoStepIsNone DEF BM!CountsMatch
  <2>3. \A p \in Project : counts[p] = BM!CountOf(steps)[p]
    BY <2>2, CountIsNatural
  <2>4. queue \o steps = steps
    BY <2>1, ConcatEmptySeq
  <2>5. maxProgress + Len(steps) = 0 + Len(steps)
    BY <2>1
  <2>6. /\ BM!NextStep(steps, 0, counts, 0 + Len(steps), posted)
        /\ ~canceling' /\ canceling' \in BOOLEAN
        /\ posted \in {"none", "success", "failure"}
    BY <1>1, <1>5, <2>4, <2>5 DEF BM!BuildLists, BM!TypeOK
  <2> HIDE DEF counts
  <2>7. QED
    BY <1>3, <2>3, <2>6, AfterNextStep
<1>6. QED
  BY <1>4, <1>5

LEMMA NextBuildQueueKeeps ==
  ASSUME CountersInv, BM!NextBuildQueue
  PROVE  CountersInv'
<1>1. BM!TypeOK /\ BM!CountsMatch /\ ThreadRuns
  BY DEF CountersInv
<1>2. posted # "none" /\ ~canceling /\ canceling' = canceling /\ canceling' \in BOOLEAN
  BY <1>1 DEF BM!NextBuildQueue, BM!TypeOK
<1>3. thread = BM!NoStep
  BY <1>1, <1>2 DEF ThreadRuns
<1>4. queue \in Seq(BM!BuildStep) /\ progress \in Nat /\ Len(queue) \in Nat /\ progress + 1 \in Nat
  BY <1>1, LenProperties DEF BM!TypeOK
<1>5. CASE posted = "success"
  <2>1. queue # <<>> => maxProgress = (progress + 1) + Len(queue)
    BY <1>1 DEF BM!CountsMatch
  <2>2. BM!NextStep(queue, progress + 1, BM!WithoutCurrent, maxProgress, "none")
    BY <1>5 DEF BM!NextBuildQueue
  <2>3. QED
    BY <1>2, <1>4, <2>1, <2>2, CountersWithoutCurrent, AfterNextStep
<1>6. CASE posted # "success"
  <2>1. /\ BM!ClearBuildQueue /\ progress' = progress + 1 /\ posted' = "none"
        /\ thread' = thread
    BY <1>6 DEF BM!NextBuildQueue
  <2>2. QED
    BY <1>2, <1>3, <1>4, <2>1, AfterClearBuildQueue
<1>7. QED
  BY <1>5, <1>6

LEMMA CancelKeeps ==
  ASSUME CountersInv, BM!Cancel
  PROVE  CountersInv'
<1>1. BM!TypeOK /\ BM!CountsMatch /\ ThreadRuns
  BY DEF CountersInv
<1>2. CASE running
  <2>1. /\ canceling' = TRUE /\ thread' = BM!NoStep /\ BM!ClearBuildQueue /\ progress' = progress
        /\ posted' = IF thread = BM!NoStep THEN posted ELSE "failure"
    BY <1>2 DEF BM!Cancel
  <2>2. progress' \in Nat /\ posted' \in {"none", "success", "failure"}
    BY <1>1, <2>1 DEF BM!TypeOK
  <2>3. QED
    BY <2>1, <2>2, AfterClearBuildQueue
<1>3. CASE ~running
  BY <1>1, <1>3 DEF BM!Cancel, BM!GoesOn, BM!TypeOK, BM!CountsMatch, ThreadRuns, CountersInv, BM!CountOf
<1>4. QED
  BY <1>2, <1>3

\* The steps of a thread and of its watcher that leave the queue alone.
LEMMA OthersKeep ==
  ASSUME CountersInv, BM!StepEnds \/ BM!IgnoreEvent \/ BM!GoesOn \/ UNCHANGED BM!buildVars
  PROVE  CountersInv'
<1>1. BM!TypeOK /\ BM!CountsMatch /\ ThreadRuns
  BY DEF CountersInv
<1>2. UNCHANGED <<queue, current, running, canceling, active, progress, maxProgress>>
  BY DEF BM!StepEnds, BM!IgnoreEvent, BM!GoesOn, BM!buildVars
<1>3. BM!TypeOK'
  BY <1>1, <1>2 DEF BM!StepEnds, BM!IgnoreEvent, BM!GoesOn, BM!buildVars, BM!TypeOK
<1>4. BM!CountsMatch'
  BY <1>1, <1>2 DEF BM!CountsMatch, BM!CountOf
<1>5. ThreadRuns'
  BY <1>1, <1>2 DEF BM!StepEnds, BM!IgnoreEvent, BM!GoesOn, BM!buildVars, ThreadRuns
<1>6. QED
  BY <1>3, <1>4, <1>5 DEF CountersInv

LEMMA CountersNext ==
  ASSUME CountersInv, [AnyNext]_(BM!buildVars)
  PROVE  CountersInv'
  BY BuildListsKeeps, NextBuildQueueKeeps, CancelKeeps, OthersKeep DEF AnyNext, AnyRequest

-----------------------------------------------------------------------------
\* An event that is not ignored goes on being about the current step, if what is requested
\* can be begun: a request that is over at once would take the mark off a cancelled step
\* whose event is still to come.
LEMMA EventNext ==
  ASSUME ManagerInv, [BM!Next]_(BM!buildVars)
  PROVE  EventHasStep'
<1>1. BM!TypeOK /\ BM!CountsMatch /\ ThreadRuns /\ EventHasStep
  BY DEF ManagerInv, CountersInv
<1>2. queue \in Seq(BM!BuildStep) /\ progress + 1 \in Nat
  BY <1>1 DEF BM!TypeOK
<1>3. ASSUME NEW steps \in BM!Request, BM!BuildLists(steps)
      PROVE  EventHasStep'
  <2>1. CASE running
    BY <1>1, <1>3, <2>1 DEF BM!BuildLists, EventHasStep
  <2>2. CASE ~running
    <3>1. steps \in Seq(BM!BuildStep) /\ \E i \in 1..Len(steps) : steps[i].enabled
      BY LenProperties DEF BM!Request
    <3>2. queue \o steps = steps
      BY <1>1, <2>2, <3>1, ConcatEmptySeq DEF BM!CountsMatch
    <3>3. PICK counts, max : BM!NextStep(steps, 0, counts, max, posted)
      BY <1>3, <2>2, <3>2 DEF BM!BuildLists
    <3>4. Found(steps, 0, max)
      BY <3>1, <3>3, NextStepOutcome DEF NoneFound
    <3>5. QED
      BY <3>4 DEF Found, EventHasStep
  <2>3. QED
    BY <2>1, <2>2
<1>4. CASE BM!NextBuildQueue
  <2>1. CASE posted = "success"
    <3>1. BM!NextStep(queue, progress + 1, BM!WithoutCurrent, maxProgress, "none")
      BY <1>4, <2>1 DEF BM!NextBuildQueue
    <3>2. posted' = "none"
      BY <1>2, <3>1, NextStepOutcome DEF Found, NoneFound
    <3>3. QED
      BY <3>2 DEF EventHasStep
  <2>2. CASE posted # "success"
    BY <1>4, <2>2 DEF BM!NextBuildQueue, EventHasStep
  <2>3. QED
    BY <2>1, <2>2
<1>5. CASE BM!StepEnds
  BY <1>1, <1>5 DEF BM!StepEnds, EventHasStep, ThreadRuns
<1>6. CASE BM!IgnoreEvent \/ BM!GoesOn \/ BM!Cancel \/ UNCHANGED BM!buildVars
  BY <1>1, <1>6 DEF BM!IgnoreEvent, BM!GoesOn, BM!Cancel, BM!buildVars, EventHasStep
<1>7. QED
  BY <1>3, <1>4, <1>5, <1>6 DEF BM!Next

LEMMA ManagerNext == ManagerInv /\ [BM!Next]_(BM!buildVars) => ManagerInv'
<1> SUFFICES ASSUME ManagerInv, [BM!Next]_(BM!buildVars) PROVE ManagerInv'
  OBVIOUS
<1>1. [AnyNext]_(BM!buildVars)
  BY DEF BM!Next, AnyNext, AnyRequest, BM!Request
<1>2. QED
  BY <1>1, CountersNext, EventNext DEF ManagerInv

LEMMA ManagerAlways == BM!Spec => []ManagerInv
<1>1. BM!Init => ManagerInv
  BY ManagerInit
<1>2. ManagerInv /\ [BM!Next]_(BM!buildVars) => ManagerInv'
  BY ManagerNext
<1>3. QED
  BY <1>1, <1>2, PTL DEF BM!Spec

\* The counters that decide whether a project is being built, and the progress, agree with
\* the queue whenever and in whatever order steps are added, end, fail and are cancelled.
THEOREM CountersAgree == BM!Spec => []BM!CountsMatch
<1>1. ManagerInv => BM!CountsMatch
  BY DEF ManagerInv, CountersInv
<1>2. QED
  BY <1>1, ManagerAlways, PTL

\* The event of a step, posted by its thread and handled later, never finds another step
\* to be current, nor none.
THEOREM EventsAreOfCurrent == BM!Spec => []BM!ThreadIsCurrent
<1>1. ManagerInv => BM!ThreadIsCurrent
  BY DEF ManagerInv, CountersInv, ThreadRuns, EventHasStep, BM!ThreadIsCurrent
<1>2. QED
  BY <1>1, ManagerAlways, PTL

-----------------------------------------------------------------------------
\* What a step of the manager makes of the progress: it falls back only when the queue is
\* cleared, and the queue is only said to be done when all its steps are.
Worked ==
  /\ finished' = "none" /\ running =>
       running' /\ maxProgress <= maxProgress' /\ progress <= progress'
  /\ finished' = "success" => ~running' /\ (running => progress' = maxProgress)

\* What is queued or run was so before, or is from the list.
StepsFrom(steps) ==
  Range(queue') \union {current', thread'}
    \subseteq Range(queue) \union Range(steps) \union {current, thread, BM!NoStep}

LEMMA NextStepWorks ==
  ASSUME NEW steps \in Seq(BM!BuildStep), NEW done \in Nat, NEW counts, NEW max, NEW event,
         BM!NextStep(steps, done, counts, max, event)
  PROVE  Range(queue') \union {current', thread'} \subseteq Range(steps) \union {BM!NoStep}
<1>1. CASE Found(steps, done, max)
  BY <1>1 DEF Found
<1>2. CASE NoneFound(steps, done, event)
  BY <1>2 DEF NoneFound, BM!Stopped, Range
<1>3. QED
  BY <1>1, <1>2, NextStepOutcome

LEMMA BuildListsWorks ==
  ASSUME CountersInv, NEW steps \in Seq(BM!BuildStep), BM!BuildLists(steps)
  PROVE  Worked /\ StepsFrom(steps)
<1>1. BM!TypeOK /\ BM!CountsMatch
  BY DEF CountersInv
<1>2. Len(steps) \in Nat /\ maxProgress \in Nat /\ progress \in Nat /\ queue \in Seq(BM!BuildStep)
  BY <1>1, LenProperties DEF BM!TypeOK
<1>3. queue \o steps \in Seq(BM!BuildStep) /\ Range(queue \o steps) = Range(queue) \union Range(steps)
  BY <1>2, ConcatProperties, RangeConcatenation
<1>4. CASE running
  <2>1. Worked
    BY <1>2, <1>4 DEF BM!BuildLists, Worked
  <2>2. StepsFrom(steps)
    BY <1>3, <1>4 DEF BM!BuildLists, StepsFrom
  <2>3. QED
    BY <2>1, <2>2
<1>5. CASE ~running
  <2>1. PICK counts, max : BM!NextStep(queue \o steps, 0, counts, max, posted)
    BY <1>5 DEF BM!BuildLists
  <2>2. StepsFrom(steps)
    BY <1>3, <2>1, NextStepWorks DEF StepsFrom
  <2>3. Worked
    BY <1>3, <1>5, <2>1, NextStepOutcome DEF Worked, Found, NoneFound, BM!Stopped
  <2>4. QED
    BY <2>2, <2>3
<1>6. QED
  BY <1>4, <1>5

LEMMA ClearWorks ==
  ASSUME BM!ClearBuildQueue, thread' \in {thread, BM!NoStep}
  PROVE  Worked /\ StepsFrom(<<>>)
  BY DEF BM!ClearBuildQueue, BM!Stopped, Worked, StepsFrom, Range

LEMMA OthersWork ==
  ASSUME CountersInv, BM!StepEnds \/ BM!IgnoreEvent \/ BM!NextBuildQueue \/ BM!Cancel \/ BM!GoesOn
  PROVE  Worked /\ StepsFrom(<<>>)
<1>1. BM!TypeOK /\ BM!CountsMatch
  BY DEF CountersInv
<1>2. maxProgress \in Nat /\ progress \in Nat /\ queue \in Seq(BM!BuildStep) /\ progress + 1 \in Nat
  BY <1>1 DEF BM!TypeOK
<1>3. CASE BM!StepEnds \/ BM!IgnoreEvent \/ BM!GoesOn
  <2>1. /\ UNCHANGED <<queue, current, running, canceling, active, progress, maxProgress>>
        /\ thread' \in {thread, BM!NoStep} /\ finished' = "none"
    BY <1>3 DEF BM!StepEnds, BM!IgnoreEvent, BM!GoesOn
  <2>2. QED
    BY <1>2, <2>1 DEF Worked, StepsFrom
<1>4. CASE BM!Cancel /\ running
  BY <1>4, ClearWorks DEF BM!Cancel
<1>5. CASE BM!NextBuildQueue /\ posted # "success"
  BY <1>5, ClearWorks DEF BM!NextBuildQueue
<1>6. CASE BM!NextBuildQueue /\ posted = "success"
  <2>1. BM!NextStep(queue, progress + 1, BM!WithoutCurrent, maxProgress, "none")
    BY <1>6 DEF BM!NextBuildQueue
  <2>2. StepsFrom(<<>>)
    BY <1>2, <2>1, NextStepWorks DEF StepsFrom
  <2>3. CASE Found(queue, progress + 1, maxProgress)
    <3>1. /\ running' = TRUE /\ finished' = "none" /\ maxProgress' = maxProgress
          /\ progress' \in Nat /\ progress + 1 <= progress'
      BY <2>3 DEF Found
    <3>2. progress <= progress' /\ maxProgress <= maxProgress'
      BY <1>2, <3>1
    <3>3. QED
      BY <2>2, <3>1, <3>2 DEF Worked
  <2>4. CASE NoneFound(queue, progress + 1, "none")
    <3>1. finished' = "success" /\ ~running' /\ progress' = progress + 1 + Len(queue)
      BY <2>4 DEF NoneFound, BM!Stopped
    <3>2. running => progress + 1 + Len(queue) = maxProgress
      BY <1>1 DEF BM!CountsMatch
    <3>3. QED
      BY <2>2, <3>1, <3>2 DEF Worked
  <2>5. QED
    BY <1>2, <2>1, <2>2, <2>3, <2>4, NextStepOutcome
<1>7. QED
  BY <1>3, <1>4, <1>5, <1>6 DEF BM!Cancel

\* Of a project that is not being built no step is queued or run.
LEMMA NotBuilding ==
  ASSUME CountersInv, NEW p \in Project, ~BM!IsBuilding(p)
  PROVE  \A s \in Range(queue) \union {current, thread} : s.project # p
<1>1. queue \in Seq(BM!BuildStep) /\ active[p] \in Nat /\ thread \in {current, BM!NoStep}
  BY DEF CountersInv, BM!TypeOK, ThreadRuns
<1>2. BM!CountOf(queue)[p] = Cardinality(Places(queue, p)) /\ BM!CountOf(queue)[p] \in Nat
  BY <1>1, CountIsNatural
<1>3. active[p] = BM!CountOf(queue)[p] + IF current.project = p THEN 1 ELSE 0
  BY DEF CountersInv, BM!CountsMatch
<1>4. active[p] = 0
  BY <1>1 DEF BM!IsBuilding
<1>5. BM!CountOf(queue)[p] = 0 /\ current.project # p
  BY <1>2, <1>3, <1>4
<1>6. Places(queue, p) = {}
  BY <1>1, <1>2, <1>5, PlacesAreFinite, FS_EmptySet
<1>7. \A s \in Range(queue) : s.project # p
  BY <1>6 DEF Places, Range
<1>8. QED
  BY <1>1, <1>5, <1>7, NoStepIsNone

\* Nothing is queued or run after cancel().
LEMMA CancelClears ==
  ASSUME CountersInv, BM!Cancel
  PROVE  queue' = <<>> /\ current' = BM!NoStep /\ thread' = BM!NoStep
  BY DEF CountersInv, BM!CountsMatch, ThreadRuns, BM!Cancel, BM!GoesOn, BM!ClearBuildQueue, BM!Stopped

-----------------------------------------------------------------------------
\* The orders steps are queued in are of open projects.
LEMMA OpenOrders ==
  ASSUME AcyclicInv, SessionInv, DependInv
  PROVE  /\ OpenProjects \in SUBSET Project
         /\ DependenciesOrder \in Seq(OpenProjects)
         /\ \A p \in Project : ProjectOrder(p) \in Seq(OpenProjects)
<1>1. /\ depMap \in DepMap /\ Acyclic /\ \A p \in Project : depMap[p] \subseteq OpenProjects
      /\ projects \in Seq(Project) /\ IsInjective(projects)
  BY DEF AcyclicInv, Acyclic, SessionInv, TypeOK, NoneTwice, DependInv
<1>2. OpenProjects \in SUBSET Project
  BY <1>1, ToSetOf DEF OpenProjects
<1>3. ASSUME NEW list \in Seq(Project), ToSet(list) \subseteq OpenProjects
      PROVE  list \in Seq(OpenProjects)
  <2>1. \A i \in 1..Len(list) : list[i] \in OpenProjects
    BY <1>3, ToSetOf
  <2>2. Len(list) \in Nat /\ list \in [1..Len(list) -> Project]
    BY LenProperties
  <2>3. list \in [1..Len(list) -> OpenProjects]
    BY <2>1, <2>2
  <2>4. QED
    BY <2>2, <2>3, SeqDef
<1>4. DependenciesOrder \in Seq(OpenProjects)
  <2>1. DependenciesOrder \in Seq(Project)
    BY <1>1, OrderInRounds, LenProperties
  <2>2. QED
    BY <1>1, <1>3, <2>1, DependenciesOrderRight
<1>5. ASSUME NEW p \in Project
      PROVE  ProjectOrder(p) \in Seq(OpenProjects)
  <2>1. PICK visit \in [Nat -> Lists] :
          \A q \in Project : Dependencies(q) = visit[Cardinality(Project)][q]
    BY <1>1, DependenciesVisit
  <2>2. Cardinality(Project) \in Nat
    BY ProjectAssumption, FS_CardinalityType
  <2>3. visit[Cardinality(Project)] \in Lists
    BY <2>2
  <2>4. Dependencies(p) \in Seq(Project)
    BY <2>1, <2>3 DEF Lists
  <2>5. /\ ProjectOrder(p) \in Seq(Project)
        /\ \A q : q \in ToSet(ProjectOrder(p)) => q \in ToSet(Dependencies(p)) /\ q \notin Project \ OpenProjects
    BY <2>4, WithoutFacts DEF ProjectOrder
  <2>6. ToSet(Dependencies(p)) \subseteq Project
    BY <2>4, ToSetOf
  <2>7. QED
    BY <1>3, <2>5, <2>6
<1>6. QED
  BY <1>2, <1>4, <1>5

\* No list of steps is made of disabled ones only.
RequestsCanBegin ==
  \A p \in Project : \A id \in Id : StepCount[p][id] = 0 \/ StepCount[p][id] > MaxDisabled

\* StepLists taken apart: the steps of a project, and those of one list for all of them.
ProjectSteps(p, id, disabled) ==
  [k \in 1..StepCount[p][id] |-> [project |-> p, enabled |-> k + disabled <= StepCount[p][id]]]

ListSteps(order, id, disabled) ==
  FlattenSeq([j \in DOMAIN order |-> ProjectSteps(order[j], id, disabled)])

\* The steps of some projects.
StepOf(S) == [project : S, enabled : BOOLEAN]

HasEnabled(steps) == \E s \in ToSet(steps) : s.enabled

LEMMA FunctionIsList ==
  ASSUME NEW n \in Nat, NEW S, NEW f \in [1..n -> S]
  PROVE  f \in Seq(S) /\ Len(f) = n
<1>1. f \in Seq(S)
  BY SeqDef
<1>2. QED
  BY <1>1, LenProperties

LEMMA StepsOfProjects ==
  ASSUME NEW S \in SUBSET Project, NEW steps \in Seq(StepOf(S))
  PROVE  steps \in Seq(BM!BuildStep)
<1>1. StepOf(S) \subseteq BM!BuildStep
  BY DEF StepOf, BM!BuildStep
<1>2. steps \in [1..Len(steps) -> StepOf(S)] /\ Len(steps) \in Nat
  BY LenProperties
<1>3. steps \in [1..Len(steps) -> BM!BuildStep]
  BY <1>1, <1>2
<1>4. QED
  BY <1>2, <1>3, SeqDef

LEMMA ProjectStepsFacts ==
  ASSUME NEW S \in SUBSET Project, NEW p \in S, NEW id \in Id, NEW disabled \in 0..MaxDisabled
  PROVE  /\ ProjectSteps(p, id, disabled) \in Seq(StepOf(S))
         /\ RequestsCanBegin /\ ToSet(ProjectSteps(p, id, disabled)) # {} =>
              HasEnabled(ProjectSteps(p, id, disabled))
<1> DEFINE n == StepCount[p][id]
           steps == ProjectSteps(p, id, disabled)
<1>1. n \in Nat /\ MaxDisabled \in Nat /\ disabled \in Nat /\ disabled <= MaxDisabled
  BY BuildAssumption
<1>2. steps \in [1..n -> StepOf(S)]
  BY DEF ProjectSteps, StepOf
<1>3. steps \in Seq(StepOf(S)) /\ Len(steps) = n
  BY <1>1, <1>2, FunctionIsList
<1>4. ASSUME RequestsCanBegin, ToSet(steps) # {}
      PROVE  HasEnabled(steps)
  <2>1. n # 0
    BY <1>1, <1>2, <1>4 DEF ToSet
  <2>2. n > MaxDisabled
    BY <1>4, <2>1 DEF RequestsCanBegin
  <2>3. 1 \in 1..n /\ 1 + disabled <= n
    BY <1>1, <2>2
  <2>4. steps[1].enabled
    BY <2>3 DEF ProjectSteps
  <2>5. steps[1] \in ToSet(steps)
    BY <1>2, <2>3 DEF ToSet
  <2>6. QED
    BY <2>4, <2>5 DEF HasEnabled
<1>5. QED
  BY <1>3, <1>4

\* Lists of steps one behind the other have an enabled step, if each has one that has any.
LEMMA FlattenEnabled ==
  ASSUME NEW S, NEW lists \in Seq(Seq(StepOf(S))),
         \A i \in 1..Len(lists) : ToSet(lists[i]) # {} => HasEnabled(lists[i]),
         ToSet(FlattenSeq(lists)) # {}
  PROVE  HasEnabled(FlattenSeq(lists))
<1>1. \A s : s \in ToSet(FlattenSeq(lists)) <=> \E i \in 1..Len(lists) : s \in ToSet(lists[i])
  BY FlattenToSet
<1>2. PICK i \in 1..Len(lists) : ToSet(lists[i]) # {}
  BY <1>1
<1>3. PICK s \in ToSet(lists[i]) : s.enabled
  BY <1>2 DEF HasEnabled
<1>4. QED
  BY <1>1, <1>3 DEF HasEnabled

LEMMA ListStepsFacts ==
  ASSUME NEW S \in SUBSET Project, NEW order \in Seq(S), NEW id \in Id,
         NEW disabled \in 0..MaxDisabled
  PROVE  /\ ListSteps(order, id, disabled) \in Seq(StepOf(S))
         /\ RequestsCanBegin /\ ToSet(ListSteps(order, id, disabled)) # {} =>
              HasEnabled(ListSteps(order, id, disabled))
<1> DEFINE lists == [j \in DOMAIN order |-> ProjectSteps(order[j], id, disabled)]
           n == Len(order)
<1>1. n \in Nat /\ DOMAIN order = 1..n /\ \A j \in 1..n : order[j] \in S
  BY LenProperties, ElementOfSeq
<1>2. lists \in [1..n -> Seq(StepOf(S))]
  BY <1>1, ProjectStepsFacts
<1>3. \A j \in 1..n : lists[j] = ProjectSteps(order[j], id, disabled)
  BY <1>1
<1>4. ListSteps(order, id, disabled) = FlattenSeq(lists)
  BY DEF ListSteps
<1> HIDE DEF lists, n
<1>5. lists \in Seq(Seq(StepOf(S))) /\ Len(lists) = n
  BY <1>1, <1>2, FunctionIsList
<1>6. FlattenSeq(lists) \in Seq(StepOf(S))
  BY <1>5, FlattenType
<1>7. ASSUME RequestsCanBegin, ToSet(FlattenSeq(lists)) # {}
      PROVE  HasEnabled(FlattenSeq(lists))
  <2>1. \A j \in 1..Len(lists) : ToSet(lists[j]) # {} => HasEnabled(lists[j])
    BY <1>1, <1>3, <1>5, <1>7, ProjectStepsFacts
  <2>2. QED
    BY <1>5, <1>7, <2>1, FlattenEnabled
<1>8. QED
  BY <1>4, <1>6, <1>7

LEMMA StepListsFacts ==
  ASSUME NEW S \in SUBSET Project, NEW order \in Seq(S), NEW ids \in Seq(Id),
         NEW disabled \in 0..MaxDisabled
  PROVE  /\ StepLists(order, ids, disabled) \in Seq(StepOf(S))
         /\ RequestsCanBegin /\ ToSet(StepLists(order, ids, disabled)) # {} =>
              HasEnabled(StepLists(order, ids, disabled))
<1> DEFINE lists == [i \in DOMAIN ids |-> ListSteps(order, ids[i], disabled)]
           n == Len(ids)
<1>1. n \in Nat /\ DOMAIN ids = 1..n /\ \A i \in 1..n : ids[i] \in Id
  BY LenProperties, ElementOfSeq
<1>2. lists \in [1..n -> Seq(StepOf(S))]
  BY <1>1, ListStepsFacts
<1>3. \A i \in 1..n : lists[i] = ListSteps(order, ids[i], disabled)
  BY <1>1
<1>4. StepLists(order, ids, disabled) = FlattenSeq(lists)
  BY DEF StepLists, ListSteps, ProjectSteps
<1> HIDE DEF lists, n
<1>5. lists \in Seq(Seq(StepOf(S))) /\ Len(lists) = n
  BY <1>1, <1>2, FunctionIsList
<1>6. FlattenSeq(lists) \in Seq(StepOf(S))
  BY <1>5, FlattenType
<1>7. ASSUME RequestsCanBegin, ToSet(FlattenSeq(lists)) # {}
      PROVE  HasEnabled(FlattenSeq(lists))
  <2>1. \A i \in 1..Len(lists) : ToSet(lists[i]) # {} => HasEnabled(lists[i])
    BY <1>1, <1>3, <1>5, <1>7, ListStepsFacts
  <2>2. QED
    BY <1>5, <1>7, <2>1, FlattenEnabled
<1>8. QED
  BY <1>4, <1>6, <1>7

-----------------------------------------------------------------------------
\* What the user asks for is queued as steps of open projects.
LEMMA QueueAdds ==
  ASSUME OpenProjects \in SUBSET Project, NEW order \in Seq(OpenProjects),
         NEW ids \in Seq(Id), Queue(order, ids)
  PROVE  \E steps \in Seq(StepOf(OpenProjects)) :
           BM!BuildLists(steps) /\ (RequestsCanBegin => steps \in BM!Request)
<1>1. PICK disabled \in 0..MaxDisabled :
        /\ StepLists(order, ids, disabled) # <<>>
        /\ BM!BuildLists(StepLists(order, ids, disabled))
  BY DEF Queue
<1> DEFINE steps == StepLists(order, ids, disabled)
<1>2. /\ steps \in Seq(StepOf(OpenProjects))
      /\ RequestsCanBegin /\ ToSet(steps) # {} => HasEnabled(steps)
  BY StepListsFacts
<1>3. steps # <<>> /\ BM!BuildLists(steps)
  BY <1>1
<1> HIDE DEF steps
<1>4. steps \in Seq(BM!BuildStep)
  BY <1>2, StepsOfProjects
<1>5. ToSet(steps) # {}
  BY <1>2, <1>3, ToSetOf
<1>6. RequestsCanBegin => steps \in BM!Request
  BY <1>2, <1>4, <1>5 DEF HasEnabled, ToSet, BM!Request
<1>7. QED
  BY <1>2, <1>3, <1>6

LEMMA RequestAdds ==
  ASSUME AcyclicInv, SessionInv, DependInv, Request
  PROVE  \E steps \in Seq(StepOf(OpenProjects)) :
           BM!BuildLists(steps) /\ (RequestsCanBegin => steps \in BM!Request)
<1>1. /\ OpenProjects \in SUBSET Project
      /\ DependenciesOrder \in Seq(OpenProjects)
      /\ \A p \in Project : ProjectOrder(p) \in Seq(OpenProjects)
  BY OpenOrders
<1>2. Builds \subseteq Seq(Id) /\ <<"build", "deploy">> \in Seq(Id)
  BY DEF Builds, Id
<1>3. startup # NoProject => startup \in Project
  BY DEF SessionInv, TypeOK
<1>4. \A p \in OpenProjects : <<p>> \in Seq(OpenProjects)
  OBVIOUS
<1>5. \E order \in Seq(OpenProjects), ids \in Seq(Id) : Queue(order, ids)
  <2>1. CASE BuildProject
    BY <1>1, <1>2, <1>3, <2>1 DEF BuildProject
  <2>2. ASSUME NEW p \in Project, BuildProjectOnly(p)
        PROVE  \E order \in Seq(OpenProjects), ids \in Seq(Id) : Queue(order, ids)
    BY <1>2, <1>4, <2>2 DEF BuildProjectOnly
  <2>3. ASSUME NEW p \in Project, RunProject(p)
        PROVE  \E order \in Seq(OpenProjects), ids \in Seq(Id) : Queue(order, ids)
    BY <1>1, <1>2, <2>3 DEF RunProject
  <2>4. CASE BuildSession
    BY <1>1, <1>2, <2>4 DEF BuildSession
  <2>5. QED
    BY <2>1, <2>2, <2>3, <2>4 DEF Request
<1>6. QED
  BY <1>1, <1>5, QueueAdds

\* What a step that is no request is to the build manager.
ManagerGoesOn ==
  \/ BM!StepEnds \/ BM!IgnoreEvent \/ BM!NextBuildQueue \/ BM!Cancel \/ BM!GoesOn

LEMMA NoRequestGoesOn ==
  ASSUME BuildNext, ~Request
  PROVE  ManagerGoesOn
<1>1. BM!GoesOn \/ BM!Cancel \/ BM!StepEnds \/ BM!IgnoreEvent \/ BM!NextBuildQueue
  BY DEF BuildNext, CancelBuild, Unload, AboutToRemove, AskUnload, AnswerUnload, DeclineUnload,
         ChangeSession, StepEnds, OnFinished, BuildGoesOn
<1>2. QED
  BY <1>1 DEF ManagerGoesOn

\* Every step is one of the build manager.
LEMMA ManagerStep ==
  ASSUME AcyclicInv, SessionInv, DependInv, [BuildNext]_vars
  PROVE  /\ [AnyNext]_(BM!buildVars)
         /\ RequestsCanBegin => [BM!Next]_(BM!buildVars)
<1>1. CASE UNCHANGED vars
  BY <1>1 DEF vars, BM!buildVars
<1>2. CASE BuildNext /\ ~Request
  BY <1>2, NoRequestGoesOn DEF ManagerGoesOn, AnyNext, BM!Next
<1>3. CASE Request
  <2>1. PICK steps \in Seq(StepOf(OpenProjects)) :
          BM!BuildLists(steps) /\ (RequestsCanBegin => steps \in BM!Request)
    BY <1>3, RequestAdds
  <2>3. steps \in Seq(BM!BuildStep)
    BY OpenOrders, StepsOfProjects
  <2>4. QED
    BY <2>1, <2>3 DEF AnyNext, AnyRequest, BM!Next
<1>4. QED
  BY <1>1, <1>2, <1>3

\* What a step makes of the progress, and what is queued or run after it.
StepsStay ==
  \A s \in ToSet(queue') \union {current', thread'} :
     s \in ToSet(queue) \union {current, thread, BM!NoStep} \union StepOf(OpenProjects)

LEMMA ManagerWorks ==
  ASSUME AcyclicInv, SessionInv, DependInv, CountersInv, BuildNext
  PROVE  Worked /\ StepsStay
<1>1. \A s : Range(s) = ToSet(s)
  BY DEF Range, ToSet
<1>2. CASE ~Request
  <2>1. Worked /\ StepsFrom(<<>>)
    BY <1>2, NoRequestGoesOn, OthersWork DEF ManagerGoesOn
  <2>2. ToSet(<<>>) = {}
    BY ToSetShort
  <2>3. QED
    BY <1>1, <2>1, <2>2 DEF StepsFrom, StepsStay
<1>3. CASE Request
  <2>1. PICK steps \in Seq(StepOf(OpenProjects)) : BM!BuildLists(steps)
    BY <1>3, RequestAdds
  <2>3. steps \in Seq(BM!BuildStep)
    BY OpenOrders, StepsOfProjects
  <2>4. Worked /\ StepsFrom(steps)
    BY <2>1, <2>3, BuildListsWorks
  <2>5. ToSet(steps) \subseteq StepOf(OpenProjects)
    BY ToSetOf
  <2>6. QED
    BY <1>1, <2>4, <2>5 DEF StepsFrom, StepsStay
<1>4. QED
  BY <1>2, <1>3

-----------------------------------------------------------------------------
\* The run that waits has no more to wait for than there is to do, and one that has waited
\* is begun when nothing is left.
RunInv ==
  /\ delayed # NoProject => owing <= Outstanding
  /\ RunAfterBuild

BuildInv ==
  /\ AcyclicInv /\ SessionInv /\ DependInv
  /\ CountersInv
  /\ BuildTypeOK
  /\ unloading \in OpenProjects \union {NoProject}
  /\ StepsAreOpen
  /\ RunInv

LEMMA BuildInit == Init /\ buildInit => BuildInv
<1> SUFFICES ASSUME Init, buildInit PROVE BuildInv
  OBVIOUS
<1>1. AcyclicInv /\ SessionInv /\ DependInv
  BY AcyclicInit, SessionInit, DependInit
<1>2. BM!Init
  BY DEF buildInit
<1>3. CountersInv
  BY <1>2, ManagerInit DEF ManagerInv
<1>4. delayed = NoProject /\ launched = NoProject /\ owing = 0 /\ unloading = NoProject
  BY DEF buildInit
<1>5. BuildTypeOK
  BY <1>3, <1>4 DEF CountersInv, BuildTypeOK
<1>6. StepsAreOpen
  BY <1>2, ToSetShort DEF BM!Init, StepsAreOpen
<1>7. QED
  BY <1>1, <1>3, <1>4, <1>5, <1>6 DEF BuildInv, RunInv, RunAfterBuild

\* The steps of the session, behind which the queue works on, are those of SessionManager.
LEMMA SessionStep ==
  ASSUME unloading \in OpenProjects \union {NoProject}, [BuildNext]_vars
  PROVE  [Next]_sessionVars
<1>1. ASSUME NEW S, S \in {{p} : p \in {q \in OpenProjects : ~BM!IsBuilding(q)}} \union {OpenProjects},
             Unload(S)
      PROVE  Next
  BY <1>1 DEF Unload, Next
<1>2. CASE AnswerUnload
  BY <1>2 DEF AnswerUnload, Next, sessionVars
<1>3. CASE ChangeSession
  BY <1>3 DEF ChangeSession, Next
<1>4. CASE Request
  BY <1>4 DEF Request, BuildProject, BuildProjectOnly, BuildSession, RunProject, sessionVars
<1>5. CASE CancelBuild \/ DeclineUnload \/ StepEnds \/ OnFinished \/ UNCHANGED vars
  BY <1>5 DEF CancelBuild, DeclineUnload, StepEnds, OnFinished, vars, sessionVars
<1>6. ASSUME NEW p, AskUnload(p) PROVE UNCHANGED sessionVars
  BY <1>6 DEF AskUnload, sessionVars
<1>7. QED
  BY <1>1, <1>2, <1>3, <1>4, <1>5, <1>6 DEF BuildNext

\* The steps that are still to be done are what the progress lacks.
LEMMA WhatIsOutstanding ==
  ASSUME CountersInv
  PROVE  /\ progress \in Nat /\ maxProgress \in Nat /\ Outstanding \in Nat
         /\ running => progress + Outstanding = maxProgress
         /\ ~running => Outstanding = 0
<1>1. /\ queue \in Seq(BM!BuildStep) /\ progress \in Nat /\ maxProgress \in Nat
      /\ IF running THEN current # BM!NoStep /\ progress + 1 + Len(queue) = maxProgress
         ELSE current = BM!NoStep /\ queue = <<>> /\ maxProgress = 0
  BY DEF CountersInv, BM!TypeOK, BM!CountsMatch
<1>2. Len(queue) \in Nat /\ Len(<<>>) = 0
  BY <1>1, LenProperties
<1>3. QED
  BY <1>1, <1>2 DEF Outstanding

LEMMA WhatIsOutstandingThen ==
  ASSUME CountersInv'
  PROVE  /\ progress' \in Nat /\ maxProgress' \in Nat /\ Outstanding' \in Nat
         /\ running' => progress' + Outstanding' = maxProgress'
         /\ ~running' => Outstanding' = 0
<1>1. /\ queue' \in Seq(BM!BuildStep) /\ progress' \in Nat /\ maxProgress' \in Nat
      /\ IF running' THEN current' # BM!NoStep /\ progress' + 1 + Len(queue') = maxProgress'
         ELSE current' = BM!NoStep /\ queue' = <<>> /\ maxProgress' = 0
  BY DEF CountersInv, BM!TypeOK, BM!CountsMatch
<1>2. Len(queue') \in Nat /\ Len(<<>>) = 0
  BY <1>1, LenProperties
<1>3. QED
  BY <1>1, <1>2 DEF Outstanding

LEMMA Gained ==
  ASSUME NEW before \in Nat, NEW after \in Nat, before <= after
  PROVE  after - before \in Nat
  OBVIOUS

LEMMA LeftAndOwed ==
  ASSUME NEW before \in Nat, NEW after \in Nat, NEW left \in Nat, NEW leftThen \in Nat,
         NEW owed \in Nat, owed <= left,
         before <= after, before + left <= after + leftThen
  PROVE  (IF owed > after - before THEN owed - (after - before) ELSE 0) <= leftThen
  OBVIOUS

\* The slot of buildQueueFinished keeps the account: what the progress gains, or all of it
\* when the queue is worked off, is done of what is owed.
LEMMA FinishedKeepsRun ==
  ASSUME BuildInv, CountersInv', Worked, BuildQueueFinished
  PROVE  RunInv' /\ owing' \in Nat
<1>1. owing \in Nat /\ (delayed # NoProject => owing <= Outstanding)
  BY DEF BuildInv, BuildTypeOK, RunInv
<1>2. /\ progress \in Nat /\ maxProgress \in Nat /\ Outstanding \in Nat
      /\ running => progress + Outstanding = maxProgress
      /\ ~running => Outstanding = 0
  BY WhatIsOutstanding DEF BuildInv
<1>3. /\ progress' \in Nat /\ maxProgress' \in Nat /\ Outstanding' \in Nat
      /\ running' => progress' + Outstanding' = maxProgress'
      /\ ~running' => Outstanding' = 0
  BY WhatIsOutstandingThen
<1>4. finished' \in {"none", "success", "failure"}
  BY DEF CountersInv, BM!TypeOK
<1> DEFINE left == Outstanding
           leftThen == Outstanding'
           done == Done
<1>5. /\ delayed' = (IF finished' = "none" THEN delayed ELSE NoProject)
      /\ finished' # "success" => launched' = NoProject
      /\ launched' \in {delayed, NoProject}
      /\ owing' = IF owing > done THEN owing - done ELSE 0
  BY DEF BuildQueueFinished
<1>6. CASE finished' = "none"
  <2>0. done = IF running THEN progress' - progress ELSE 0
    BY <1>6 DEF Done
  <2>1. done \in Nat
    <3>1. running => progress <= progress'
      BY <1>6 DEF Worked
    <3>2. progress \in Nat /\ progress' \in Nat
      BY <1>2, <1>3
    <3>3. running => progress' - progress \in Nat
      BY <3>1, <3>2, Gained
    <3> HIDE DEF done
    <3>4. QED
      BY <2>0, <3>3
  <2>2. running => running' /\ maxProgress <= maxProgress'
    BY <1>6 DEF Worked
  <2> HIDE DEF left, leftThen, done
  <2>3. owing' \in Nat
    BY <1>1, <1>5, <2>1
  <2>4. ASSUME delayed # NoProject PROVE owing' <= leftThen
    <3>1. CASE running
      <4>1. progress + left = maxProgress /\ progress' + leftThen = maxProgress'
        BY <1>2, <1>3, <2>2, <3>1 DEF left, leftThen
      <4>2. owing <= left /\ left \in Nat /\ leftThen \in Nat
        BY <1>1, <1>2, <1>3, <2>4 DEF left, leftThen
      <4>3. progress <= progress'
        BY <1>6, <3>1 DEF Worked
      <4>4. progress + left <= progress' + leftThen
        BY <2>2, <3>1, <4>1
      <4>5. done = progress' - progress
        BY <2>0, <3>1
      <4>6. QED
        BY <1>1, <1>2, <1>3, <1>5, <4>2, <4>3, <4>4, <4>5, LeftAndOwed
    <3>2. CASE ~running
      <4>1. owing = 0
        BY <1>1, <1>2, <2>4, <3>2
      <4>2. owing' = 0
        BY <1>5, <2>1, <4>1
      <4>3. QED
        BY <1>3, <4>2 DEF leftThen
    <3>3. QED
      BY <3>1, <3>2
  <2>5. QED
    BY <1>5, <1>6, <2>3, <2>4 DEF RunInv, RunAfterBuild, leftThen
<1>7. CASE finished' = "success"
  <2>1. done = (IF running THEN progress' - progress ELSE 0)
    BY <1>7 DEF Done
  <2>2. ~running' /\ (running => progress' = maxProgress)
    BY <1>7 DEF Worked
  <2> HIDE DEF left, leftThen, done
  <2>3. done = left /\ left \in Nat
    BY <1>2, <2>1, <2>2 DEF left
  <2>4. owing' \in Nat
    BY <1>1, <1>5, <2>3
  <2>5. ASSUME launched' # NoProject PROVE owing' = 0
    <3>1. owing <= left
      BY <1>1, <1>5, <2>5 DEF left
    <3>2. ~(owing > left)
      BY <1>1, <2>3, <3>1
    <3>3. QED
      BY <1>5, <2>3, <3>2
  <2>6. delayed' = NoProject
    BY <1>5, <1>7
  <2>7. QED
    BY <2>4, <2>5, <2>6 DEF RunInv, RunAfterBuild
<1>8. CASE finished' = "failure"
  <2>1. done = 0
    BY <1>8 DEF Done
  <2>2. launched' = NoProject /\ delayed' = NoProject
    BY <1>5, <1>8
  <2> HIDE DEF done
  <2>3. owing' \in Nat
    BY <1>1, <1>5, <2>1
  <2>4. QED
    BY <2>2, <2>3 DEF RunInv, RunAfterBuild
<1>9. QED
  BY <1>4, <1>6, <1>7, <1>8

\* A run that is asked for waits for all that is queued then.
LEMMA RunProjectKeepsRun ==
  ASSUME BuildInv, CountersInv', Worked, NEW p \in Project, RunProject(p)
  PROVE  RunInv' /\ owing' \in Nat
<1>1. /\ owing' = Outstanding'
      /\ launched' # NoProject => finished' = "success"
  BY DEF RunProject
<1>2. Outstanding' \in Nat /\ (~running' => Outstanding' = 0)
  BY WhatIsOutstandingThen
<1>3. finished' = "success" => ~running'
  BY DEF Worked
<1>4. owing' <= Outstanding'
  BY <1>1, <1>2
<1>5. QED
  BY <1>1, <1>2, <1>3, <1>4 DEF RunInv, RunAfterBuild

LEMMA GoesOnKeepsRun ==
  ASSUME BuildInv, BuildGoesOn
  PROVE  RunInv' /\ owing' \in Nat
  BY DEF BuildInv, BuildTypeOK, BuildGoesOn, BM!GoesOn, RunInv, RunAfterBuild, Outstanding

LEMMA RunNext ==
  ASSUME BuildInv, CountersInv', Worked, BuildNext
  PROVE  RunInv' /\ owing' \in Nat
<1>1. BuildQueueFinished \/ BuildGoesOn \/ \E p \in Project : RunProject(p)
  BY DEF BuildNext, Request, BuildProject, BuildProjectOnly, BuildSession, CancelBuild, Unload,
         AboutToRemove, AskUnload, AnswerUnload, DeclineUnload, ChangeSession, StepEnds, OnFinished
<1>2. QED
  BY <1>1, FinishedKeepsRun, GoesOnKeepsRun, RunProjectKeepsRun

-----------------------------------------------------------------------------
\* Nothing queued or run loses its project: what is removed is not being built, or the
\* queue is cleared.
LEMMA StepsStayOpen ==
  ASSUME BuildInv, StepsStay, OpenProjects \subseteq OpenProjects'
  PROVE  StepsAreOpen'
<1>1. \A s \in ToSet(queue) \union {current, thread} : s # BM!NoStep => s.project \in OpenProjects
  BY DEF BuildInv, StepsAreOpen
<1>2. \A s \in ToSet(queue') \union {current', thread'} :
        s # BM!NoStep => s.project \in OpenProjects'
  BY <1>1 DEF StepsStay, StepOf
<1>3. BM!NoStep' = BM!NoStep
  BY DEF BM!NoStep, BM!NoProject
<1>4. QED
  BY <1>2, <1>3 DEF StepsAreOpen, ToSet

LEMMA CancelledAreOpen ==
  ASSUME BuildInv, BM!Cancel
  PROVE  StepsAreOpen'
<1>1. queue' = <<>> /\ current' = BM!NoStep /\ thread' = BM!NoStep
  BY CancelClears DEF BuildInv
<1>2. ToSet(<<>>) = {}
  BY ToSetShort
<1>3. \A s \in ToSet(queue') \union {current', thread'} : s = BM!NoStep
  BY <1>1, <1>2
<1>4. BM!NoStep' = BM!NoStep
  BY DEF BM!NoStep, BM!NoProject
<1>5. QED
  BY <1>3, <1>4 DEF StepsAreOpen, ToSet

LEMMA UnloadKeepsOpen ==
  ASSUME BuildInv, NEW S \in SUBSET Project, Unload(S)
  PROVE  StepsAreOpen'
<1>1. CASE \E p \in S : BM!IsBuilding(p)
  BY <1>1, CancelledAreOpen DEF Unload, AboutToRemove
<1>2. CASE ~\E p \in S : BM!IsBuilding(p)
  <2>1. UNCHANGED <<queue, current, thread>>
    BY <1>2 DEF Unload, AboutToRemove, BuildGoesOn, BM!GoesOn
  <2>2. \A s \in ToSet(queue) \union {current, thread} : s.project \notin S
    <3>1. \A s : Range(s) = ToSet(s)
      BY DEF Range, ToSet
    <3>2. ASSUME NEW p \in S
          PROVE  \A s \in Range(queue) \union {current, thread} : s.project # p
      BY <1>2, NotBuilding DEF BuildInv
    <3>3. QED
      BY <3>1, <3>2
  <2>3. projects \in Seq(Project) /\ projects' = Without(projects, S)
    BY DEF BuildInv, SessionInv, TypeOK, Unload, RemoveProjects
  <2>4. \A p : p \in ToSet(projects') <=> p \in ToSet(projects) /\ p \notin S
    BY <2>3, WithoutFacts
  <2>5. \A s \in ToSet(queue) \union {current, thread} :
          s # BM!NoStep => s.project \in ToSet(projects')
    BY <2>2, <2>4 DEF BuildInv, StepsAreOpen, OpenProjects
  <2>6. BM!NoStep' = BM!NoStep
    BY DEF BM!NoStep, BM!NoProject
  <2>7. QED
    BY <2>1, <2>5, <2>6 DEF StepsAreOpen, OpenProjects
<1>3. QED
  BY <1>1, <1>2

\* Steps that take no project out of the session.
LEMMA OthersKeepProjects ==
  ASSUME BuildInv,
         \/ Request \/ CancelBuild \/ DeclineUnload \/ ChangeSession \/ StepEnds \/ OnFinished
         \/ \E p \in OpenProjects : AskUnload(p)
  PROVE  /\ OpenProjects \subseteq OpenProjects'
         /\ unloading' \in OpenProjects \union {NoProject}
<1>1. projects \in Seq(Project)
  BY DEF BuildInv, SessionInv, TypeOK
<1>2. CASE ChangeSession
  <2>1. ASSUME NEW p \in Project, AddProject(p)
        PROVE  OpenProjects \subseteq OpenProjects'
    BY <1>1, <2>1, AppendFacts DEF AddProject, OpenProjects
  <2>2. ASSUME NEW p \in Project, NEW dep \in Project,
               SetStartupProject(p) \/ AddDependency(p, dep) \/ RemoveDependency(p, dep)
        PROVE  OpenProjects \subseteq OpenProjects'
    BY <2>2 DEF SetStartupProject, AddDependency, RemoveDependency, OpenProjects
  <2>3. unloading' = unloading
    BY <1>2 DEF ChangeSession
  <2>4. QED
    BY <1>2, <2>1, <2>2, <2>3 DEF ChangeSession, BuildInv
<1>3. CASE Request
  BY <1>3 DEF Request, BuildProject, BuildProjectOnly, BuildSession, RunProject, sessionVars,
              OpenProjects, BuildInv
<1>4. CASE CancelBuild \/ DeclineUnload \/ StepEnds \/ OnFinished
  BY <1>4 DEF CancelBuild, DeclineUnload, StepEnds, OnFinished, sessionVars, OpenProjects, BuildInv
<1>5. CASE \E p \in OpenProjects : AskUnload(p)
  BY <1>5 DEF AskUnload, sessionVars, OpenProjects
<1>6. QED
  BY <1>2, <1>3, <1>4, <1>5

\* What is queued and what the user is asked about is open after every step.
LEMMA OpenNext ==
  ASSUME BuildInv, BuildNext, StepsStay
  PROVE  StepsAreOpen' /\ unloading' \in OpenProjects' \union {NoProject}
<1>1. ASSUME NEW S, S \in {{p} : p \in {q \in OpenProjects : ~BM!IsBuilding(q)}} \union {OpenProjects},
             Unload(S)
      PROVE  StepsAreOpen' /\ unloading' \in OpenProjects' \union {NoProject}
  <2>1. S \in SUBSET Project
    BY <1>1, OpenOrders DEF BuildInv
  <2>2. unloading' = NoProject
    BY <1>1 DEF Unload, User
  <2>3. QED
    BY <1>1, <2>1, <2>2, UnloadKeepsOpen
<1>2. CASE AnswerUnload
  BY <1>2, CancelledAreOpen DEF AnswerUnload
<1>3. CASE \/ Request \/ CancelBuild \/ DeclineUnload \/ ChangeSession \/ StepEnds \/ OnFinished
           \/ \E p \in OpenProjects : AskUnload(p)
  BY <1>3, OthersKeepProjects, StepsStayOpen
<1>4. QED
  BY <1>1, <1>2, <1>3 DEF BuildNext

LEMMA BuildTypeNext ==
  ASSUME BuildInv, BuildNext, CountersInv', owing' \in Nat, SessionInv',
         unloading' \in OpenProjects' \union {NoProject}
  PROVE  BuildTypeOK'
<1>1. /\ delayed \in Project \union {NoProject}
      /\ OpenProjects' \subseteq Project
  <2>1. projects' \in Seq(Project)
    BY DEF SessionInv, TypeOK
  <2>2. ToSet(projects') \subseteq Project
    BY <2>1, ToSetOf
  <2>3. QED
    BY <2>2 DEF BuildInv, BuildTypeOK, OpenProjects
<1>2. /\ delayed' \in Project \union {NoProject}
      /\ launched' \in Project \union {NoProject}
  <2>1. BuildQueueFinished \/ BuildGoesOn \/ \E p \in Project : RunProject(p)
    BY DEF BuildNext, Request, BuildProject, BuildProjectOnly, BuildSession, CancelBuild, Unload,
           AboutToRemove, AskUnload, AnswerUnload, DeclineUnload, ChangeSession, StepEnds, OnFinished
  <2>2. QED
    BY <1>1, <2>1 DEF BuildQueueFinished, BuildGoesOn, RunProject
<1>3. BM!TypeOK'
  BY DEF CountersInv
<1>4. QED
  BY <1>1, <1>2, <1>3 DEF BuildTypeOK

LEMMA BuildInvNext == BuildInv /\ [BuildNext]_vars => BuildInv'
<1> SUFFICES ASSUME BuildInv, [BuildNext]_vars PROVE BuildInv'
  OBVIOUS
<1>1. [Next]_sessionVars
  BY SessionStep DEF BuildInv
<1>2. AcyclicInv' /\ SessionInv' /\ DependInv'
  BY <1>1, AcyclicNext, SessionNext, DependNext DEF BuildInv
<1>3. CountersInv'
  BY ManagerStep, CountersNext DEF BuildInv
<1>4. CASE BuildNext
  <2>1. Worked /\ StepsStay
    BY <1>4, ManagerWorks DEF BuildInv
  <2>2. RunInv' /\ owing' \in Nat
    BY <1>3, <1>4, <2>1, RunNext
  <2>3. StepsAreOpen' /\ unloading' \in OpenProjects' \union {NoProject}
    BY <1>4, <2>1, OpenNext
  <2>4. BuildTypeOK'
    BY <1>2, <1>3, <1>4, <2>2, <2>3, BuildTypeNext
  <2>5. QED
    BY <1>2, <1>3, <2>2, <2>3, <2>4 DEF BuildInv
<1>5. CASE UNCHANGED vars
  <2>1. /\ UNCHANGED <<queue, current, running, canceling, active, progress, maxProgress, thread,
                      posted, finished>>
        /\ UNCHANGED <<delayed, launched, owing, unloading>>
        /\ projects' = projects
    BY <1>5 DEF vars, BM!buildVars, sessionVars
  <2>2. BuildTypeOK'
    BY <2>1 DEF BuildInv, BuildTypeOK, BM!TypeOK
  <2>3. StepsAreOpen' /\ RunInv' /\ unloading' \in OpenProjects' \union {NoProject}
    BY <2>1 DEF BuildInv, StepsAreOpen, RunInv, RunAfterBuild, Outstanding, OpenProjects
  <2>4. QED
    BY <1>2, <1>3, <2>2, <2>3 DEF BuildInv
<1>6. QED
  BY <1>4, <1>5

LEMMA BuildAlways == BuildSpec => []BuildInv
  BY BuildInit, BuildInvNext, PTL DEF BuildSpec

-----------------------------------------------------------------------------
\* No counter of steps falls below zero, in whatever order projects are requested, run,
\* removed and cancelled (BuildManager, m_delayedRunConfiguration).
THEOREM BuildTypes == BuildSpec => []BuildTypeOK
<1>1. BuildInv => BuildTypeOK
  BY DEF BuildInv
<1>2. QED
  BY <1>1, BuildAlways, PTL

\* The counters that say whether removing a project must end its build agree with the
\* queue, for the lists of steps the session asks for and the steps it removes.
THEOREM BuildCountsMatch == BuildSpec => []CountsMatch
<1>1. BuildInv => CountsMatch
  BY DEF BuildInv, CountersInv, CountsMatch
<1>2. QED
  BY <1>1, BuildAlways, PTL

\* No step of a project that was taken out of the session is queued or run, though projects
\* are removed at any time, also while the user is asked whether to (aboutToRemoveProject).
THEOREM BuildStepsAreOpen == BuildSpec => []StepsAreOpen
<1>1. BuildInv => StepsAreOpen
  BY DEF BuildInv
<1>2. QED
  BY <1>1, BuildAlways, PTL

\* A run that waited for a build is begun when all that was queued before it and for it
\* was done without a failure, and at no other time (buildQueueFinished).
THEOREM BuildRunsAfterBuild == BuildSpec => []RunAfterBuild
<1>1. BuildInv => RunAfterBuild
  BY DEF BuildInv, RunInv
<1>2. QED
  BY <1>1, BuildAlways, PTL

\* The session that builds is a session: all that is proved of SessionManager holds of it.
THEOREM BuildUsesSession == BuildSpec => Spec
<1>1. BuildInv /\ [BuildNext]_vars => [Next]_sessionVars
  BY SessionStep DEF BuildInv
<1>2. Init /\ buildInit => Init
  OBVIOUS
<1>3. QED
  BY <1>1, <1>2, BuildAlways, PTL DEF BuildSpec, Spec

\* The event of a step, which arrives when the step is long over, finds that step to be
\* current or is ignored, if no list of steps is made of disabled ones only: such a request
\* is over at once and takes the mark off a cancelled step whose event is still to come
\* (startBuildQueue, nextBuildQueue).
THEOREM BuildThreadIsCurrent == ASSUME RequestsCanBegin PROVE BuildSpec => []ThreadIsCurrent
<1>1. Init /\ buildInit => EventHasStep
  BY ManagerInit DEF buildInit, ManagerInv
<1>2. BuildInv /\ EventHasStep /\ [BuildNext]_vars => EventHasStep'
  BY ManagerStep, EventNext DEF BuildInv, ManagerInv
<1>3. BuildInv /\ EventHasStep => ThreadIsCurrent
  BY DEF BuildInv, CountersInv, ThreadRuns, EventHasStep, BM!ThreadIsCurrent, ThreadIsCurrent
<1>4. QED
  BY <1>1, <1>2, <1>3, BuildAlways, PTL DEF BuildSpec
=============================================================================
