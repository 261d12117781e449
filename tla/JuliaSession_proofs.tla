------------------------- MODULE JuliaSession_proofs -------------------------
(***************************************************************************)
(* Safety of JuliaSession for every value of its constants.  The invariants *)
(* of the evaluator, the console and the event loop, and the order in which *)
(* requests are begun, hold however replies are cut up; that one request at *)
(* most is under way, where Julia goes next, and that the session is the    *)
(* command service, needs Split = {}.                                       *)
(***************************************************************************)
EXTENDS ServiceRefinement, ListFacts

-----------------------------------------------------------------------------
(* Facts about the operators the actions are built from.                    *)

\* A sequence of one element.
LEMMA Singleton ==
  ASSUME NEW S, NEW x \in S
  PROVE  <<x>> \in Seq(S) /\ Len(<<x>>) = 1 /\ <<x>> # <<>> /\ <<x>>[1] = x
OBVIOUS

\* Two sequences, one behind the other.
LEMMA Joined ==
  ASSUME NEW S, NEW s \in Seq(S), NEW t \in Seq(S)
  PROVE  s \o t \in Seq(S) /\ Len(s \o t) = Len(s) + Len(t)
BY ConcatProperties

\* eval() writes at most one request, only if it was not busy, and queues nothing
\* when it is connected and stays idle.
LEMMA EvalAllFacts ==
  ASSUME NEW c, NEW b \in BOOLEAN,
         NEW q \in Seq(Request), NEW ms \in Seq(Request)
  PROVE  /\ EvalAll(c, b, q, ms).busy \in BOOLEAN
         /\ EvalAll(c, b, q, ms).queue \in Seq(Request)
         /\ EvalAll(c, b, q, ms).wrote \in Seq(Request)
         /\ b \/ c # "connected" => EvalAll(c, b, q, ms).busy = b /\ EvalAll(c, b, q, ms).wrote = <<>>
         /\ ~b => Len(EvalAll(c, b, q, ms).wrote) = IF EvalAll(c, b, q, ms).busy THEN 1 ELSE 0
         /\ c = "connected" /\ ~EvalAll(c, b, q, ms).busy => ms = <<>> /\ EvalAll(c, b, q, ms).queue = q
<1>1. q \o ms \in Seq(Request) /\ q \o <<>> = q
  BY ConcatProperties, ConcatEmptySeq
<1>2. <<>> \in Seq(Request) /\ Len(<<>>) = 0
  BY EmptySeq
<1>3. CASE b \/ c # "connected" \/ ms = <<>>
  <2>1. EvalAll(c, b, q, ms) = [busy |-> b, queue |-> q \o ms, wrote |-> <<>>]
    BY <1>3 DEF EvalAll
  <2> QED BY <2>1, <1>1, <1>2, <1>3
<1>4. CASE ~b /\ c = "connected" /\ ms # <<>>
  <2>1. EvalAll(c, b, q, ms) = [busy |-> TRUE, queue |-> q \o Tail(ms), wrote |-> <<Head(ms)>>]
    BY <1>4 DEF EvalAll
  <2>2. Head(ms) \in Request /\ Tail(ms) \in Seq(Request)
    BY <1>4, HeadTailProperties
  <2>3. <<Head(ms)>> \in Seq(Request) /\ Len(<<Head(ms)>>) = 1
    BY <2>2, Singleton
  <2>4. q \o Tail(ms) \in Seq(Request)
    BY <2>2, Joined
  <2> QED BY <2>1, <2>3, <2>4, <1>4
<1> QED BY <1>3, <1>4

\* continueOrReady() is idle afterwards only if ready() was emitted and evaluated
\* nothing.
LEMMA ContinueOrReadyFacts ==
  ASSUME NEW q \in Seq(Request), NEW rs \in Seq(Request)
  PROVE  /\ ContinueOrReady(q, rs).busy \in BOOLEAN
         /\ ContinueOrReady(q, rs).queue \in Seq(Request)
         /\ ContinueOrReady(q, rs).wrote \in Seq(Request)
         /\ Len(ContinueOrReady(q, rs).wrote) = IF ContinueOrReady(q, rs).busy THEN 1 ELSE 0
         /\ ~ContinueOrReady(q, rs).busy =>
              q = <<>> /\ rs = <<>> /\ ContinueOrReady(q, rs).queue = <<>>
<1>1. CASE q # <<>>
  <2>1. ContinueOrReady(q, rs) = [busy |-> TRUE, queue |-> Tail(q), wrote |-> <<Head(q)>>]
    BY <1>1 DEF ContinueOrReady
  <2>2. Tail(q) \in Seq(Request) /\ Head(q) \in Request
    BY <1>1, HeadTailProperties
  <2>3. <<Head(q)>> \in Seq(Request) /\ Len(<<Head(q)>>) = 1
    BY <2>2, Singleton
  <2> QED BY <1>1, <2>1, <2>2, <2>3
<1>2. CASE q = <<>>
  <2>2. <<>> \in Seq(Request)
    BY EmptySeq
  <2>3. CASE rs = <<>>
    <3>1. ContinueOrReady(q, rs) = [busy |-> FALSE, queue |-> <<>> \o <<>>, wrote |-> <<>>]
      BY <1>2, <2>3 DEF ContinueOrReady, EvalAll
    <3>2. <<>> \o <<>> = <<>>
      BY <2>2, ConcatEmptySeq
    <3>3. ContinueOrReady(q, rs) = [busy |-> FALSE, queue |-> <<>>, wrote |-> <<>>]
      BY <3>1, <3>2
    <3>4. /\ ~ContinueOrReady(q, rs).busy
          /\ ContinueOrReady(q, rs).busy \in BOOLEAN
          /\ ContinueOrReady(q, rs).queue = <<>>
          /\ ContinueOrReady(q, rs).wrote = <<>>
      BY <3>3
    <3>5. Len(ContinueOrReady(q, rs).wrote) = 0
      BY <3>3
    <3>6. Len(ContinueOrReady(q, rs).wrote) = IF ContinueOrReady(q, rs).busy THEN 1 ELSE 0
      BY <3>4, <3>5
    <3>7. /\ ContinueOrReady(q, rs).queue \in Seq(Request)
          /\ ContinueOrReady(q, rs).wrote \in Seq(Request)
      BY <2>2, <3>4
    <3> QED BY <1>2, <2>3, <3>4, <3>6, <3>7
  <2>4. CASE rs # <<>>
    <3>1. ContinueOrReady(q, rs) =
            [busy |-> TRUE, queue |-> <<>> \o Tail(rs), wrote |-> <<Head(rs)>>]
      BY <1>2, <2>4 DEF ContinueOrReady, EvalAll
    <3>2. Head(rs) \in Request /\ Tail(rs) \in Seq(Request)
      BY <2>4, HeadTailProperties
    <3>3. <<>> \o Tail(rs) \in Seq(Request)
      BY <2>2, <3>2, Joined
    <3>4. <<Head(rs)>> \in Seq(Request) /\ Len(<<Head(rs)>>) = 1
      BY <3>2, Singleton
    <3> QED BY <3>1, <3>3, <3>4
  <2> QED BY <2>3, <2>4
<1> QED BY <1>1, <1>2

\* What the objects around the evaluator have it evaluate are requests.
LEMMA RequestTypes ==
  /\ \A d \in Dirs : DirMsg(d) \in Request
  /\ PackageLists \in Seq(Request) /\ PackageLists # <<>>
  /\ OnReady \in Seq(Request)
  /\ \A rep : FollowUps(rep) \in Seq(Request)
<1>1. \A d \in Dirs : DirMsg(d) \in Request
  BY DEF DirMsg, Request
<1>2. PackageMsg("available") \in Request /\ PackageMsg("installed") \in Request
  BY DEF PackageMsg, Request, PackageCommands
<1>3. PackageLists \in Seq(Request) /\ PackageLists # <<>>
  BY <1>2 DEF PackageLists
<1>4. <<>> \in Seq(Request)
  BY EmptySeq
<1>5. OnReady \in Seq(Request)
  BY <1>3, <1>4 DEF OnReady
<1>6. \A k \in WatchKinds : WatchMsg(k) \in Request
  BY DEF WatchMsg, Request
<1>7. [i \in 1..Len(OpenPanes) |-> WatchMsg(OpenPanes[i])] \in Seq(Request)
  <2>1. Len(OpenPanes) \in Nat /\ \A i \in 1..Len(OpenPanes) : OpenPanes[i] \in WatchKinds
    BY SessionAssumption, LenProperties, ElementOfSeq
  <2> QED BY <2>1, <1>6
<1>8. \A rep : FollowUps(rep) \in Seq(Request)
  BY <1>4, <1>7 DEF FollowUps
<1> QED BY <1>1, <1>3, <1>5, <1>8

\* Handlers answer with replies, and the pieces of a reply are pieces.
LEMMA ReplyTyping ==
  /\ \A r \in Request : RepliesTo(r) \subseteq Reply
  /\ \A rep \in Reply, n \in {1, 2} : Pieces(rep, n) \in Seq(Piece) /\ Len(Pieces(rep, n)) = n
<1>1. ASSUME NEW r \in Request PROVE RepliesTo(r) \subseteq Reply
  BY DEF RepliesTo, Reply, ReplyTypes
<1>2. ASSUME NEW rep \in Reply, NEW n \in {1, 2}
      PROVE  Pieces(rep, n) \in Seq(Piece) /\ Len(Pieces(rep, n)) = n
  <2>1. \A i \in 1..n : [reply |-> rep, part |-> i, parts |-> n] \in Piece
    BY DEF Piece
  <2>2. [i \in 1..n |-> [reply |-> rep, part |-> i, parts |-> n]] \in [1..n -> Piece]
    BY <2>1
  <2> QED BY <2>2 DEF Pieces
<1> QED BY <1>1, <1>2

-----------------------------------------------------------------------------
(* The inductive invariant.                                                 *)

\* The event loop is down exactly when the process is dead; a connection only
\* closes with the process.
EndsTogether ==
  /\ process = "dead" <=> engine = "down"
  /\ socket = "closed" => process = "dead"

\* A reset leaves the console without a prompt until Ready has been emitted.
RefreshWaits == refreshOnReady => console_busy

\* Events wait under a signal unless the loop is among them.
Signalled == engine # "dispatch" /\ pending_events # <<>> => event_signal

IInv ==
  /\ TypeOK
  /\ EndsTogether
  /\ RefreshWaits
  /\ Signalled
  /\ IdleMeansDrained
  /\ PromptWhenIdle

LEMMA InitIInv == Init => IInv
<1> SUFFICES ASSUME Init PROVE IInv
  OBVIOUS
<1>1. TypeOK
  <2>1. WireTypeOK
    BY DEF Init, WireTypeOK
  <2>2. IdeTypeOK
    BY RequestTypes DEF Init, IdeTypeOK
  <2>3. EngineTypeOK
    <3>1. pending_events \in Seq(Event) /\ Len(pending_events) = 0
      BY EmptySeq DEF Init, EngineInit
    <3>2. cursor = 1
      BY DEF Init, EngineInit
    <3>3. cursor \in 1..(Len(pending_events) + 1)
      BY <3>1, <3>2
    <3> QED BY <3>1, <3>3 DEF Init, EngineInit, EngineTypeOK
  <2> QED BY <2>1, <2>2, <2>3 DEF Init, TypeOK
<1> QED
  BY <1>1 DEF Init, EngineInit, IInv, EndsTogether, RefreshWaits, Signalled,
              IdleMeansDrained, PromptWhenIdle

-----------------------------------------------------------------------------
(* How the two kinds of writes leave the evaluator.                         *)

\* eval() of the requests ms.
LEMMA AfterEval ==
  ASSUME IInv, NEW ms \in Seq(Request),
         Becomes(EvalAll(socket, busy, work_queue, ms), <<>>)
  PROVE  /\ busy' \in BOOLEAN
         /\ work_queue' \in Seq(Request)
         /\ toJulia' \in Seq(Request)
         /\ socket # "connected" => busy' = busy /\ toJulia' = toJulia
         /\ socket = "connected" =>
              Len(toJulia') = Len(toJulia) + IF busy' /\ ~busy THEN 1 ELSE 0
         /\ busy => busy'
         /\ socket = "connected" /\ ~busy' => ms = <<>> /\ work_queue' = work_queue
<1> DEFINE e == EvalAll(socket, busy, work_queue, ms)
<1>1. busy \in BOOLEAN /\ work_queue \in Seq(Request) /\ toJulia \in Seq(Request)
  BY DEF IInv, TypeOK, IdeTypeOK, WireTypeOK
<1>2. busy' = e.busy /\ work_queue' = e.queue /\ toJulia' = toJulia \o <<>> \o e.wrote
  BY DEF Becomes
<1>3. toJulia \o <<>> = toJulia
  BY <1>1, ConcatEmptySeq
<1>4. /\ e.busy \in BOOLEAN /\ e.queue \in Seq(Request) /\ e.wrote \in Seq(Request)
      /\ busy \/ socket # "connected" => e.busy = busy /\ e.wrote = <<>>
      /\ ~busy => Len(e.wrote) = IF e.busy THEN 1 ELSE 0
      /\ socket = "connected" /\ ~e.busy => ms = <<>> /\ e.queue = work_queue
  BY <1>1, EvalAllFacts
<1>5. toJulia' \in Seq(Request) /\ Len(toJulia') = Len(toJulia) + Len(e.wrote)
  BY <1>1, <1>2, <1>3, <1>4, Joined
<1>6. toJulia \o e.wrote = toJulia \/ e.wrote # <<>>
  BY <1>1, ConcatEmptySeq
<1> HIDE DEF e
<1>7. e.wrote = <<>> => Len(e.wrote) = 0
  BY EmptySeq
<1>8. Len(toJulia) \in Nat
  BY <1>1, LenProperties
<1> QED BY <1>1, <1>2, <1>3, <1>4, <1>5, <1>6, <1>7, <1>8

\* continueOrReady() after something may have been written already.
LEMMA AfterContinue ==
  ASSUME IInv, NEW q \in Seq(Request), NEW rs \in Seq(Request), NEW before \in Seq(Request),
         Becomes(ContinueOrReady(q, rs), before)
  PROVE  /\ busy' \in BOOLEAN
         /\ work_queue' \in Seq(Request)
         /\ toJulia' \in Seq(Request)
         /\ Len(toJulia') = Len(toJulia) + Len(before) + IF busy' THEN 1 ELSE 0
         /\ ~busy' => q = <<>> /\ rs = <<>> /\ work_queue' = <<>>
<1> DEFINE e == ContinueOrReady(q, rs)
<1>1. toJulia \in Seq(Request)
  BY DEF IInv, TypeOK, WireTypeOK
<1>2. busy' = e.busy /\ work_queue' = e.queue /\ toJulia' = toJulia \o before \o e.wrote
  BY DEF Becomes
<1>3. /\ e.busy \in BOOLEAN /\ e.queue \in Seq(Request) /\ e.wrote \in Seq(Request)
      /\ Len(e.wrote) = IF e.busy THEN 1 ELSE 0
      /\ ~e.busy => q = <<>> /\ rs = <<>> /\ e.queue = <<>>
  BY ContinueOrReadyFacts
<1> HIDE DEF e
<1>4. toJulia \o before \in Seq(Request) /\ Len(toJulia \o before) = Len(toJulia) + Len(before)
  BY <1>1, Joined
<1>5. toJulia' \in Seq(Request) /\ Len(toJulia') = Len(toJulia \o before) + Len(e.wrote)
  BY <1>2, <1>3, <1>4, Joined
<1> QED BY <1>2, <1>3, <1>4, <1>5

-----------------------------------------------------------------------------
(* Every step preserves the invariant.                                      *)

\* A step that leaves the wire's other variables and the engine alone keeps their
\* types and what is said of them.
LEMMA IdeStep ==
  ASSUME IInv, UNCHANGED <<engineVars, resets, process>>,
         stdout' \in Seq({"PORT", "text"}), toJulia' \in Seq(Request), fromJulia' \in Seq(Piece),
         IdeTypeOK', console_busy' \in BOOLEAN, refreshOnReady' \in BOOLEAN,
         socket' = "closed" => process = "dead",
         RefreshWaits', IdleMeansDrained', PromptWhenIdle'
  PROVE  IInv'
<1>1. WireTypeOK'
  BY DEF IInv, TypeOK, WireTypeOK
<1>2. EngineTypeOK' /\ resets' \in Nat
  <2>1. /\ engine' = engine /\ pending_events' = pending_events /\ cursor' = cursor
        /\ event_signal' = event_signal /\ julia_dir' = julia_dir
        /\ moved_by_code' = moved_by_code /\ resets' = resets
    BY DEF engineVars
  <2>2. EngineTypeOK /\ resets \in Nat
    BY DEF IInv, TypeOK
  <2>3. cursor' \in 1..(Len(pending_events') + 1)
    BY <2>1, <2>2 DEF EngineTypeOK
  <2> QED BY <2>1, <2>2, <2>3 DEF EngineTypeOK
<1>3. TypeOK'
  BY <1>1, <1>2 DEF TypeOK
<1>4. EndsTogether' /\ Signalled'
  BY DEF IInv, EndsTogether, Signalled, engineVars
<1> QED BY <1>3, <1>4 DEF IInv

\* The user's actions but for the reset: eval() of some requests, and what the
\* console shows.
LEMMA EvalStep ==
  ASSUME IInv, NEW ms \in Seq(Request), Becomes(EvalAll(socket, busy, work_queue, ms), <<>>),
         UNCHANGED <<engineVars, resets, process, stdout, fromJulia, socket>>,
         curr_working_dir' \in Dirs \union {NoDir},
         \/ UNCHANGED <<console_busy, refreshOnReady>>
         \/ console_busy' = TRUE /\ refreshOnReady' = refreshOnReady /\ ms # <<>>
         \/ console_busy' = FALSE /\ refreshOnReady' = FALSE
  PROVE  IInv'
<1>1. /\ busy' \in BOOLEAN /\ work_queue' \in Seq(Request) /\ toJulia' \in Seq(Request)
      /\ busy => busy'
      /\ socket = "connected" /\ ~busy' => ms = <<>> /\ work_queue' = work_queue
  BY AfterEval
<1>2. stdout' \in Seq({"PORT", "text"}) /\ fromJulia' \in Seq(Piece)
  BY DEF IInv, TypeOK, WireTypeOK
<1>3. IdeTypeOK'
  BY <1>1 DEF IInv, TypeOK, IdeTypeOK
<1>4. console_busy' \in BOOLEAN /\ refreshOnReady' \in BOOLEAN /\ RefreshWaits'
  <2>1. console_busy \in BOOLEAN /\ refreshOnReady \in BOOLEAN /\ RefreshWaits
    BY DEF IInv, TypeOK
  <2>2. CASE console_busy' = console_busy /\ refreshOnReady' = refreshOnReady
    BY <2>1, <2>2 DEF RefreshWaits
  <2>3. CASE console_busy' = TRUE /\ refreshOnReady' = refreshOnReady
    BY <2>1, <2>3 DEF RefreshWaits
  <2>4. CASE console_busy' = FALSE /\ refreshOnReady' = FALSE
    BY <2>4 DEF RefreshWaits
  <2> QED BY <2>2, <2>3, <2>4
<1>5. IdleMeansDrained'
  BY <1>1 DEF IInv, TypeOK, IdeTypeOK, IdleMeansDrained
<1>6. PromptWhenIdle'
  BY <1>1 DEF IInv, TypeOK, IdeTypeOK, PromptWhenIdle
<1>7. socket' = "closed" => process = "dead"
  BY DEF IInv, EndsTogether
<1> QED BY <1>1, <1>2, <1>3, <1>4, <1>5, <1>6, <1>7, IdeStep

LEMMA UserStep == IInv /\ User => IInv'
<1> SUFFICES ASSUME IInv, User PROVE IInv'
  OBVIOUS
<1>0. curr_working_dir \in Dirs \union {NoDir}
  BY DEF IInv, TypeOK, IdeTypeOK
<1>1. CASE ConsoleEval
  <2>1. PICK ms \in ConsoleWork : Eval(ms)
    BY <1>1 DEF ConsoleEval
  <2>2. ms \in Seq(Request) /\ ms # <<>>
    BY SessionAssumption
  <2> QED BY <1>0, <1>1, <2>1, <2>2, EvalStep DEF ConsoleEval, Eval
<1>2. CASE OtherEval
  <2>1. PICK ms \in OtherWork : Eval(ms)
    BY <1>2 DEF OtherEval
  <2>2. ms \in Seq(Request)
    BY SessionAssumption
  <2> QED BY <1>0, <1>2, <2>1, <2>2, EvalStep DEF OtherEval, Eval, sessionVars
<1>3. CASE CurrEditorChanged
  <2>1. PICK d \in Dirs : SetWorkingDir(d)
    BY <1>3 DEF CurrEditorChanged
  <2>2. <<DirMsg(d)>> \in Seq(Request)
    BY RequestTypes, Singleton
  <2> QED BY <1>3, <2>1, <2>2, EvalStep DEF CurrEditorChanged, SetWorkingDir, sessionVars
<1>4. CASE ClearConsole
  <2>1. (IF refreshOnReady THEN PackageLists ELSE <<>>) \in Seq(Request)
    BY RequestTypes, EmptySeq
  <2> QED BY <1>0, <1>4, <2>1, EvalStep DEF ClearConsole, Eval
<1>5. CASE ResetConsole
  <2>1. WireTypeOK' /\ IdeTypeOK'
    BY <1>0, <1>5, EmptySeq DEF ResetConsole, Reset, WireTypeOK, IdeTypeOK
  <2>2. EngineTypeOK'
    <3>1. pending_events' \in Seq(Event) /\ Len(pending_events') = 0 /\ cursor' = 1
      BY <1>5, EmptySeq DEF ResetConsole, EngineRestart
    <3>2. cursor' \in 1..(Len(pending_events') + 1)
      BY <3>1
    <3> QED BY <1>5, <3>1, <3>2 DEF ResetConsole, EngineRestart, EngineTypeOK
  <2>3. TypeOK'
    BY <1>5, <2>1, <2>2 DEF IInv, TypeOK, ResetConsole
  <2>4. EndsTogether' /\ RefreshWaits' /\ Signalled' /\ IdleMeansDrained' /\ PromptWhenIdle'
    BY <1>5 DEF ResetConsole, Reset, EngineRestart, EndsTogether, RefreshWaits, Signalled,
                IdleMeansDrained, PromptWhenIdle
  <2> QED BY <2>3, <2>4 DEF IInv
<1> QED BY <1>1, <1>2, <1>3, <1>4, <1>5 DEF User

\* A step of ready(), emitted or not: a console that shows a prompt waits for
\* nothing, and one that gets it now has everything evaluated that waited for it.
LEMMA ReadyStep ==
  ASSUME IInv, NEW q \in Seq(Request), NEW before \in Seq(Request),
         Becomes(ContinueOrReady(q, OnReady), before), AfterReady(q = <<>>),
         socket' = "connected",
         UNCHANGED <<engineVars, resets, process, stdout, curr_working_dir>>,
         fromJulia' \in Seq(Piece)
  PROVE  IInv'
<1>1. OnReady \in Seq(Request) /\ PackageLists # <<>>
  BY RequestTypes
<1>2. /\ busy' \in BOOLEAN /\ work_queue' \in Seq(Request) /\ toJulia' \in Seq(Request)
      /\ ~busy' => q = <<>> /\ OnReady = <<>> /\ work_queue' = <<>>
  BY <1>1, AfterContinue
<1>3. console_busy \in BOOLEAN /\ refreshOnReady \in BOOLEAN /\ RefreshWaits
  BY DEF IInv, TypeOK
<1>4. stdout' \in Seq({"PORT", "text"}) /\ IdeTypeOK'
  BY <1>2 DEF IInv, TypeOK, WireTypeOK, IdeTypeOK
<1>5. CASE q # <<>>
  <2>1. console_busy' = console_busy /\ refreshOnReady' = refreshOnReady
    BY <1>3, <1>5 DEF AfterReady
  <2>2. console_busy' \in BOOLEAN /\ refreshOnReady' \in BOOLEAN /\ RefreshWaits'
    BY <1>3, <2>1 DEF RefreshWaits
  <2>3. IdleMeansDrained' /\ PromptWhenIdle'
    BY <1>2, <1>5 DEF IdleMeansDrained, PromptWhenIdle
  <2> QED BY <1>2, <1>4, <2>2, <2>3, IdeStep
<1>6. CASE q = <<>>
  <2>1. console_busy' = FALSE /\ refreshOnReady' = FALSE
    <3>1. console_busy' = FALSE /\ refreshOnReady' = (refreshOnReady /\ ~console_busy)
      BY <1>3, <1>6 DEF AfterReady
    <3>2. ~(refreshOnReady /\ ~console_busy)
      BY <1>3 DEF RefreshWaits
    <3> QED BY <3>1, <3>2
  <2>2. console_busy' \in BOOLEAN /\ refreshOnReady' \in BOOLEAN /\ RefreshWaits'
    BY <2>1 DEF RefreshWaits
  <2>3. IdleMeansDrained' /\ PromptWhenIdle'
    BY <1>2, <2>1 DEF IdleMeansDrained, PromptWhenIdle
  <2> QED BY <1>2, <1>4, <2>2, <2>3, IdeStep
<1> QED BY <1>5, <1>6

LEMMA IdeSteps == IInv /\ Ide => IInv'
<1> SUFFICES ASSUME IInv, Ide PROVE IInv'
  OBVIOUS
<1>0. WireTypeOK /\ IdeTypeOK /\ console_busy \in BOOLEAN /\ refreshOnReady \in BOOLEAN
  BY DEF IInv, TypeOK
<1>1. CASE ReadStdout
  <2>1. PICK k \in 1..Len(stdout) : OnProcessStdout(k)
    BY <1>1 DEF ReadStdout
  <2>2. /\ UNCHANGED <<engineVars, sessionVars>>
        /\ UNCHANGED <<busy, work_queue, curr_working_dir, process, toJulia, fromJulia>>
        /\ socket' = socket \/ socket' = "connecting"
    BY <1>1, <2>1 DEF ReadStdout, OnProcessStdout
  <2>3. stdout' \in Seq({"PORT", "text"})
    <3>1. stdout \in Seq({"PORT", "text"}) /\ Len(stdout) \in Nat
      BY <1>0, LenProperties DEF WireTypeOK
    <3>2. stdout' = SubSeq(stdout, k + 1, Len(stdout))
      BY <2>1 DEF OnProcessStdout
    <3>3. \A i \in (k + 1)..Len(stdout) : stdout[i] \in {"PORT", "text"}
      BY <3>1, <2>1, ElementOfSeq
    <3> QED BY <3>1, <3>2, <3>3, SubSeqProperties
  <2>4. IdeTypeOK' /\ toJulia' \in Seq(Request) /\ fromJulia' \in Seq(Piece)
    BY <1>0, <2>2 DEF IdeTypeOK, WireTypeOK
  <2>5. console_busy' \in BOOLEAN /\ refreshOnReady' \in BOOLEAN /\ RefreshWaits'
    BY <1>0, <2>2 DEF IInv, RefreshWaits, sessionVars
  <2>6. IdleMeansDrained' /\ PromptWhenIdle'
    BY <2>2 DEF IInv, IdleMeansDrained, PromptWhenIdle, sessionVars
  <2>7. socket' = "closed" => process = "dead"
    BY <2>2 DEF IInv, EndsTogether
  <2> QED BY <2>2, <2>3, <2>4, <2>5, <2>6, <2>7, IdeStep DEF sessionVars
<1>2. CASE SocketConnected
  <2>1. /\ UNCHANGED <<engineVars, resets, curr_working_dir, process, stdout, fromJulia>>
        /\ socket' = "connected" /\ fromJulia' \in Seq(Piece)
        /\ AfterReady(curr_working_dir = NoDir /\ work_queue = <<>>)
    BY <1>0, <1>2 DEF SocketConnected, OnSocketConnected, WireTypeOK
  <2>2. <<>> \in Seq(Request) /\ work_queue \in Seq(Request)
    BY <1>0, EmptySeq DEF IdeTypeOK
  <2>3. CASE curr_working_dir = NoDir
    <3>1. Becomes(ContinueOrReady(work_queue, OnReady), <<>>)
      BY <1>2, <2>3 DEF SocketConnected, OnSocketConnected
    <3>2. AfterReady(work_queue = <<>>)
      BY <2>1, <2>3
    <3> QED BY <2>1, <2>2, <3>1, <3>2, ReadyStep
  <2>4. CASE curr_working_dir # NoDir
    <3> DEFINE e(ms) == EvalAll("connected", busy, work_queue, ms)
    <3>1. PICK ms \in Seq(Request) : ms = <<DirMsg(curr_working_dir)>> /\ ms # <<>>
      BY <1>0, <2>4, RequestTypes, Singleton DEF IdeTypeOK
    <3>2. Becomes(e(ms), <<>>)
      BY <1>2, <2>4, <3>1 DEF SocketConnected, OnSocketConnected
    <3>3. /\ busy' = e(ms).busy /\ work_queue' = e(ms).queue
          /\ toJulia' = toJulia \o <<>> \o e(ms).wrote
          /\ busy \in BOOLEAN /\ toJulia \in Seq(Request)
      BY <1>0, <3>2 DEF Becomes, IdeTypeOK, WireTypeOK
    <3>4. e(ms).busy \in BOOLEAN /\ e(ms).queue \in Seq(Request) /\ e(ms).wrote \in Seq(Request)
      BY <2>2, <3>1, <3>3, EvalAllFacts
    <3>5. e(ms).busy = TRUE
      BY <3>1, <3>3 DEF EvalAll
    <3> HIDE DEF e
    <3>6. toJulia' \in Seq(Request)
      BY <2>2, <3>3, <3>4, Joined
    <3>7. busy' = TRUE
      BY <3>3, <3>5
    <3>8. console_busy' = console_busy /\ refreshOnReady' = refreshOnReady
      BY <1>0, <2>1, <2>4 DEF AfterReady
    <3>9. console_busy' \in BOOLEAN /\ refreshOnReady' \in BOOLEAN /\ RefreshWaits'
      BY <1>0, <3>8 DEF IInv, RefreshWaits
    <3>10. IdleMeansDrained' /\ PromptWhenIdle'
      BY <3>7 DEF IdleMeansDrained, PromptWhenIdle
    <3>11. IdeTypeOK' /\ stdout' \in Seq({"PORT", "text"})
      BY <1>0, <2>1, <3>3, <3>4 DEF IdeTypeOK, WireTypeOK
    <3> QED BY <2>1, <3>6, <3>9, <3>10, <3>11, IdeStep
  <2> QED BY <2>3, <2>4
<1>3. CASE SocketOutput
  <2> DEFINE FollowUpsOf(k) ==
               IF IsDocument(SubSeq(fromJulia, 1, k))
               THEN FollowUps(SubSeq(fromJulia, 1, k)[1].reply) ELSE <<>>
             EvalIn(k) == EvalAll("connected", busy, work_queue, FollowUpsOf(k))
  <2>1. PICK k \in 1..Len(fromJulia) :
          /\ OnSocketOutput(k, FollowUpsOf(k), OnReady)
          /\ AfterReady(EvalAll(socket, busy, work_queue, FollowUpsOf(k)).queue = <<>>)
          /\ UNCHANGED <<engineVars, resets>>
    BY <1>3 DEF SocketOutput
  <2>2. /\ socket = "connected"
        /\ UNCHANGED <<socket, curr_working_dir, process, stdout>>
        /\ fromJulia' = SubSeq(fromJulia, k + 1, Len(fromJulia))
        /\ Becomes(ContinueOrReady(EvalIn(k).queue, OnReady), EvalIn(k).wrote)
    BY <2>1 DEF OnSocketOutput
  <2>3. FollowUpsOf(k) \in Seq(Request)
    BY RequestTypes, EmptySeq
  <2>4. EvalIn(k).queue \in Seq(Request) /\ EvalIn(k).wrote \in Seq(Request)
    <3>1. PICK ms \in Seq(Request) : ms = FollowUpsOf(k)
      BY <2>3
    <3>2. busy \in BOOLEAN /\ work_queue \in Seq(Request)
      BY <1>0 DEF IdeTypeOK
    <3> HIDE DEF FollowUpsOf
    <3>3. /\ EvalAll("connected", busy, work_queue, ms).queue \in Seq(Request)
          /\ EvalAll("connected", busy, work_queue, ms).wrote \in Seq(Request)
      BY <3>2, EvalAllFacts
    <3> QED BY <3>1, <3>3
  <2>5. AfterReady(EvalIn(k).queue = <<>>)
    BY <2>1, <2>2
  <2>6. fromJulia' \in Seq(Piece)
    <3>1. fromJulia \in Seq(Piece) /\ Len(fromJulia) \in Nat
      BY <1>0, LenProperties DEF WireTypeOK
    <3>2. \A i \in (k + 1)..Len(fromJulia) : fromJulia[i] \in Piece
      BY <3>1, <2>1, ElementOfSeq
    <3> QED BY <3>1, <3>2, <2>2, SubSeqProperties
  <2> HIDE DEF EvalIn
  <2> QED BY <2>1, <2>2, <2>4, <2>5, <2>6, ReadyStep
<1>4. CASE SocketClosed
  <2>1. /\ UNCHANGED <<engineVars, sessionVars, busy, work_queue, curr_working_dir, wireVars>>
        /\ socket' = "closed" /\ process = "dead"
    BY <1>4 DEF SocketClosed, OnSocketClosed
  <2>2. /\ stdout' \in Seq({"PORT", "text"}) /\ toJulia' \in Seq(Request)
        /\ fromJulia' \in Seq(Piece) /\ IdeTypeOK' /\ process' = process
    BY <1>0, <2>1 DEF WireTypeOK, IdeTypeOK, wireVars
  <2>3. console_busy' \in BOOLEAN /\ refreshOnReady' \in BOOLEAN /\ RefreshWaits'
    BY <1>0, <2>1 DEF IInv, RefreshWaits, sessionVars
  <2>4. IdleMeansDrained' /\ PromptWhenIdle'
    BY <2>1 DEF IdleMeansDrained, PromptWhenIdle
  <2> QED BY <2>1, <2>2, <2>3, <2>4, IdeStep DEF sessionVars
<1> QED BY <1>1, <1>2, <1>3, <1>4 DEF Ide

\* A step of Julia disturbs only the wire and the engine.
LEMMA EngineStep ==
  ASSUME IInv, UNCHANGED <<ideVars, sessionVars>>,
         WireTypeOK', EngineTypeOK', process' = process \/ process' = "dead",
         process' = "dead" <=> engine' = "down", Signalled'
  PROVE  IInv'
<1>1. UNCHANGED <<socket, busy, work_queue, curr_working_dir, console_busy, refreshOnReady, resets>>
  BY DEF ideVars, sessionVars
<1>2. IdeTypeOK /\ console_busy \in BOOLEAN /\ refreshOnReady \in BOOLEAN /\ resets \in Nat
  BY DEF IInv, TypeOK
<1>3. TypeOK'
  BY <1>1, <1>2 DEF TypeOK, IdeTypeOK
<1>4. EndsTogether'
  BY <1>1 DEF IInv, EndsTogether
<1>5. RefreshWaits'
  BY <1>1 DEF IInv, RefreshWaits
<1>6. IdleMeansDrained' /\ PromptWhenIdle'
  BY <1>1 DEF IInv, IdleMeansDrained, PromptWhenIdle
<1> QED BY <1>3, <1>4, <1>5, <1>6 DEF IInv

\* new_event keeps the events an array and the loop's position in it.
LEMMA NewEventTyping ==
  ASSUME EngineTypeOK, NEW e \in Event, NewEvent(e)
  PROVE  /\ pending_events' \in Seq(Event)
         /\ Len(pending_events') = Len(pending_events) + 1
         /\ event_signal' = TRUE
BY AppendProperties DEF EngineTypeOK, NewEvent

\* Julia's end leaves the types, and no event.
LEMMA DieStep ==
  ASSUME IInv, Die, UNCHANGED <<ideVars, sessionVars>>
  PROVE  IInv'
<1>0. WireTypeOK /\ EngineTypeOK
  BY DEF IInv, TypeOK
<1>1. /\ process' = "dead" /\ engine' = "down" /\ pending_events' = <<>> /\ cursor' = 1
      /\ event_signal' = FALSE /\ UNCHANGED <<julia_dir, moved_by_code, stdout, toJulia>>
  BY DEF Die
<1>2. fromJulia' \in Seq(Piece)
  <2>1. PICK n \in 0..Len(fromJulia) : fromJulia' = SubSeq(fromJulia, 1, n)
    BY DEF Die
  <2>2. fromJulia \in Seq(Piece) /\ Len(fromJulia) \in Nat
    BY <1>0, LenProperties DEF WireTypeOK
  <2>3. \A i \in 1..n : fromJulia[i] \in Piece
    BY <2>1, <2>2, ElementOfSeq
  <2> QED BY <2>1, <2>2, <2>3, SubSeqProperties
<1>3. WireTypeOK'
  BY <1>0, <1>1, <1>2 DEF WireTypeOK
<1>4. EngineTypeOK'
  <2>1. pending_events' \in Seq(Event) /\ Len(pending_events') = 0
    BY <1>1, EmptySeq
  <2>2. cursor' \in 1..(Len(pending_events') + 1)
    BY <1>1, <2>1
  <2> QED BY <1>0, <1>1, <2>1, <2>2 DEF EngineTypeOK
<1> QED BY <1>1, <1>3, <1>4, EngineStep DEF Signalled

LEMMA EngineSteps == IInv /\ Engine => IInv'
<1> SUFFICES ASSUME IInv, Engine PROVE IInv'
  OBVIOUS
<1>0. /\ WireTypeOK /\ EngineTypeOK /\ UNCHANGED <<ideVars, sessionVars>>
      /\ process = "dead" <=> engine = "down"
      /\ Signalled /\ Len(pending_events) \in Nat
  BY LenProperties DEF Engine, IInv, TypeOK, EngineTypeOK, EndsTogether
<1>1. CASE AcceptOneOn
  <2>1. /\ UNCHANGED <<pending_events, cursor, event_signal, julia_dir, moved_by_code,
                     process, toJulia, fromJulia>>
        /\ engine = "boot" /\ engine' = "init" /\ stdout' = Append(stdout, "PORT")
    BY <1>1 DEF AcceptOneOn
  <2>2. WireTypeOK'
    BY <1>0, <2>1, AppendProperties DEF WireTypeOK
  <2>3. EngineTypeOK'
    BY <1>0, <2>1 DEF EngineTypeOK
  <2> QED BY <1>0, <2>1, <2>2, <2>3, EngineStep DEF Signalled
<1>2. CASE Initialize
  <2>1. /\ UNCHANGED <<pending_events, cursor, event_signal, julia_dir, moved_by_code,
                     process, toJulia, fromJulia>>
        /\ engine = "init" /\ engine' = "wait"
    BY <1>2 DEF Initialize
  <2>2. PICK out \in InitOutput : stdout' = stdout \o out
    BY <1>2 DEF Initialize
  <2>3. <<>> \in Seq({"PORT", "text"}) /\ <<"text">> \in Seq({"PORT", "text"})
    BY EmptySeq, Singleton
  <2>4. out \in Seq({"PORT", "text"})
    BY <2>3, EngineAssumption
  <2>5. WireTypeOK'
    BY <1>0, <2>1, <2>2, <2>4, ConcatProperties DEF WireTypeOK
  <2>6. EngineTypeOK'
    BY <1>0, <2>1 DEF EngineTypeOK
  <2> QED BY <1>0, <2>1, <2>5, <2>6, EngineStep DEF Signalled
<1>3. CASE ProcessIncoming
  <2>1. /\ UNCHANGED <<engine, cursor, julia_dir, moved_by_code, process, stdout, fromJulia>>
        /\ toJulia # <<>> /\ toJulia' = Tail(toJulia) /\ NewEvent(NetworkIn(Head(toJulia)))
    BY <1>3 DEF ProcessIncoming
  <2>2. Head(toJulia) \in Request /\ toJulia' \in Seq(Request)
    BY <1>0, <2>1, HeadTailProperties DEF WireTypeOK
  <2>3. NetworkIn(Head(toJulia)) \in Event
    BY <2>2 DEF NetworkIn, Event
  <2>4. /\ pending_events' \in Seq(Event) /\ Len(pending_events') = Len(pending_events) + 1
        /\ event_signal' = TRUE
    BY <1>0, <2>1, <2>3, NewEventTyping
  <2>5. WireTypeOK'
    BY <1>0, <2>1, <2>2 DEF WireTypeOK
  <2>6. EngineTypeOK'
    BY <1>0, <2>1, <2>4 DEF EngineTypeOK
  <2> QED BY <1>0, <2>1, <2>4, <2>5, <2>6, EngineStep DEF Signalled
<1>4. CASE EventLoop
  <2>1. /\ UNCHANGED <<pending_events, cursor, julia_dir, moved_by_code,
                     process, stdout, toJulia, fromJulia>>
        /\ engine = "wait" /\ engine' = "dispatch" /\ event_signal' = FALSE
    BY <1>4 DEF EventLoop, wireVars
  <2>2. WireTypeOK' /\ EngineTypeOK'
    BY <1>0, <2>1 DEF WireTypeOK, EngineTypeOK
  <2> QED BY <1>0, <2>1, <2>2, EngineStep DEF Signalled
<1>5. CASE HandleInput
  <2> DEFINE r == pending_events[cursor].msg
  <2>1. /\ engine = "dispatch" /\ cursor <= Len(pending_events)
        /\ pending_events[cursor].name = "networkIn"
        /\ UNCHANGED <<engine, process, stdout, toJulia, fromJulia>> /\ cursor' = cursor + 1
    BY <1>5 DEF HandleInput, Taking, wireVars
  <2>2. PICK rep \in RepliesTo(r) : NewEvent(NetworkOut(rep))
    BY <1>5 DEF HandleInput
  <2>3. cursor \in 1..Len(pending_events)
    BY <1>0, <2>1 DEF EngineTypeOK
  <2>4. pending_events[cursor] \in Event
    BY <1>0, <2>3, ElementOfSeq DEF EngineTypeOK
  <2>5. r \in Request
    BY <2>1, <2>4 DEF Event
  <2>6. NetworkOut(rep) \in Event
    BY <2>2, <2>5, ReplyTyping DEF NetworkOut, Event
  <2>7. /\ pending_events' \in Seq(Event) /\ Len(pending_events') = Len(pending_events) + 1
        /\ event_signal' = TRUE
    BY <1>0, <2>2, <2>6, NewEventTyping
  <2>8. julia_dir' \in Dirs \union {NoDir} /\ moved_by_code' \in BOOLEAN
    <3>1. r.typnam = "dir" => r.arg \in Dirs
      BY <2>5 DEF Request
    <3>2. julia_dir \in Dirs \union {NoDir} /\ moved_by_code \in BOOLEAN
      BY <1>0 DEF EngineTypeOK
    <3>3. ChangeDir(r)
      BY <1>5 DEF HandleInput
    <3> HIDE DEF r
    <3> QED BY <3>1, <3>2, <3>3 DEF ChangeDir
  <2>9. WireTypeOK' /\ EngineTypeOK'
    BY <1>0, <2>1, <2>3, <2>7, <2>8 DEF WireTypeOK, EngineTypeOK
  <2> QED BY <1>0, <2>1, <2>7, <2>9, EngineStep DEF Signalled
<1>6. CASE EngineCallback
  <2> DEFINE rep == pending_events[cursor].msg
  <2>1. /\ engine = "dispatch" /\ cursor <= Len(pending_events)
        /\ pending_events[cursor].name = "networkOut"
        /\ UNCHANGED <<engine, pending_events, event_signal, julia_dir, moved_by_code,
                     process, stdout, toJulia>>
        /\ cursor' = cursor + 1
    BY <1>6 DEF EngineCallback, Taking
  <2>2. PICK n \in {1, 2} : fromJulia' = fromJulia \o Pieces(rep, n)
    BY <1>6 DEF EngineCallback
  <2>3. cursor \in 1..Len(pending_events)
    BY <1>0, <2>1 DEF EngineTypeOK
  <2>4. rep \in Reply
    <3>1. pending_events[cursor] \in Event
      BY <1>0, <2>3, ElementOfSeq DEF EngineTypeOK
    <3> QED BY <2>1, <3>1 DEF Event
  <2>5. fromJulia' \in Seq(Piece)
    BY <1>0, <2>2, <2>4, ReplyTyping, ConcatProperties DEF WireTypeOK
  <2>6. WireTypeOK' /\ EngineTypeOK'
    BY <1>0, <2>1, <2>3, <2>5 DEF WireTypeOK, EngineTypeOK
  <2> QED BY <1>0, <2>1, <2>6, EngineStep DEF Signalled
<1>7. CASE HandledAll
  <2>1. /\ UNCHANGED <<julia_dir, moved_by_code, process, stdout, toJulia, fromJulia>>
        /\ engine = "dispatch" /\ engine' = "wait" /\ event_signal' = FALSE
        /\ pending_events' = <<>> /\ cursor' = 1
    BY <1>7 DEF HandledAll, wireVars
  <2>2. pending_events' \in Seq(Event) /\ Len(pending_events') = 0
    BY <2>1, EmptySeq
  <2>3. cursor' \in 1..(Len(pending_events') + 1)
    BY <2>1, <2>2
  <2>4. WireTypeOK' /\ EngineTypeOK'
    BY <1>0, <2>1, <2>2, <2>3 DEF WireTypeOK, EngineTypeOK
  <2> QED BY <1>0, <2>1, <2>4, EngineStep DEF Signalled
<1>8. CASE HandlerThrows
  BY <1>0, <1>8, DieStep DEF HandlerThrows
<1>9. CASE Crash
  BY <1>0, <1>9, DieStep DEF Crash
<1> QED BY <1>1, <1>2, <1>3, <1>4, <1>5, <1>6, <1>7, <1>8, <1>9 DEF Engine

LEMMA StepIInv == IInv /\ [Next]_vars => IInv'
<1> SUFFICES ASSUME IInv, [Next]_vars PROVE IInv'
  OBVIOUS
<1>1. CASE Next
  BY <1>1, UserStep, IdeSteps, EngineSteps DEF Next
<1>2. CASE UNCHANGED vars
  BY <1>2 DEF vars, wireVars, ideVars, engineVars, sessionVars, IInv, TypeOK, WireTypeOK,
              IdeTypeOK, EngineTypeOK, EndsTogether, RefreshWaits, Signalled,
              IdleMeansDrained, PromptWhenIdle
<1> QED BY <1>1, <1>2

-----------------------------------------------------------------------------
(* The theorems.                                                            *)

\* The conjunction is an invariant of every session, whatever its panes, its
\* directories, the replies that come in pieces and the handlers that throw.
THEOREM Inductive == Spec => []IInv
<1>1. Init => IInv
  BY InitIInv
<1>2. IInv /\ [Next]_vars => IInv'
  BY StepIInv
<1> QED BY <1>1, <1>2, PTL DEF Spec

\* Every variable of the wire, the evaluator, the engine and the session has its
\* type; the position of handle_pending_events never leaves the array.
THEOREM TypeCorrect == Spec => []TypeOK
<1>1. IInv => TypeOK
  BY DEF IInv
<1> QED BY <1>1, Inductive, PTL

\* The evaluator never rests, connected and idle, on queued requests
\* (localtcpevaluator.cpp eval, continueOrReady).
THEOREM QueueIsDrained == Spec => []IdleMeansDrained
<1>1. IInv => IdleMeansDrained
  BY DEF IInv
<1> QED BY <1>1, Inductive, PTL

\* An idle evaluator has left a prompt in the console, and no reset's refresh of the
\* package lists has been forgotten.
THEOREM PromptIsShown == Spec => []PromptWhenIdle
<1>1. IInv => PromptWhenIdle
  BY DEF IInv
<1> QED BY <1>1, Inductive, PTL

\* The event loop never sleeps on an event (event.jl new_event, handle_pending_events).
THEOREM WakeupIsNotLost == Spec => []NoLostWakeup
<1>1. IInv => NoLostWakeup
  BY DEF IInv, Signalled, NoLostWakeup
<1> QED BY <1>1, Inductive, PTL

-----------------------------------------------------------------------------
\* The two sides of the socket agree on whose turn it is: as long as no reply comes in
\* pieces, one request or its reply is under way exactly when the evaluator is busy.  What
\* makes this inductive: before the connection the evaluator is not busy.
NotBusyBefore == process = "alive" /\ socket # "connected" => ~busy

TurnInv == IInv /\ NotBusyBefore /\ OneOutstanding

\* The lengths InFlight adds up.
LEMMA Lengths ==
  ASSUME IInv
  PROVE  /\ Len(toJulia) \in Nat /\ Len(fromJulia) \in Nat
         /\ Len(pending_events) + 1 - cursor \in Nat
         /\ Len(pending_events) \in Nat /\ cursor \in Nat
         /\ busy \in BOOLEAN
<1>1. WireTypeOK /\ EngineTypeOK /\ IdeTypeOK
  BY DEF IInv, TypeOK
<1>2. Len(toJulia) \in Nat /\ Len(fromJulia) \in Nat /\ Len(pending_events) \in Nat
  BY <1>1, LenProperties DEF WireTypeOK, EngineTypeOK
<1> QED BY <1>1, <1>2 DEF EngineTypeOK, IdeTypeOK

\* An event put into the array makes it one longer.
LEMMA NewEventOnTop ==
  ASSUME EngineTypeOK, NEW e
  PROVE  Len(Append(pending_events, e)) = Len(pending_events) + 1
BY DEF EngineTypeOK

LEMMA InitTurn == Init => TurnInv
<1> SUFFICES ASSUME Init PROVE TurnInv
  OBVIOUS
<1>1. Len(toJulia) = 0 /\ Len(fromJulia) = 0 /\ Len(pending_events) = 0 /\ cursor = 1
  BY EmptySeq DEF Init, EngineInit
<1>2. InFlight = 0
  BY <1>1 DEF InFlight
<1>3. socket = "null" /\ busy = FALSE
  BY DEF Init
<1>4. NotBusyBefore /\ OneOutstanding
  BY <1>2, <1>3 DEF NotBusyBefore, OneOutstanding
<1> QED BY <1>4, InitIInv DEF TurnInv

-----------------------------------------------------------------------------
\* A request that is evaluated while it is Julia's turn, or before the connection,
\* is queued; otherwise it is written and it becomes Julia's turn.
LEMMA EvalTurn ==
  ASSUME TurnInv, NEW ms \in Seq(Request), Becomes(EvalAll(socket, busy, work_queue, ms), <<>>),
         UNCHANGED <<engineVars, process, fromJulia, socket>>
  PROVE  NotBusyBefore' /\ OneOutstanding'
<1>0. IInv /\ NotBusyBefore /\ OneOutstanding
  BY DEF TurnInv
<1>1. /\ busy' \in BOOLEAN
      /\ socket # "connected" => busy' = busy /\ toJulia' = toJulia
      /\ socket = "connected" => Len(toJulia') = Len(toJulia) + IF busy' /\ ~busy THEN 1 ELSE 0
      /\ busy => busy'
  BY <1>0, AfterEval
<1>2. /\ Len(pending_events') + 1 - cursor' = Len(pending_events) + 1 - cursor
      /\ Len(fromJulia') = Len(fromJulia) /\ process' = process /\ socket' = socket
  BY DEF engineVars
<1>3. NotBusyBefore'
  <2>1. socket # "connected" => busy' = busy
    BY <1>1
  <2>2. process = "alive" /\ socket # "connected" => ~busy
    BY <1>0 DEF NotBusyBefore
  <2>3. process' = process /\ socket' = socket
    BY <1>2
  <2> QED BY <2>1, <2>2, <2>3 DEF NotBusyBefore
<1>4. CASE socket # "connected"
  <2>1. InFlight' = InFlight
    BY <1>1, <1>2, <1>4 DEF InFlight
  <2>2. process = "alive" => InFlight = 0
    BY <1>0, <1>4 DEF OneOutstanding
  <2> QED BY <1>2, <1>3, <1>4, <2>1, <2>2 DEF OneOutstanding
<1>5. CASE socket = "connected"
  <2>1. Len(toJulia') = Len(toJulia) + IF busy' /\ ~busy THEN 1 ELSE 0
    BY <1>1, <1>5
  <2>2. InFlight' = InFlight + IF busy' /\ ~busy THEN 1 ELSE 0
    BY <1>0, <1>2, <2>1, Lengths DEF InFlight
  <2>3. CASE busy
    <3>1. busy' = TRUE /\ InFlight' = InFlight + 0
      BY <1>1, <2>2, <2>3
    <3>2. process = "alive" => InFlight = 1
      BY <1>0, <1>5, <2>3 DEF OneOutstanding
    <3> QED BY <1>2, <1>3, <1>5, <3>1, <3>2 DEF OneOutstanding
  <2>4. CASE ~busy
    <3>1. InFlight' = InFlight + IF busy' THEN 1 ELSE 0
      BY <2>2, <2>4
    <3>2. process = "alive" => InFlight = 0
      BY <1>0, <1>5, <2>4 DEF OneOutstanding
    <3> QED BY <1>1, <1>2, <1>3, <1>5, <3>1, <3>2 DEF OneOutstanding
  <2> QED BY <2>3, <2>4
<1> QED BY <1>3, <1>4, <1>5

LEMMA UserTurn == TurnInv /\ User => NotBusyBefore' /\ OneOutstanding'
<1> SUFFICES ASSUME TurnInv, User PROVE NotBusyBefore' /\ OneOutstanding'
  OBVIOUS
<1>1. CASE ConsoleEval
  <2>1. PICK ms \in ConsoleWork : Eval(ms)
    BY <1>1 DEF ConsoleEval
  <2>2. ms \in Seq(Request)
    BY SessionAssumption
  <2> QED BY <1>1, <2>1, <2>2, EvalTurn DEF ConsoleEval, Eval
<1>2. CASE OtherEval
  <2>1. PICK ms \in OtherWork : Eval(ms)
    BY <1>2 DEF OtherEval
  <2>2. ms \in Seq(Request)
    BY SessionAssumption
  <2> QED BY <1>2, <2>1, <2>2, EvalTurn DEF OtherEval, Eval
<1>3. CASE CurrEditorChanged
  <2>1. PICK d \in Dirs : SetWorkingDir(d)
    BY <1>3 DEF CurrEditorChanged
  <2>2. <<DirMsg(d)>> \in Seq(Request)
    BY RequestTypes, Singleton
  <2> QED BY <1>3, <2>1, <2>2, EvalTurn DEF CurrEditorChanged, SetWorkingDir
<1>4. CASE ClearConsole
  <2>1. (IF refreshOnReady THEN PackageLists ELSE <<>>) \in Seq(Request)
    BY RequestTypes, EmptySeq
  <2> QED BY <1>4, <2>1, EvalTurn DEF ClearConsole, Eval
<1>5. CASE ResetConsole
  <2>1. socket' = "null" /\ busy' = FALSE /\ cursor' = 1
    BY <1>5 DEF ResetConsole, Reset, EngineRestart
  <2>2. Len(toJulia') = 0 /\ Len(fromJulia') = 0 /\ Len(pending_events') = 0
    BY <1>5, EmptySeq DEF ResetConsole, Reset, EngineRestart
  <2>3. InFlight' = 0
    BY <2>1, <2>2 DEF InFlight
  <2> QED BY <2>1, <2>3 DEF NotBusyBefore, OneOutstanding
<1> QED BY <1>1, <1>2, <1>3, <1>4, <1>5 DEF User

-----------------------------------------------------------------------------
\* Of Julia's steps only a written reply and a read request move anything, and they
\* only move it one place on.
LEMMA EngineTurn ==
  ASSUME Split = {}
  PROVE  TurnInv /\ Engine => NotBusyBefore' /\ OneOutstanding'
<1> SUFFICES ASSUME TurnInv, Engine PROVE NotBusyBefore' /\ OneOutstanding'
  OBVIOUS
<1>0. /\ IInv /\ NotBusyBefore /\ OneOutstanding
      /\ WireTypeOK /\ EngineTypeOK
      /\ socket' = socket /\ busy' = busy
      /\ Len(toJulia) \in Nat /\ Len(fromJulia) \in Nat
      /\ Len(pending_events) \in Nat /\ cursor \in Nat
  BY Lengths DEF TurnInv, IInv, TypeOK, Engine, ideVars
<1>1. SUFFICES ASSUME process' = "alive" PROVE process = "alive" /\ InFlight' = InFlight
  BY <1>0, <1>1 DEF NotBusyBefore, OneOutstanding
<1>2. CASE AcceptOneOn
  BY <1>1, <1>2 DEF AcceptOneOn, InFlight
<1>3. CASE Initialize
  BY <1>1, <1>3 DEF Initialize, InFlight
<1>4. CASE ProcessIncoming
  <2>1. /\ UNCHANGED <<cursor, process, fromJulia>>
        /\ toJulia # <<>> /\ toJulia' = Tail(toJulia)
        /\ pending_events' = Append(pending_events, NetworkIn(Head(toJulia)))
    BY <1>4 DEF ProcessIncoming, NewEvent
  <2>2. Len(toJulia') = Len(toJulia) - 1
    BY <1>0, <2>1, HeadTailProperties DEF WireTypeOK
  <2>3. Len(pending_events') = Len(pending_events) + 1
    BY <1>0, <2>1, NewEventOnTop
  <2> QED BY <1>0, <1>1, <2>1, <2>2, <2>3 DEF InFlight
<1>5. CASE EventLoop
  BY <1>1, <1>5 DEF EventLoop, wireVars, InFlight
<1>6. CASE HandleInput
  <2>1. UNCHANGED <<process, toJulia, fromJulia>> /\ cursor' = cursor + 1
    BY <1>6 DEF HandleInput, wireVars
  <2>2. PICK rep \in RepliesTo(pending_events[cursor].msg) : NewEvent(NetworkOut(rep))
    BY <1>6 DEF HandleInput
  <2>3. Len(pending_events') = Len(pending_events) + 1
    BY <1>0, <2>2, NewEventOnTop DEF NewEvent
  <2> QED BY <1>0, <1>1, <2>1, <2>3 DEF InFlight
<1>7. CASE EngineCallback
  <2> DEFINE rep == pending_events[cursor].msg
  <2>1. /\ cursor <= Len(pending_events) /\ pending_events[cursor].name = "networkOut"
        /\ UNCHANGED <<pending_events, process, toJulia>> /\ cursor' = cursor + 1
    BY <1>7 DEF EngineCallback, Taking
  <2>2. fromJulia' = fromJulia \o Pieces(rep, 1)
    BY <1>7 DEF EngineCallback
  <2>3. rep \in Reply
    <3>1. cursor \in 1..Len(pending_events)
      BY <1>0, <2>1, Lengths DEF EngineTypeOK
    <3>2. pending_events[cursor] \in Event
      BY <1>0, <3>1, ElementOfSeq DEF EngineTypeOK
    <3> QED BY <2>1, <3>2 DEF Event
  <2> HIDE DEF rep
  <2>4. PICK ps \in Seq(Piece) : ps = Pieces(rep, 1) /\ Len(ps) = 1
    BY <2>3, ReplyTyping
  <2>5. Len(fromJulia') = Len(fromJulia) + 1
    <3>1. fromJulia \in Seq(Piece) /\ fromJulia' = fromJulia \o ps
      BY <1>0, <2>2, <2>4 DEF WireTypeOK
    <3>2. Len(ps) = 1
      BY <2>4
    <3>3. Len(fromJulia \o ps) = Len(fromJulia) + Len(ps)
      BY <3>1, <2>4, Joined
    <3> QED BY <3>1, <3>2, <3>3
  <2> QED BY <1>0, <1>1, <2>1, <2>5 DEF InFlight
<1>8. CASE HandledAll
  <2>1. /\ UNCHANGED <<process, toJulia, fromJulia>>
        /\ cursor > Len(pending_events) /\ cursor' = 1 /\ pending_events' = <<>>
    BY <1>8 DEF HandledAll, wireVars
  <2>2. Len(pending_events') = 0
    BY <2>1, EmptySeq
  <2>3. Len(pending_events) + 1 - cursor = 0
    BY <1>0, <2>1, Lengths DEF EngineTypeOK
  <2> QED BY <1>0, <1>1, <2>1, <2>2, <2>3 DEF InFlight
<1>9. CASE HandlerThrows
  BY <1>1, <1>9 DEF HandlerThrows, Die
<1>10. CASE Crash
  BY <1>1, <1>10 DEF Crash, Die
<1> QED BY <1>2, <1>3, <1>4, <1>5, <1>6, <1>7, <1>8, <1>9, <1>10 DEF Engine

-----------------------------------------------------------------------------
\* Reading a reply ends Julia's turn; continueOrReady gives it the next one or
\* leaves the evaluator idle.
LEMMA IdeTurn == TurnInv /\ Ide => NotBusyBefore' /\ OneOutstanding'
<1> SUFFICES ASSUME TurnInv, Ide PROVE NotBusyBefore' /\ OneOutstanding'
  OBVIOUS
<1>0. /\ IInv /\ NotBusyBefore /\ OneOutstanding
      /\ WireTypeOK /\ IdeTypeOK
  BY DEF TurnInv, IInv, TypeOK
<1>1. CASE ReadStdout
  <2>1. PICK k \in 1..Len(stdout) : OnProcessStdout(k)
    BY <1>1 DEF ReadStdout
  <2>2. /\ UNCHANGED <<busy, process, toJulia, fromJulia, pending_events, cursor>>
        /\ socket' = socket \/ (socket = "null" /\ socket' = "connecting")
    BY <1>1, <2>1 DEF ReadStdout, OnProcessStdout, engineVars
  <2>3. InFlight' = InFlight
    BY <2>2 DEF InFlight
  <2> QED BY <1>0, <2>2, <2>3 DEF NotBusyBefore, OneOutstanding
<1>2. CASE SocketConnected
  <2>1. /\ UNCHANGED <<process, fromJulia, pending_events, cursor>>
        /\ socket = "connecting" /\ process = "alive" /\ socket' = "connected"
    BY <1>2 DEF SocketConnected, OnSocketConnected, engineVars
  <2>2. ~busy /\ InFlight = 0
    BY <1>0, <2>1 DEF NotBusyBefore, OneOutstanding
  <2>3. busy' \in BOOLEAN /\ Len(toJulia') = Len(toJulia) + IF busy' THEN 1 ELSE 0
    <3>1. CASE curr_working_dir = NoDir
      <4>1. Becomes(ContinueOrReady(work_queue, OnReady), <<>>)
        BY <1>2, <3>1 DEF SocketConnected, OnSocketConnected
      <4>2. OnReady \in Seq(Request) /\ work_queue \in Seq(Request) /\ <<>> \in Seq(Request)
        BY <1>0, RequestTypes, EmptySeq DEF IdeTypeOK
      <4>3. PICK before \in Seq(Request) : before = <<>> /\ Len(before) = 0
        BY <4>2, EmptySeq
      <4>4. /\ busy' \in BOOLEAN
            /\ Len(toJulia') = Len(toJulia) + Len(before) + IF busy' THEN 1 ELSE 0
        BY <1>0, <4>1, <4>2, <4>3, AfterContinue
      <4> QED BY <1>0, <4>3, <4>4, Lengths
    <3>2. CASE curr_working_dir # NoDir
      <4> DEFINE m == DirMsg(curr_working_dir)
                 one == <<m>>
      <4>1. m \in Request
        BY <1>0, <3>2, RequestTypes DEF IdeTypeOK
      <4>2. Becomes(EvalAll("connected", busy, work_queue, one), <<>>)
        BY <1>2, <3>2 DEF SocketConnected, OnSocketConnected
      <4> HIDE DEF m
      <4>3. one \in Seq(Request) /\ Len(one) = 1 /\ one # <<>> /\ <<Head(one)>> = one
        BY <4>1, Singleton
      <4> HIDE DEF one
      <4>4. EvalAll("connected", busy, work_queue, one)
              = [busy |-> TRUE, queue |-> work_queue \o Tail(one), wrote |-> <<Head(one)>>]
        <5>1. ~(busy \/ "connected" # "connected" \/ one = <<>>)
          BY <2>2, <4>3
        <5> QED BY <5>1 DEF EvalAll
      <4>5. busy' = TRUE /\ toJulia' = toJulia \o <<>> \o one
        <5> DEFINE e == EvalAll("connected", busy, work_queue, one)
        <5>1. busy' = e.busy /\ toJulia' = toJulia \o <<>> \o e.wrote
          BY <4>2 DEF Becomes
        <5>2. e.busy = TRUE /\ e.wrote = one
          BY <4>3, <4>4
        <5> HIDE DEF e
        <5> QED BY <5>1, <5>2
      <4>6. Len(toJulia') = Len(toJulia) + 1
        <5>1. toJulia \o <<>> = toJulia /\ toJulia \in Seq(Request)
          BY <1>0, ConcatEmptySeq DEF WireTypeOK
        <5>2. Len(toJulia \o one) = Len(toJulia) + Len(one)
          BY <4>3, <5>1, Joined
        <5> QED BY <4>3, <4>5, <5>1, <5>2
      <4> QED BY <4>5, <4>6
    <3> QED BY <3>1, <3>2
  <2>4. InFlight' = IF busy' THEN 1 ELSE 0
    <3>1. InFlight' = InFlight + Len(toJulia') - Len(toJulia)
      BY <1>0, <2>1, <2>3, Lengths DEF InFlight
    <3> QED BY <1>0, <2>2, <2>3, <3>1, Lengths
  <2> QED BY <2>1, <2>3, <2>4 DEF NotBusyBefore, OneOutstanding
<1>3. CASE SocketOutput
  <2> DEFINE FollowUpsOf(k) ==
               IF IsDocument(SubSeq(fromJulia, 1, k))
               THEN FollowUps(SubSeq(fromJulia, 1, k)[1].reply) ELSE <<>>
             EvalIn(k) == EvalAll("connected", busy, work_queue, FollowUpsOf(k))
  <2>1. PICK k \in 1..Len(fromJulia) :
          OnSocketOutput(k, FollowUpsOf(k), OnReady) /\ UNCHANGED <<engineVars, resets>>
    BY <1>3 DEF SocketOutput
  <2>2. /\ socket = "connected" /\ socket' = "connected"
        /\ UNCHANGED <<process, pending_events, cursor>>
        /\ fromJulia' = SubSeq(fromJulia, k + 1, Len(fromJulia))
        /\ Becomes(ContinueOrReady(EvalIn(k).queue, OnReady), EvalIn(k).wrote)
    BY <2>1 DEF OnSocketOutput, engineVars
  <2>3. FollowUpsOf(k) \in Seq(Request) /\ OnReady \in Seq(Request)
    BY RequestTypes, EmptySeq
  <2>4. SUFFICES ASSUME process = "alive" PROVE OneOutstanding'
    BY <2>2 DEF NotBusyBefore, OneOutstanding
  <2>5. InFlight = 1 /\ busy = TRUE
    <3>1. Len(fromJulia) >= 1
      BY <1>0, <2>1, Lengths
    <3>2. InFlight >= 1
      BY <1>0, <3>1, Lengths DEF InFlight
    <3>3. InFlight = IF socket = "connected" /\ busy THEN 1 ELSE 0
      BY <1>0, <2>4 DEF OneOutstanding
    <3>4. busy \in BOOLEAN
      BY <1>0, Lengths
    <3> QED BY <3>2, <3>3, <3>4
  <2>6. Len(toJulia) + (Len(pending_events) + 1 - cursor) = 0 /\ Len(fromJulia) = 1 /\ k = 1
    <3>1. PICK a \in Nat, b \in Nat, c \in Nat :
            a = Len(toJulia) /\ b = Len(pending_events) + 1 - cursor /\ c = Len(fromJulia)
      BY <1>0, Lengths
    <3>2. a + b + c = 1 /\ k \in 1..c
      BY <2>1, <2>5, <3>1 DEF InFlight
    <3>3. a + b = 0 /\ c = 1 /\ k = 1
      BY <3>2
    <3> QED BY <3>1, <3>3
  <2>7. /\ EvalIn(k).queue \in Seq(Request) /\ EvalIn(k).wrote \in Seq(Request)
        /\ Len(EvalIn(k).wrote) = 0
    <3>1. EvalIn(k) = [busy |-> busy, queue |-> work_queue \o FollowUpsOf(k), wrote |-> <<>>]
      BY <2>5 DEF EvalAll
    <3>2. work_queue \o FollowUpsOf(k) \in Seq(Request)
      BY <1>0, <2>3, Joined DEF IdeTypeOK
    <3> HIDE DEF EvalIn
    <3>3. EvalIn(k).wrote = <<>> /\ EvalIn(k).queue = work_queue \o FollowUpsOf(k)
      BY <3>1
    <3> QED BY <3>2, <3>3, EmptySeq
  <2> HIDE DEF EvalIn
  <2>8. /\ busy' \in BOOLEAN
        /\ Len(toJulia') = Len(toJulia) + Len(EvalIn(k).wrote) + IF busy' THEN 1 ELSE 0
    BY <1>0, <2>2, <2>3, <2>7, AfterContinue
  <2>9. Len(fromJulia') = 0
    <3>1. fromJulia' = SubSeq(fromJulia, 2, 1)
      BY <2>2, <2>6
    <3> QED BY <3>1
  <2>10. InFlight' = IF busy' THEN 1 ELSE 0
    <3>1. /\ Len(toJulia) \in Nat /\ Len(pending_events) + 1 - cursor \in Nat
          /\ Len(pending_events') + 1 - cursor' = Len(pending_events) + 1 - cursor
      BY <1>0, <2>2, Lengths
    <3> QED BY <2>6, <2>7, <2>8, <2>9, <3>1 DEF InFlight
  <2> QED BY <2>2, <2>8, <2>10 DEF OneOutstanding
<1>4. CASE SocketClosed
  BY <1>4 DEF SocketClosed, OnSocketClosed, wireVars, NotBusyBefore, OneOutstanding
<1> QED BY <1>1, <1>2, <1>3, <1>4 DEF Ide

LEMMA StepTurn ==
  ASSUME Split = {}
  PROVE  TurnInv /\ [Next]_vars => TurnInv'
<1> SUFFICES ASSUME TurnInv, [Next]_vars PROVE TurnInv'
  OBVIOUS
<1>1. IInv'
  BY StepIInv DEF TurnInv
<1>2. NotBusyBefore' /\ OneOutstanding'
  <2>1. CASE Next
    BY <2>1, UserTurn, IdeTurn, EngineTurn DEF Next
  <2>2. CASE UNCHANGED vars
    BY <2>2 DEF vars, wireVars, ideVars, engineVars, TurnInv, NotBusyBefore, OneOutstanding, InFlight
  <2> QED BY <2>1, <2>2
<1> QED BY <1>1, <1>2 DEF TurnInv

\* In a session whose replies all arrive in one piece, the evaluator and Julia agree
\* on whose turn it is: one request, event or reply is under way exactly when the
\* connected evaluator is busy (localtcpevaluator.cpp eval, onSocketOutput;
\* ConsoleLogic.jl handle_input).
THEOREM OneRequestAtATime ==
  ASSUME Split = {}
  PROVE  Spec => []OneOutstanding
<1>1. Init => TurnInv
  BY InitTurn
<1>2. TurnInv /\ [Next]_vars => TurnInv'
  BY StepTurn
<1>3. TurnInv => OneOutstanding
  BY DEF TurnInv
<1> QED BY <1>1, <1>2, <1>3, PTL DEF Spec

-----------------------------------------------------------------------------
(* The directory Julia will be in when what is under way, and then what is  *)
(* queued, has been done.                                                   *)

\* Requests among the events of pe from position c on.
Requests(pe, c) == {pe[i].msg : i \in {j \in c..Len(pe) : pe[j].name = "networkIn"}}

\* Requests that Julia has not begun yet.
EventsUnderWay == Requests(pending_events, cursor)

UnderWay == ToSet(toJulia) \union EventsUnderWay

HasDir(S) == \E r \in S : r.typnam = "dir"

\* The last change of directory in list q is that to d.
LastDirIs(q, d) ==
  \E i \in 1..Len(q) : q[i] = DirMsg(d) /\ \A j \in 1..Len(q) : j > i => q[j].typnam # "dir"

LeadsTo(q, d) == HasDir(ToSet(q)) => LastDirIs(q, d)

\* Julia is in the current directory, unless evaluated code has moved it since.
WhereSent == ~moved_by_code => julia_dir = curr_working_dir

\* Where Julia is, or will be after the request under way.
DirAhead ==
  IF HasDir(UnderWay) THEN DirMsg(curr_working_dir) \in UnderWay ELSE WhereSent

DirInv ==
  /\ LeadsTo(work_queue, curr_working_dir)
  /\ process = "alive" /\ socket # "connected" => julia_dir = NoDir
  /\ process = "alive" /\ socket = "connected" /\ ~HasDir(ToSet(work_queue)) => DirAhead

\* A list of requests without a dir request.
Steady(ms) == ~HasDir(ToSet(ms))

\* Only setWorkingDir and the connection send a directory.
LEMMA WorkIsSteady == \A ms \in ConsoleWork \union OtherWork : Steady(ms)
BY SessionAssumption, ToSetOf DEF Steady, HasDir

LEMMA SteadyBehind ==
  ASSUME NEW q \in Seq(Request), NEW ms \in Seq(Request), NEW d, Steady(ms),
         LeadsTo(q, d)
  PROVE  /\ LeadsTo(q \o ms, d)
         /\ HasDir(ToSet(q \o ms)) <=> HasDir(ToSet(q))
<1>1. ToSet(q \o ms) = ToSet(q) \union ToSet(ms)
  BY ToSetConcat
<1>2. HasDir(ToSet(q \o ms)) <=> HasDir(ToSet(q))
  BY <1>1 DEF HasDir, Steady
<1>3. ASSUME LastDirIs(q, d)
      PROVE  LastDirIs(q \o ms, d)
  <2> DEFINE m == Len(q)
             n == Len(ms)
             both == q \o ms
  <2>1. /\ m \in Nat /\ n \in Nat /\ Len(both) = m + n
        /\ \A i \in 1..m + n : both[i] = IF i <= m THEN q[i] ELSE ms[i - m]
    BY ConcatProperties, LenProperties
  <2>2. \A i \in 1..n : ms[i].typnam # "dir"
    BY ToSetOf DEF Steady, HasDir
  <2>3. PICK i \in 1..m : q[i] = DirMsg(d) /\ \A j \in 1..m : j > i => q[j].typnam # "dir"
    BY <1>3 DEF LastDirIs
  <2> HIDE DEF m, n, both
  <2>4. i \in 1..m + n /\ both[i] = DirMsg(d)
    BY <2>1, <2>3
  <2>5. ASSUME NEW j \in 1..m + n, j > i
        PROVE  both[j].typnam # "dir"
    <3>1. CASE j <= m
      BY <2>1, <2>3, <2>5, <3>1
    <3>2. CASE ~(j <= m)
      <4>1. both[j] = ms[j - m] /\ j - m \in 1..n
        BY <2>1, <3>2
      <4>2. QED
        BY <2>2, <4>1
    <3>3. QED
      BY <3>1, <3>2
  <2>6. \E k \in 1..Len(both) :
          both[k] = DirMsg(d) /\ \A j \in 1..Len(both) : j > k => both[j].typnam # "dir"
    BY <2>1, <2>4, <2>5
  <2>7. QED
    BY <2>6 DEF LastDirIs, both
<1>4. QED
  BY <1>2, <1>3 DEF LeadsTo

LEMMA DirBehind ==
  ASSUME NEW q \in Seq(Request), NEW d \in Dirs
  PROVE  /\ LastDirIs(q \o <<DirMsg(d)>>, d) /\ HasDir(ToSet(q \o <<DirMsg(d)>>))
<1> DEFINE one == <<DirMsg(d)>>
           m == Len(q)
           both == q \o one
<1>1. one \in Seq(Request) /\ Len(one) = 1 /\ one[1] = DirMsg(d) /\ DirMsg(d).typnam = "dir"
  BY RequestTypes, Singleton DEF DirMsg
<1>2. ToSet(one) = {DirMsg(d)}
  BY ToSetShort
<1> HIDE DEF one
<1>3. ToSet(both) = ToSet(q) \union ToSet(one)
  BY <1>1, ToSetConcat
<1>4. HasDir(ToSet(both))
  BY <1>1, <1>2, <1>3 DEF HasDir
<1>5. /\ m \in Nat /\ Len(both) = m + 1
      /\ \A i \in 1..m + 1 : both[i] = IF i <= m THEN q[i] ELSE one[i - m]
  <2>1. /\ Len(both) = Len(q) + Len(one)
        /\ \A i \in 1..Len(q) + Len(one) : both[i] = IF i <= Len(q) THEN q[i] ELSE one[i - Len(q)]
    BY <1>1, ConcatProperties
  <2>2. m \in Nat /\ Len(one) = 1
    BY <1>1, LenProperties
  <2>3. QED
    BY <2>1, <2>2
<1> HIDE DEF m, both
<1>6. m + 1 \in 1..m + 1 /\ both[m + 1] = DirMsg(d)
  BY <1>1, <1>5
<1>7. \A j \in 1..Len(both) : ~(j > m + 1)
  BY <1>5
<1>8. \E i \in 1..Len(both) :
        both[i] = DirMsg(d) /\ \A j \in 1..Len(both) : j > i => both[j].typnam # "dir"
  BY <1>5, <1>6, <1>7
<1>9. QED
  BY <1>4, <1>8 DEF LastDirIs, both, one

\* The first request of a list, and what is left.
LEMMA FirstAndRest ==
  ASSUME NEW q \in Seq(Request), q # <<>>
  PROVE  \A r : r \in ToSet(q) <=> r = Head(q) \/ r \in ToSet(Tail(q))
<1> DEFINE n == Len(q)
           rest == Tail(q)
<1>1. /\ n \in Nat /\ n # 0 /\ Head(q) = q[1]
      /\ rest \in Seq(Request) /\ Len(rest) = n - 1
      /\ \A i \in 1..n - 1 : rest[i] = q[i + 1]
  BY HeadTailProperties, EmptySeq, LenProperties
<1>2. \A r : r \in ToSet(q) <=> \E i \in 1..n : r = q[i]
  BY ToSetOf
<1> HIDE DEF n, rest
<1>3. \A r : r \in ToSet(rest) <=> \E i \in 1..n - 1 : r = rest[i]
  <2>1. \A r : r \in ToSet(rest) <=> \E i \in 1..Len(rest) : r = rest[i]
    BY <1>1, ToSetOf
  <2>2. QED
    BY <1>1, <2>1
<1>4. \A r : r \in ToSet(q) <=> r = Head(q) \/ r \in ToSet(rest)
  <2>1. ASSUME NEW i \in 1..n
        PROVE  q[i] = Head(q) \/ q[i] \in ToSet(rest)
    <3>1. CASE i = 1
      BY <1>1, <3>1
    <3>2. CASE i # 1
      <4>1. i - 1 \in 1..n - 1 /\ (i - 1) + 1 = i
        BY <1>1, <3>2
      <4>2. rest[i - 1] = q[i]
        BY <1>1, <4>1
      <4>3. QED
        BY <1>3, <4>1, <4>2
    <3>3. QED
      BY <3>1, <3>2
  <2>2. ASSUME NEW i \in 1..n - 1
        PROVE  rest[i] \in ToSet(q)
    <3>1. i + 1 \in 1..n /\ rest[i] = q[i + 1]
      BY <1>1
    <3>2. QED
      BY <1>2, <3>1
  <2>3. Head(q) \in ToSet(q)
    <3>1. 1 \in 1..n
      BY <1>1
    <3>2. QED
      BY <1>1, <1>2, <3>1
  <2>4. QED
    BY <1>2, <1>3, <2>1, <2>2, <2>3
<1>5. QED
  BY <1>4 DEF rest

\* What follows the first request of a list leads to the same directory, and if no change
\* of directory is left then it was the first request that led there.
LEMMA FirstTaken ==
  ASSUME NEW q \in Seq(Request), q # <<>>, NEW d, LeadsTo(q, d)
  PROVE  /\ Head(q) \in Request
         /\ LeadsTo(Tail(q), d)
         /\ ~HasDir(ToSet(Tail(q))) =>
              IF Head(q).typnam = "dir" THEN Head(q) = DirMsg(d) ELSE ~HasDir(ToSet(q))
<1> DEFINE n == Len(q)
           rest == Tail(q)
<1>1. /\ n \in Nat /\ n # 0 /\ Head(q) = q[1] /\ Head(q) \in Request
      /\ rest \in Seq(Request) /\ Len(rest) = n - 1
      /\ \A i \in 1..n - 1 : rest[i] = q[i + 1]
  BY HeadTailProperties, EmptySeq, LenProperties
<1>2. \A r : r \in ToSet(q) <=> \E i \in 1..n : r = q[i]
  BY ToSetOf
<1> HIDE DEF n, rest
<1>3. \A r : r \in ToSet(rest) <=> \E i \in 1..n - 1 : r = rest[i]
  <2>1. \A r : r \in ToSet(rest) <=> \E i \in 1..Len(rest) : r = rest[i]
    BY <1>1, ToSetOf
  <2>2. QED
    BY <1>1, <2>1
<1>4. \A r : r \in ToSet(q) <=> r = Head(q) \/ r \in ToSet(rest)
  BY FirstAndRest DEF rest
<1>5. HasDir(ToSet(q)) <=> Head(q).typnam = "dir" \/ HasDir(ToSet(rest))
  BY <1>4 DEF HasDir
<1>6. ASSUME HasDir(ToSet(q))
      PROVE  /\ HasDir(ToSet(rest)) => LastDirIs(rest, d)
             /\ ~HasDir(ToSet(rest)) => Head(q) = DirMsg(d)
  <2>1. PICK i \in 1..n : q[i] = DirMsg(d) /\ \A j \in 1..n : j > i => q[j].typnam # "dir"
    BY <1>6 DEF LeadsTo, LastDirIs, n
  <2>2. CASE i = 1
    <3>1. Head(q) = DirMsg(d)
      BY <1>1, <2>1, <2>2
    <3>2. ASSUME NEW j \in 1..n - 1
          PROVE  rest[j].typnam # "dir"
      <4>1. j + 1 \in 1..n /\ j + 1 > 1 /\ rest[j] = q[j + 1]
        BY <1>1
      <4>2. QED
        BY <2>1, <2>2, <4>1
    <3>3. ~HasDir(ToSet(rest))
      BY <1>3, <3>2 DEF HasDir
    <3>4. QED
      BY <3>1, <3>3
  <2>3. CASE i # 1
    <3>1. i - 1 \in 1..n - 1 /\ (i - 1) + 1 = i
      BY <1>1, <2>3
    <3>2. rest[i - 1] = DirMsg(d)
      BY <1>1, <2>1, <3>1
    <3>3. ASSUME NEW j \in 1..n - 1, j > i - 1
          PROVE  rest[j].typnam # "dir"
      <4>1. j + 1 \in 1..n /\ j + 1 > i /\ rest[j] = q[j + 1]
        BY <1>1, <3>3
      <4>2. QED
        BY <2>1, <4>1
    <3>4. LastDirIs(rest, d)
      BY <1>1, <3>1, <3>2, <3>3 DEF LastDirIs
    <3>5. HasDir(ToSet(rest))
      BY <1>3, <3>1, <3>2 DEF HasDir, DirMsg
    <3>6. QED
      BY <3>4, <3>5
  <2>4. QED
    BY <2>2, <2>3
<1>7. QED
  BY <1>1, <1>5, <1>6 DEF LeadsTo, rest

-----------------------------------------------------------------------------
\* Nothing is under way that OneOutstanding does not count.
LEMMA NothingUnderWay ==
  ASSUME TurnInv, InFlight = 0
  PROVE  UnderWay = {} /\ toJulia = <<>>
<1>1. /\ toJulia \in Seq(Request) /\ Len(toJulia) \in Nat /\ Len(fromJulia) \in Nat
      /\ Len(pending_events) + 1 - cursor \in Nat /\ Len(pending_events) \in Nat /\ cursor \in Nat
  BY Lengths DEF TurnInv, IInv, TypeOK, WireTypeOK
<1>2. Len(toJulia) = 0 /\ Len(pending_events) + 1 - cursor = 0
  <2>1. PICK a \in Nat, b \in Nat, c \in Nat :
          a = Len(toJulia) /\ b = Len(pending_events) + 1 - cursor /\ c = Len(fromJulia)
    BY <1>1
  <2>2. a + b + c = 0
    BY <2>1 DEF InFlight
  <2>3. a = 0 /\ b = 0
    BY <2>2
  <2>4. QED
    BY <2>1, <2>3
<1>3. toJulia = <<>> /\ ToSet(toJulia) = {}
  BY <1>1, <1>2, EmptySeq, ToSetShort
<1>4. \A j \in cursor..Len(pending_events) : FALSE
  BY <1>1, <1>2
<1>5. EventsUnderWay = {}
  BY <1>4 DEF EventsUnderWay, Requests
<1>6. QED
  BY <1>3, <1>5 DEF UnderWay

\* What evaluating does to the requests under way: it may put one more to them, and only
\* where the evaluator is connected and idle.
LEMMA EvalUnderWay ==
  ASSUME TurnInv, NEW ms \in Seq(Request), Becomes(EvalAll(socket, busy, work_queue, ms), <<>>),
         UNCHANGED engineVars
  PROVE  \/ work_queue' = work_queue \o ms /\ UnderWay' = UnderWay
         \/ /\ socket = "connected" /\ ~busy /\ work_queue = <<>> /\ ms # <<>>
            /\ work_queue' = Tail(ms) /\ UnderWay' = UnderWay \union {Head(ms)}
<1>1. toJulia \in Seq(Request) /\ work_queue \in Seq(Request) /\ IdleMeansDrained
  BY DEF TurnInv, IInv, TypeOK, WireTypeOK, IdeTypeOK
<1>2. EventsUnderWay' = EventsUnderWay
  BY DEF engineVars, EventsUnderWay, Requests
<1>3. toJulia \o <<>> = toJulia
  BY <1>1, ConcatEmptySeq
<1>4. CASE busy \/ socket # "connected" \/ ms = <<>>
  <2>1. EvalAll(socket, busy, work_queue, ms) = [busy |-> busy, queue |-> work_queue \o ms, wrote |-> <<>>]
    BY <1>4 DEF EvalAll
  <2>2. work_queue' = work_queue \o ms /\ toJulia' = toJulia \o <<>> \o <<>>
    BY <2>1 DEF Becomes
  <2>3. toJulia' = toJulia
    BY <1>3, <2>2
  <2>4. UnderWay' = UnderWay
    BY <1>2, <2>3 DEF UnderWay, ToSet
  <2>5. QED
    BY <2>2, <2>4
<1>5. CASE ~(busy \/ socket # "connected" \/ ms = <<>>)
  <2>1. EvalAll(socket, busy, work_queue, ms)
          = [busy |-> TRUE, queue |-> work_queue \o Tail(ms), wrote |-> <<Head(ms)>>]
    BY <1>5 DEF EvalAll
  <2>2. work_queue' = work_queue \o Tail(ms) /\ toJulia' = toJulia \o <<>> \o <<Head(ms)>>
    BY <2>1 DEF Becomes
  <2>3. Head(ms) \in Request /\ Tail(ms) \in Seq(Request)
    BY <1>5, HeadTailProperties
  <2>4. work_queue = <<>>
    BY <1>1, <1>5 DEF IdleMeansDrained
  <2>5. work_queue' = Tail(ms)
    BY <2>2, <2>3, <2>4, ConcatEmptySeq
  <2>6. ToSet(toJulia') = ToSet(toJulia) \union {Head(ms)}
    <3> DEFINE one == <<Head(ms)>>
    <3>1. one \in Seq(Request) /\ ToSet(one) = {Head(ms)}
      BY <2>3, Singleton, ToSetShort
    <3>2. toJulia' = toJulia \o one
      BY <1>3, <2>2
    <3> HIDE DEF one
    <3>3. ToSet(toJulia \o one) = ToSet(toJulia) \union ToSet(one)
      BY <1>1, <3>1, ToSetConcat
    <3>4. QED
      BY <3>1, <3>2, <3>3
  <2>7. UnderWay' = UnderWay \union {Head(ms)}
    BY <1>2, <2>6 DEF UnderWay, ToSet
  <2>8. QED
    BY <1>5, <2>4, <2>5, <2>7
<1>6. QED
  BY <1>4, <1>5

\* A request that leaves the directory alone may be evaluated at any time.
LEMMA SteadyEval ==
  ASSUME TurnInv, DirInv, NEW ms \in Seq(Request), Steady(ms),
         Becomes(EvalAll(socket, busy, work_queue, ms), <<>>),
         UNCHANGED <<engineVars, process, socket, curr_working_dir>>
  PROVE  DirInv'
<1>1. work_queue \in Seq(Request) /\ UNCHANGED <<julia_dir, moved_by_code>>
  BY DEF TurnInv, IInv, TypeOK, IdeTypeOK, engineVars
<1>2. /\ LeadsTo(work_queue, curr_working_dir)
      /\ process = "alive" /\ socket # "connected" => julia_dir = NoDir
      /\ process = "alive" /\ socket = "connected" /\ ~HasDir(ToSet(work_queue)) => DirAhead
  BY DEF DirInv
<1>3. CASE work_queue' = work_queue \o ms /\ UnderWay' = UnderWay
  <2>1. /\ LeadsTo(work_queue', curr_working_dir)
        /\ HasDir(ToSet(work_queue')) <=> HasDir(ToSet(work_queue))
    BY <1>1, <1>2, <1>3, SteadyBehind
  <2>2. DirAhead => DirAhead'
    BY <1>1, <1>3 DEF DirAhead, WhereSent, HasDir
  <2>3. LeadsTo(work_queue, curr_working_dir)'
    BY <2>1 DEF LeadsTo, HasDir, LastDirIs, ToSet, DirMsg
  <2>4. HasDir(ToSet(work_queue))' <=> HasDir(ToSet(work_queue))
    BY <2>1 DEF HasDir, ToSet
  <2>5. QED
    BY <1>1, <1>2, <2>2, <2>3, <2>4 DEF DirInv
<1>4. CASE /\ socket = "connected" /\ ~busy /\ work_queue = <<>> /\ ms # <<>>
           /\ work_queue' = Tail(ms) /\ UnderWay' = UnderWay \union {Head(ms)}
  <2>1. LeadsTo(ms, curr_working_dir) /\ ~HasDir(ToSet(ms))
    BY DEF Steady, LeadsTo
  <2>2. Head(ms) \in ToSet(ms) /\ \A r \in ToSet(Tail(ms)) : r \in ToSet(ms)
    BY <1>4, FirstAndRest
  <2>3. ~HasDir(ToSet(work_queue'))
    BY <1>4, <2>1, <2>2 DEF HasDir
  <2>4. ~HasDir(ToSet(work_queue))
    BY <1>4, ToSetShort DEF HasDir
  <2>5. (HasDir(UnderWay') <=> HasDir(UnderWay))
    BY <1>2, <1>4, <2>1, <2>2 DEF HasDir
  <2>6. LeadsTo(work_queue, curr_working_dir)'
    BY <2>3 DEF LeadsTo, HasDir, ToSet
  <2>7. DirAhead => DirAhead'
    BY <1>1, <1>4, <2>5 DEF DirAhead, WhereSent, HasDir
  <2>8. QED
    BY <1>1, <1>2, <1>4, <2>4, <2>6, <2>7 DEF DirInv
<1>5. QED
  BY <1>3, <1>4, EvalUnderWay

\* What the plugin itself has evaluated leaves the directory alone.
LEMMA SteadyLists ==
  /\ Steady(<<>>) /\ Steady(PackageLists) /\ Steady(OnReady)
  /\ \A rep : Steady(FollowUps(rep))
<1>1. Steady(<<>>)
  BY ToSetShort DEF Steady, HasDir
<1>2. Steady(PackageLists)
  <2>1. /\ PackageLists \in Seq(Request) /\ Len(PackageLists) = 2
        /\ PackageLists[1] = PackageMsg("available") /\ PackageLists[2] = PackageMsg("installed")
    BY RequestTypes DEF PackageLists
  <2>2. \A r \in ToSet(PackageLists) : r.typnam = "package"
    <3>1. ASSUME NEW i \in 1..2
          PROVE  PackageLists[i].typnam = "package"
      <4>1. i = 1 \/ i = 2
        OBVIOUS
      <4>2. QED
        BY <2>1, <4>1 DEF PackageMsg
    <3>2. QED
      BY <2>1, <3>1, ToSetOf
  <2>3. QED
    BY <2>2 DEF Steady, HasDir
<1>3. Steady(OnReady)
  BY <1>1, <1>2 DEF OnReady
<1>4. ASSUME NEW rep
      PROVE  Steady(FollowUps(rep))
  <2> DEFINE n == Len(OpenPanes)
             ws == [i \in 1..n |-> WatchMsg(OpenPanes[i])]
  <2>1. \A r \in ToSet(ws) : r.typnam = "watch"
    BY DEF ToSet, WatchMsg
  <2>2. Steady(ws)
    BY <2>1 DEF Steady, HasDir
  <2>3. FollowUps(rep) = ws \/ FollowUps(rep) = <<>>
    BY DEF FollowUps
  <2> HIDE DEF ws
  <2>4. QED
    BY <1>1, <2>2, <2>3
<1>5. QED
  BY <1>1, <1>2, <1>3, <1>4

\* An editor in another directory comes to the front.
LEMMA SetDir ==
  ASSUME TurnInv, DirInv, NEW d \in Dirs, SetWorkingDir(d), UNCHANGED engineVars
  PROVE  DirInv'
<1> DEFINE one == <<DirMsg(d)>>
<1>1. one \in Seq(Request) /\ Head(one) = DirMsg(d) /\ Tail(one) = <<>> /\ DirMsg(d).typnam = "dir"
  BY RequestTypes, Singleton DEF DirMsg
<1>2. /\ curr_working_dir' = d /\ socket' = socket /\ process' = process /\ julia_dir' = julia_dir
      /\ Becomes(EvalAll(socket, busy, work_queue, one), <<>>)
  BY DEF SetWorkingDir, engineVars
<1> HIDE DEF one
<1>3. /\ work_queue \in Seq(Request)
      /\ process = "alive" /\ socket # "connected" => julia_dir = NoDir
  BY DEF TurnInv, IInv, TypeOK, IdeTypeOK, DirInv
<1>4. CASE work_queue' = work_queue \o one /\ UnderWay' = UnderWay
  <2>1. LastDirIs(work_queue', d) /\ HasDir(ToSet(work_queue'))
    BY <1>3, <1>4, DirBehind DEF one
  <2>2. HasDir(ToSet(work_queue))'
    BY <1>3, <1>4, <2>1 DEF HasDir, ToSet
  <2>3. LeadsTo(work_queue, curr_working_dir)'
    BY <1>2, <2>1 DEF LeadsTo, LastDirIs, HasDir, ToSet, DirMsg
  <2>4. QED
    BY <1>2, <1>3, <2>2, <2>3 DEF DirInv
<1>5. CASE work_queue' = Tail(one) /\ UnderWay' = UnderWay \union {Head(one)}
  <2>1. ~HasDir(ToSet(work_queue'))
    BY <1>1, <1>5, ToSetShort DEF HasDir
  <2>2. LeadsTo(work_queue, curr_working_dir)'
    BY <2>1 DEF LeadsTo, HasDir, ToSet
  <2>3. DirMsg(d) \in UnderWay'
    BY <1>1, <1>5
  <2>4. DirAhead'
    BY <1>1, <1>2, <2>3 DEF DirAhead, WhereSent, HasDir, DirMsg
  <2>5. QED
    BY <1>2, <1>3, <2>2, <2>4 DEF DirInv
<1>6. QED
  BY <1>1, <1>2, <1>4, <1>5, EvalUnderWay

-----------------------------------------------------------------------------
\* The user's steps.
LEMMA InitDir == Init => DirInv
<1> SUFFICES ASSUME Init PROVE DirInv
  OBVIOUS
<1>1. /\ work_queue = PackageLists /\ toJulia = <<>> /\ socket = "null"
      /\ pending_events = <<>> /\ cursor = 1 /\ julia_dir = NoDir
  BY DEF Init, EngineInit
<1>2. Steady(PackageLists)
  BY SteadyLists
<1>3. UnderWay = {}
  <2>1. Len(pending_events) = 0
    BY <1>1, EmptySeq
  <2>2. \A j \in cursor..Len(pending_events) : FALSE
    BY <1>1, <2>1
  <2>3. EventsUnderWay = {}
    BY <2>2 DEF EventsUnderWay, Requests
  <2>4. QED
    BY <1>1, <2>3, ToSetShort DEF UnderWay
<1>4. QED
  BY <1>1, <1>2, <1>3 DEF DirInv, LeadsTo, Steady

LEMMA UserDir == TurnInv /\ DirInv /\ User => DirInv'
<1> SUFFICES ASSUME TurnInv, DirInv, User PROVE DirInv'
  OBVIOUS
<1>1. CASE ConsoleEval
  <2>1. PICK ms \in ConsoleWork : Eval(ms)
    BY <1>1 DEF ConsoleEval
  <2>2. ms \in Seq(Request) /\ Steady(ms)
    BY SessionAssumption, WorkIsSteady
  <2>3. QED
    BY <1>1, <2>1, <2>2, SteadyEval DEF ConsoleEval, Eval
<1>2. CASE OtherEval
  <2>1. PICK ms \in OtherWork : Eval(ms)
    BY <1>2 DEF OtherEval
  <2>2. ms \in Seq(Request) /\ Steady(ms)
    BY SessionAssumption, WorkIsSteady
  <2>3. QED
    BY <1>2, <2>1, <2>2, SteadyEval DEF OtherEval, Eval
<1>3. CASE CurrEditorChanged
  <2>1. PICK d \in Dirs : SetWorkingDir(d)
    BY <1>3 DEF CurrEditorChanged
  <2>2. UNCHANGED engineVars
    BY <1>3 DEF CurrEditorChanged
  <2>3. QED
    BY <2>1, <2>2, SetDir
<1>4. CASE ClearConsole
  <2>1. PICK ms : ms = IF refreshOnReady THEN PackageLists ELSE <<>>
    OBVIOUS
  <2>2. ms \in Seq(Request) /\ Steady(ms)
    BY <2>1, SteadyLists, RequestTypes, EmptySeq
  <2>3. QED
    BY <1>4, <2>1, <2>2, SteadyEval DEF ClearConsole, Eval
<1>5. CASE ResetConsole
  <2>1. /\ work_queue' = <<>> /\ toJulia' = <<>> /\ socket' = "null"
        /\ pending_events' = <<>> /\ cursor' = 1 /\ julia_dir' = NoDir
    BY <1>5 DEF ResetConsole, Reset, EngineRestart
  <2>2. UnderWay' = {}
    <3>1. Len(pending_events') = 0
      BY <2>1, EmptySeq
    <3>2. \A j \in cursor'..Len(pending_events') : FALSE
      BY <2>1, <3>1
    <3>3. EventsUnderWay' = {}
      BY <3>2 DEF EventsUnderWay, Requests
    <3>4. ToSet(toJulia') = {}
      BY <2>1, ToSetShort
    <3>5. QED
      BY <3>3, <3>4 DEF UnderWay, ToSet
  <2>3. ~HasDir(ToSet(work_queue'))
    BY <2>1, ToSetShort DEF HasDir
  <2>4. LeadsTo(work_queue, curr_working_dir)'
    BY <2>3 DEF LeadsTo, HasDir, ToSet
  <2>5. QED
    BY <2>1, <2>4 DEF DirInv
<1>6. QED
  BY <1>1, <1>2, <1>3, <1>4, <1>5 DEF User

-----------------------------------------------------------------------------
\* continueOrReady() of the list q: what it leaves queued leads where q did, and what it
\* writes is the head of q, or leaves the directory alone.
LEMMA ContinueQueue ==
  ASSUME NEW q \in Seq(Request), NEW rs \in Seq(Request), Steady(rs), NEW d,
         LeadsTo(q, d)
  PROVE  LET e == ContinueOrReady(q, rs)
         IN  /\ LeadsTo(e.queue, d)
             /\ \/ e.wrote = <<>> /\ q = <<>> /\ e.queue = <<>>
                \/ \E r \in Request :
                     /\ e.wrote = <<r>>
                     /\ ~HasDir(ToSet(e.queue)) =>
                          IF r.typnam = "dir" THEN r = DirMsg(d) ELSE ~HasDir(ToSet(q))
<1> DEFINE e == ContinueOrReady(q, rs)
           Leads == LeadsTo(e.queue, d)
           Silent == e.wrote = <<>> /\ q = <<>> /\ e.queue = <<>>
           Writes(r) == /\ e.wrote = <<r>>
                        /\ ~HasDir(ToSet(e.queue)) =>
                             IF r.typnam = "dir" THEN r = DirMsg(d) ELSE ~HasDir(ToSet(q))
<1>1. SUFFICES Leads /\ (Silent \/ \E r \in Request : Writes(r))
  OBVIOUS
<1>2. CASE q # <<>>
  <2>1. e.queue = Tail(q) /\ e.wrote = <<Head(q)>>
    BY <1>2 DEF ContinueOrReady
  <2>2. /\ Head(q) \in Request
        /\ LeadsTo(Tail(q), d)
        /\ ~HasDir(ToSet(Tail(q))) =>
             IF Head(q).typnam = "dir" THEN Head(q) = DirMsg(d) ELSE ~HasDir(ToSet(q))
    BY <1>2, FirstTaken
  <2> HIDE DEF e
  <2>3. Writes(Head(q))
    BY <2>1, <2>2
  <2>4. QED
    BY <2>1, <2>2, <2>3
<1>3. CASE q = <<>> /\ rs = <<>>
  <2>1. <<>> \o <<>> = <<>>
    BY EmptySeq, ConcatEmptySeq
  <2>2. e.queue = <<>> /\ e.wrote = <<>>
    BY <1>3, <2>1 DEF ContinueOrReady, EvalAll
  <2> HIDE DEF e
  <2>3. QED
    BY <1>3, <2>2, ToSetShort DEF LeadsTo, HasDir
<1>4. CASE q = <<>> /\ rs # <<>>
  <2>1. Head(rs) \in Request /\ Tail(rs) \in Seq(Request)
    BY <1>4, HeadTailProperties
  <2>2. e.queue = <<>> \o Tail(rs) /\ e.wrote = <<Head(rs)>>
    BY <1>4 DEF ContinueOrReady, EvalAll
  <2>3. e.queue = Tail(rs)
    BY <2>1, <2>2, ConcatEmptySeq
  <2> HIDE DEF e
  <2>4. Head(rs) \in ToSet(rs) /\ \A r \in ToSet(Tail(rs)) : r \in ToSet(rs)
    BY <1>4, FirstAndRest
  <2>5. ~HasDir(ToSet(e.queue))
    BY <2>3, <2>4 DEF Steady, HasDir
  <2>6. Head(rs).typnam # "dir" /\ ~HasDir(ToSet(q))
    BY <1>4, <2>4, ToSetShort DEF Steady, HasDir
  <2>7. Writes(Head(rs))
    BY <2>2, <2>6
  <2>8. QED
    BY <2>1, <2>5, <2>7 DEF LeadsTo
<1>5. QED
  BY <1>2, <1>3, <1>4

\* continueOrReady() with nothing under way.
LEMMA ContinueDir ==
  ASSUME NEW q \in Seq(Request), NEW rs \in Seq(Request), Steady(rs),
         LeadsTo(q, curr_working_dir),
         UnderWay = {}, toJulia = <<>>, ~HasDir(ToSet(q)) => WhereSent,
         Becomes(ContinueOrReady(q, rs), <<>>), socket' = "connected",
         UNCHANGED <<engineVars, curr_working_dir>>
  PROVE  DirInv'
<1> DEFINE e == ContinueOrReady(q, rs)
<1>1. /\ LeadsTo(e.queue, curr_working_dir)
      /\ \/ e.wrote = <<>> /\ q = <<>> /\ e.queue = <<>>
         \/ \E r \in Request :
              /\ e.wrote = <<r>>
              /\ ~HasDir(ToSet(e.queue)) =>
                   IF r.typnam = "dir" THEN r = DirMsg(curr_working_dir) ELSE ~HasDir(ToSet(q))
  BY ContinueQueue
<1>2. work_queue' = e.queue /\ toJulia' = <<>> \o <<>> \o e.wrote
  BY DEF Becomes
<1> HIDE DEF e
<1>3. <<>> \o <<>> = <<>> /\ <<>> \in Seq(Request)
  BY EmptySeq, ConcatEmptySeq
<1>4. EventsUnderWay' = {} /\ UNCHANGED <<julia_dir, moved_by_code>>
  BY DEF UnderWay, EventsUnderWay, Requests, engineVars
<1>5. LeadsTo(work_queue, curr_working_dir)'
  BY <1>1, <1>2 DEF LeadsTo, LastDirIs, HasDir, ToSet, DirMsg
<1>6. CASE e.wrote = <<>> /\ q = <<>> /\ e.queue = <<>>
  <2>1. toJulia' = <<>>
    BY <1>2, <1>3, <1>6
  <2>2. UnderWay' = {}
    BY <1>4, <2>1, ToSetShort DEF UnderWay, ToSet
  <2>3. ~HasDir(ToSet(q))
    BY <1>6, ToSetShort DEF HasDir
  <2>4. DirAhead'
    BY <1>4, <2>2, <2>3 DEF DirAhead, WhereSent, HasDir
  <2>5. QED
    BY <1>5, <2>4 DEF DirInv
<1>7. CASE \E r \in Request :
             /\ e.wrote = <<r>>
             /\ ~HasDir(ToSet(e.queue)) =>
                  IF r.typnam = "dir" THEN r = DirMsg(curr_working_dir) ELSE ~HasDir(ToSet(q))
  <2>1. PICK r \in Request :
          /\ e.wrote = <<r>>
          /\ ~HasDir(ToSet(e.queue)) =>
               IF r.typnam = "dir" THEN r = DirMsg(curr_working_dir) ELSE ~HasDir(ToSet(q))
    BY <1>7
  <2>2. toJulia' = <<r>>
    BY <1>2, <1>3, <2>1, Singleton, ConcatEmptySeq
  <2>3. UnderWay' = {r}
    BY <1>4, <2>2, ToSetShort DEF UnderWay, ToSet
  <2>4. ASSUME ~HasDir(ToSet(work_queue))'
        PROVE  DirAhead'
    <3>1. IF r.typnam = "dir" THEN r = DirMsg(curr_working_dir) ELSE ~HasDir(ToSet(q))
      BY <1>2, <2>1, <2>4 DEF HasDir, ToSet
    <3>2. CASE r.typnam = "dir"
      BY <2>3, <3>1, <3>2 DEF DirAhead, WhereSent, HasDir, DirMsg
    <3>3. CASE r.typnam # "dir"
      BY <1>4, <2>3, <3>1, <3>3 DEF DirAhead, WhereSent, HasDir
    <3>4. QED
      BY <3>2, <3>3
  <2>5. QED
    BY <1>5, <2>4 DEF DirInv
<1>8. QED
  BY <1>1, <1>6, <1>7

\* While Julia is up and pieces of a reply are to be read, they are the whole of the
\* request under way.
LEMMA OnlyReply ==
  ASSUME TurnInv, process = "alive", fromJulia # <<>>
  PROVE  UnderWay = {} /\ toJulia = <<>> /\ busy = TRUE
<1>1. /\ toJulia \in Seq(Request) /\ fromJulia \in Seq(Piece)
      /\ Len(toJulia) \in Nat /\ Len(fromJulia) \in Nat
      /\ Len(pending_events) + 1 - cursor \in Nat /\ Len(pending_events) \in Nat /\ cursor \in Nat
      /\ busy \in BOOLEAN
  BY Lengths DEF TurnInv, IInv, TypeOK, WireTypeOK
<1>2. Len(fromJulia) # 0
  BY <1>1, EmptySeq
<1>3. InFlight = IF socket = "connected" /\ busy THEN 1 ELSE 0
  BY DEF TurnInv, OneOutstanding
<1>4. Len(toJulia) = 0 /\ Len(pending_events) + 1 - cursor = 0 /\ busy = TRUE
  <2>1. PICK a \in Nat, b \in Nat, c \in Nat :
          a = Len(toJulia) /\ b = Len(pending_events) + 1 - cursor /\ c = Len(fromJulia)
    BY <1>1
  <2>2. a + b + c = InFlight /\ c # 0
    BY <1>2, <2>1 DEF InFlight
  <2>3. a + b + c \in {0, 1}
    BY <1>3, <2>2
  <2>4. a = 0 /\ b = 0 /\ InFlight # 0
    BY <2>2, <2>3
  <2>5. QED
    BY <1>1, <1>3, <2>1, <2>4
<1>5. toJulia = <<>> /\ ToSet(toJulia) = {}
  BY <1>1, <1>4, EmptySeq, ToSetShort
<1>6. \A j \in cursor..Len(pending_events) : FALSE
  BY <1>1, <1>4
<1>7. EventsUnderWay = {}
  BY <1>6 DEF EventsUnderWay, Requests
<1>8. QED
  BY <1>4, <1>5, <1>7 DEF UnderWay

\* The connection: the directory is sent before anything that was queued.
LEMMA ConnectDir == TurnInv /\ DirInv /\ SocketConnected => DirInv'
<1> SUFFICES ASSUME TurnInv, DirInv, SocketConnected PROVE DirInv'
  OBVIOUS
<1>1. /\ socket = "connecting" /\ process = "alive" /\ socket' = "connected" /\ process' = process
      /\ UNCHANGED <<engineVars, curr_working_dir>> /\ julia_dir' = julia_dir
  BY DEF SocketConnected, OnSocketConnected, engineVars
<1>2. ~busy /\ InFlight = 0
  BY <1>1 DEF TurnInv, NotBusyBefore, OneOutstanding
<1>3. UnderWay = {} /\ toJulia = <<>>
  BY <1>2, NothingUnderWay
<1>4. /\ work_queue \in Seq(Request) /\ curr_working_dir \in Dirs \union {NoDir}
      /\ LeadsTo(work_queue, curr_working_dir) /\ julia_dir = NoDir
  BY <1>1 DEF TurnInv, IInv, TypeOK, IdeTypeOK, DirInv
<1>5. CASE curr_working_dir = NoDir
  <2>1. Becomes(ContinueOrReady(work_queue, OnReady), <<>>)
    BY <1>5 DEF SocketConnected, OnSocketConnected
  <2>2. OnReady \in Seq(Request) /\ Steady(OnReady)
    BY RequestTypes, SteadyLists
  <2>3. WhereSent
    BY <1>4, <1>5 DEF WhereSent
  <2>4. QED
    BY <1>1, <1>3, <1>4, <2>1, <2>2, <2>3, ContinueDir
<1>6. CASE curr_working_dir # NoDir
  <2> DEFINE m == DirMsg(curr_working_dir)
             one == <<m>>
  <2>1. m \in Request /\ m.typnam = "dir"
    BY <1>4, <1>6, RequestTypes DEF DirMsg
  <2>2. Becomes(EvalAll("connected", busy, work_queue, one), <<>>)
    BY <1>6 DEF SocketConnected, OnSocketConnected
  <2> HIDE DEF m
  <2>3. one \in Seq(Request) /\ one # <<>> /\ Head(one) = m /\ Tail(one) = <<>>
    BY <2>1, Singleton
  <2> HIDE DEF one
  <2>4. EvalAll("connected", busy, work_queue, one)
          = [busy |-> TRUE, queue |-> work_queue \o <<>>, wrote |-> <<m>>]
    BY <1>2, <2>3 DEF EvalAll
  <2>5. work_queue' = work_queue \o <<>> /\ toJulia' = <<>> \o <<>> \o <<m>>
    BY <1>3, <2>2, <2>4 DEF Becomes
  <2>6. work_queue' = work_queue
    BY <1>4, <2>5, ConcatEmptySeq
  <2>7. toJulia' = <<m>>
    <3>1. <<>> \o <<>> = <<>> /\ <<m>> \in Seq(Request)
      BY <2>1, EmptySeq, ConcatEmptySeq, Singleton
    <3>2. QED
      BY <2>5, <3>1, ConcatEmptySeq
  <2>8. EventsUnderWay' = {}
    BY <1>1, <1>3 DEF UnderWay, EventsUnderWay, Requests, engineVars
  <2>9. UnderWay' = {m}
    BY <2>7, <2>8, ToSetShort DEF UnderWay, ToSet
  <2>10. HasDir(UnderWay)' /\ DirMsg(curr_working_dir)' \in UnderWay'
    BY <1>1, <2>1, <2>9 DEF HasDir, DirMsg, m
  <2>11. LeadsTo(work_queue, curr_working_dir)'
    BY <1>1, <1>4, <2>6 DEF LeadsTo, LastDirIs, HasDir, ToSet, DirMsg
  <2>12. QED
    BY <1>1, <2>10, <2>11 DEF DirInv, DirAhead, WhereSent
<1>7. QED
  BY <1>5, <1>6

\* A reply: what output() has evaluated and what continueOrReady() writes next.
LEMMA OutputDir == TurnInv /\ DirInv /\ SocketOutput => DirInv'
<1> SUFFICES ASSUME TurnInv, DirInv, SocketOutput PROVE DirInv'
  OBVIOUS
<1> DEFINE FollowUpsOf(k) ==
             IF IsDocument(SubSeq(fromJulia, 1, k))
             THEN FollowUps(SubSeq(fromJulia, 1, k)[1].reply) ELSE <<>>
           EvalIn(ms) == EvalAll("connected", busy, work_queue, ms)
<1>1. PICK k \in 1..Len(fromJulia) :
        OnSocketOutput(k, FollowUpsOf(k), OnReady) /\ UNCHANGED engineVars
  BY DEF SocketOutput
<1>2. PICK ms \in Seq(Request) : ms = FollowUpsOf(k) /\ Steady(ms)
  BY RequestTypes, EmptySeq, SteadyLists
<1> HIDE DEF FollowUpsOf
<1>3. /\ socket = "connected" /\ socket' = "connected" /\ process' = process
      /\ curr_working_dir' = curr_working_dir
      /\ Becomes(ContinueOrReady(EvalIn(ms).queue, OnReady), EvalIn(ms).wrote)
  BY <1>1, <1>2 DEF OnSocketOutput
<1>4. /\ work_queue \in Seq(Request) /\ fromJulia \in Seq(Piece) /\ IdleMeansDrained
      /\ busy \in BOOLEAN /\ OnReady \in Seq(Request) /\ Steady(OnReady)
  BY RequestTypes, SteadyLists DEF TurnInv, IInv, TypeOK, IdeTypeOK, WireTypeOK
<1>5. /\ LeadsTo(work_queue, curr_working_dir)
      /\ process = "alive" /\ ~HasDir(ToSet(work_queue)) => DirAhead
  BY <1>3 DEF DirInv
<1>6. /\ EvalIn(ms).queue \in Seq(Request)
      /\ LeadsTo(EvalIn(ms).queue, curr_working_dir)
      /\ busy => /\ EvalIn(ms).wrote = <<>>
                 /\ HasDir(ToSet(EvalIn(ms).queue)) <=> HasDir(ToSet(work_queue))
  <2>1. CASE busy \/ ms = <<>>
    <3>1. EvalIn(ms).queue = work_queue \o ms /\ EvalIn(ms).wrote = <<>>
      BY <2>1 DEF EvalAll
    <3> HIDE DEF EvalIn
    <3>2. work_queue \o ms \in Seq(Request)
      BY <1>4, Joined
    <3>3. QED
      BY <1>2, <1>4, <1>5, <3>1, <3>2, SteadyBehind
  <2>2. CASE ~busy /\ ms # <<>>
    <3>1. EvalIn(ms).queue = work_queue \o Tail(ms)
      BY <2>2 DEF EvalAll
    <3> HIDE DEF EvalIn
    <3>2. work_queue = <<>> /\ Tail(ms) \in Seq(Request)
      BY <1>3, <1>4, <2>2, HeadTailProperties DEF IdleMeansDrained
    <3>3. EvalIn(ms).queue = Tail(ms)
      BY <3>1, <3>2, ConcatEmptySeq
    <3>4. \A r \in ToSet(Tail(ms)) : r \in ToSet(ms)
      BY <2>2, FirstAndRest
    <3>5. ~HasDir(ToSet(Tail(ms)))
      BY <1>2, <3>4 DEF Steady, HasDir
    <3>6. QED
      BY <2>2, <3>2, <3>3, <3>5 DEF LeadsTo
  <2>3. QED
    BY <2>1, <2>2
<1> HIDE DEF EvalIn
<1>7. CASE process = "alive"
  <2>1. fromJulia # <<>>
    BY <1>1, EmptySeq
  <2>2. UnderWay = {} /\ toJulia = <<>> /\ busy = TRUE
    BY <1>7, <2>1, OnlyReply
  <2>3. ~HasDir(ToSet(EvalIn(ms).queue)) => WhereSent
    BY <1>5, <1>6, <1>7, <2>2 DEF DirAhead, WhereSent, HasDir
  <2>4. Becomes(ContinueOrReady(EvalIn(ms).queue, OnReady), <<>>)
    BY <1>3, <1>6, <2>2
  <2>5. QED
    BY <1>1, <1>3, <1>4, <1>6, <2>2, <2>3, <2>4, ContinueDir
<1>8. CASE process # "alive"
  <2>1. /\ LeadsTo(ContinueOrReady(EvalIn(ms).queue, OnReady).queue, curr_working_dir)
    BY <1>4, <1>6, ContinueQueue
  <2>2. work_queue' = ContinueOrReady(EvalIn(ms).queue, OnReady).queue
    BY <1>3 DEF Becomes
  <2>3. LeadsTo(work_queue', curr_working_dir)
    BY <2>1, <2>2
  <2>4. LeadsTo(work_queue, curr_working_dir)'
    BY <1>3, <2>3 DEF LeadsTo, LastDirIs, HasDir, ToSet, DirMsg
  <2>5. QED
    BY <1>3, <1>8, <2>4 DEF DirInv
<1>9. QED
  BY <1>7, <1>8

\* Nothing that says where Julia is going has changed.
LEMMA SameDir ==
  ASSUME DirInv, UNCHANGED <<work_queue, curr_working_dir, julia_dir, moved_by_code, process, UnderWay>>,
         socket' = "connected" <=> socket = "connected"
  PROVE  DirInv'
<1>1. LeadsTo(work_queue, curr_working_dir)'
  BY DEF DirInv, LeadsTo, LastDirIs, HasDir, ToSet, DirMsg
<1>2. DirAhead => DirAhead'
  BY DEF DirAhead, WhereSent, HasDir, DirMsg
<1>3. HasDir(ToSet(work_queue))' <=> HasDir(ToSet(work_queue))
  BY DEF HasDir, ToSet
<1>4. QED
  BY <1>1, <1>2, <1>3 DEF DirInv

LEMMA IdeDir == TurnInv /\ DirInv /\ Ide => DirInv'
<1> SUFFICES ASSUME TurnInv, DirInv, Ide PROVE DirInv'
  OBVIOUS
<1>1. CASE ReadStdout
  <2>1. PICK k \in 1..Len(stdout) : OnProcessStdout(k)
    BY <1>1 DEF ReadStdout
  <2>2. /\ UNCHANGED <<work_queue, curr_working_dir, process, toJulia, engineVars>>
        /\ socket' = "connected" <=> socket = "connected"
    BY <1>1, <2>1 DEF ReadStdout, OnProcessStdout
  <2>3. UNCHANGED <<UnderWay, julia_dir, moved_by_code>>
    BY <2>2 DEF UnderWay, EventsUnderWay, Requests, engineVars, ToSet
  <2>4. QED
    BY <2>2, <2>3, SameDir
<1>2. CASE SocketConnected
  BY <1>2, ConnectDir
<1>3. CASE SocketOutput
  BY <1>3, OutputDir
<1>4. CASE SocketClosed
  <2>1. /\ UNCHANGED <<work_queue, curr_working_dir>> /\ process' = "dead"
    BY <1>4 DEF SocketClosed, OnSocketClosed, wireVars
  <2>2. LeadsTo(work_queue, curr_working_dir)'
    BY <2>1 DEF DirInv, LeadsTo, LastDirIs, HasDir, ToSet, DirMsg
  <2>3. QED
    BY <2>1, <2>2 DEF DirInv
<1>5. QED
  BY <1>1, <1>2, <1>3, <1>4 DEF Ide

-----------------------------------------------------------------------------
\* Requests move from place to place in Julia, until a handler carries one out.
LEMMA RequestsFacts ==
  ASSUME NEW pe \in Seq(Event), NEW c \in 1..(Len(pe) + 1)
  PROVE  /\ \A e \in Event :
              Requests(Append(pe, e), c)
                = Requests(pe, c) \union (IF e.name = "networkIn" THEN {e.msg} ELSE {})
         /\ c <= Len(pe) =>
              Requests(pe, c)
                = Requests(pe, c + 1) \union (IF pe[c].name = "networkIn" THEN {pe[c].msg} ELSE {})
         /\ c > Len(pe) => Requests(pe, c) = {}
<1> DEFINE n == Len(pe)
<1>1. n \in Nat /\ c \in Nat /\ 1 <= c /\ c <= n + 1
  BY LenProperties
<1>2. ASSUME NEW e \in Event
      PROVE  Requests(Append(pe, e), c)
               = Requests(pe, c) \union (IF e.name = "networkIn" THEN {e.msg} ELSE {})
  <2> DEFINE more == Append(pe, e)
  <2>1. Len(more) = n + 1 /\ more[n + 1] = e /\ \A i \in 1..n : more[i] = pe[i]
    BY AppendProperties
  <2> HIDE DEF more, n
  <2>2. \A i : i \in c..n + 1 <=> i \in c..n \/ i = n + 1
    BY <1>1
  <2>3. \A i \in c..n : i \in 1..n /\ i # n + 1
    BY <1>1
  <2>4. /\ Requests(pe, c) = {pe[i].msg : i \in {j \in c..n : pe[j].name = "networkIn"}}
        /\ Requests(more, c) = {more[i].msg : i \in {j \in c..n + 1 : more[j].name = "networkIn"}}
    BY <2>1 DEF Requests, n
  <2>5. \A m : m \in Requests(pe, c) <=> \E i \in c..n : pe[i].name = "networkIn" /\ m = pe[i].msg
    BY <2>4
  <2>6. \A m : m \in Requests(more, c) <=>
               \E i \in c..n + 1 : more[i].name = "networkIn" /\ m = more[i].msg
    BY <2>4
  <2>7. \A m : m \in Requests(more, c) <=> m \in Requests(pe, c) \/ (e.name = "networkIn" /\ m = e.msg)
    BY <2>1, <2>2, <2>3, <2>5, <2>6
  <2>8. QED
    BY <2>7 DEF more
<1>3. ASSUME c <= n
      PROVE  Requests(pe, c)
               = Requests(pe, c + 1) \union (IF pe[c].name = "networkIn" THEN {pe[c].msg} ELSE {})
  <2>1. \A i : i \in c..n <=> i \in (c + 1)..n \/ i = c
    BY <1>1, <1>3
  <2>2. \A m : m \in Requests(pe, c) <=> \E i \in c..n : pe[i].name = "networkIn" /\ m = pe[i].msg
    BY DEF Requests
  <2>3. \A m : m \in Requests(pe, c + 1) <=>
               \E i \in (c + 1)..n : pe[i].name = "networkIn" /\ m = pe[i].msg
    BY DEF Requests
  <2> HIDE DEF n
  <2>4. \A m : m \in Requests(pe, c) <=>
               m \in Requests(pe, c + 1) \/ (pe[c].name = "networkIn" /\ m = pe[c].msg)
    BY <2>1, <2>2, <2>3
  <2>5. QED
    BY <2>4
<1>4. ASSUME c > n
      PROVE  Requests(pe, c) = {}
  <2>1. \A j \in c..n : FALSE
    BY <1>1, <1>4
  <2>2. QED
    BY <2>1 DEF Requests
<1>5. QED
  BY <1>2, <1>3, <1>4

\* The request a handler is about to carry out is the only one under way.
LEMMA OnlyRequest ==
  ASSUME TurnInv, process = "alive", Taking("networkIn")
  PROVE  /\ socket = "connected" /\ toJulia = <<>>
         /\ cursor = Len(pending_events) /\ UnderWay = {pending_events[cursor].msg}
<1>1. /\ toJulia \in Seq(Request) /\ Len(toJulia) \in Nat /\ Len(fromJulia) \in Nat
      /\ Len(pending_events) \in Nat /\ cursor \in Nat /\ cursor <= Len(pending_events)
      /\ pending_events \in Seq(Event) /\ cursor \in 1..(Len(pending_events) + 1)
      /\ pending_events[cursor].name = "networkIn"
  BY Lengths DEF TurnInv, IInv, TypeOK, WireTypeOK, EngineTypeOK, Taking
<1>2. InFlight = IF socket = "connected" /\ busy THEN 1 ELSE 0
  BY DEF TurnInv, OneOutstanding
<1>3. Len(toJulia) = 0 /\ cursor = Len(pending_events) /\ socket = "connected"
  <2>1. PICK a \in Nat, l \in Nat, k \in Nat, c \in Nat :
          a = Len(toJulia) /\ l = Len(pending_events) /\ k = cursor /\ c = Len(fromJulia)
    BY <1>1
  <2>2. a + (l + 1 - k) + c = InFlight /\ k <= l
    BY <1>1, <2>1 DEF InFlight
  <2>3. a + (l + 1 - k) + c \in {0, 1}
    BY <1>2, <2>2
  <2>4. a = 0 /\ k = l /\ InFlight # 0
    BY <2>2, <2>3
  <2>5. QED
    BY <1>2, <2>1, <2>4
<1>4. toJulia = <<>> /\ ToSet(toJulia) = {}
  BY <1>1, <1>3, EmptySeq, ToSetShort
<1>5. Requests(pending_events, cursor + 1) = {}
  <2>1. \A j \in (cursor + 1)..Len(pending_events) : FALSE
    BY <1>1, <1>3
  <2>2. QED
    BY <2>1 DEF Requests
<1>6. EventsUnderWay = {pending_events[cursor].msg}
  <2>1. Requests(pending_events, cursor)
          = Requests(pending_events, cursor + 1)
              \union (IF pending_events[cursor].name = "networkIn" THEN {pending_events[cursor].msg} ELSE {})
    BY <1>1, RequestsFacts
  <2>2. QED
    BY <1>1, <1>5, <2>1 DEF EventsUnderWay
<1>7. QED
  BY <1>3, <1>4, <1>6 DEF UnderWay

LEMMA EngineDir == TurnInv /\ DirInv /\ Engine => DirInv'
<1> SUFFICES ASSUME TurnInv, DirInv, Engine PROVE DirInv'
  OBVIOUS
<1>0. /\ toJulia \in Seq(Request) /\ pending_events \in Seq(Event)
      /\ cursor \in 1..(Len(pending_events) + 1) /\ EndsTogether
      /\ process \in {"alive", "dead"}
      /\ UNCHANGED <<socket, work_queue, curr_working_dir>>
  BY DEF TurnInv, IInv, TypeOK, WireTypeOK, EngineTypeOK, Engine, ideVars
<1>1. CASE AcceptOneOn \/ Initialize \/ EventLoop
  <2>1. UNCHANGED <<toJulia, pending_events, cursor, julia_dir, moved_by_code, process>>
    BY <1>1 DEF AcceptOneOn, Initialize, EventLoop, wireVars
  <2>2. UNCHANGED UnderWay
    BY <2>1 DEF UnderWay, EventsUnderWay, Requests, ToSet
  <2>3. QED
    BY <1>0, <2>1, <2>2, SameDir
<1>2. CASE ProcessIncoming
  <2> DEFINE r == Head(toJulia)
  <2>1. /\ UNCHANGED <<cursor, process, julia_dir, moved_by_code>> /\ toJulia # <<>> /\ toJulia' = Tail(toJulia)
        /\ pending_events' = Append(pending_events, NetworkIn(r))
    BY <1>2 DEF ProcessIncoming, NewEvent
  <2>2. r \in Request
    BY <1>0, <2>1, HeadTailProperties
  <2> HIDE DEF r
  <2>3. NetworkIn(r) \in Event /\ NetworkIn(r).name = "networkIn" /\ NetworkIn(r).msg = r
    BY <2>2 DEF NetworkIn, Event
  <2>4. EventsUnderWay' = EventsUnderWay \union {r}
    BY <1>0, <2>1, <2>3, RequestsFacts DEF EventsUnderWay
  <2>5. ToSet(toJulia) = {r} \union ToSet(toJulia')
    <3>1. \A x : x \in ToSet(toJulia) <=> x = r \/ x \in ToSet(Tail(toJulia))
      BY <1>0, <2>1, FirstAndRest DEF r
    <3>2. QED
      BY <2>1, <3>1
  <2>6. UNCHANGED UnderWay
    BY <2>4, <2>5 DEF UnderWay, ToSet
  <2>7. QED
    BY <1>0, <2>1, <2>6, SameDir
<1>3. CASE HandleInput
  <2> DEFINE r == pending_events[cursor].msg
  <2>1. /\ Taking("networkIn") /\ UNCHANGED <<process, toJulia>> /\ cursor' = cursor + 1
        /\ ChangeDir(r)
    BY <1>3 DEF HandleInput, wireVars
  <2>2. process = "alive"
    BY <1>0, <2>1 DEF Taking, EndsTogether
  <2>3. /\ socket = "connected" /\ toJulia = <<>>
        /\ cursor = Len(pending_events) /\ UnderWay = {r}
    BY <2>1, <2>2, OnlyRequest
  <2>4. PICK rep \in RepliesTo(r) : NewEvent(NetworkOut(rep))
    BY <1>3 DEF HandleInput
  <2> HIDE DEF r
  <2>5. EventsUnderWay' = {}
    <3> DEFINE e == NetworkOut(rep)
               n == Len(pending_events)
    <3>1. e.name = "networkOut" /\ pending_events' = Append(pending_events, e) /\ n \in Nat
      BY <1>0, <2>4, LenProperties DEF NewEvent, NetworkOut
    <3>2. Len(pending_events') = n + 1 /\ pending_events'[n + 1] = e
      <4> HIDE DEF e
      <4>1. QED
        BY <1>0, <3>1
    <3> HIDE DEF e, n
    <3>3. \A i \in cursor'..Len(pending_events') : i = n + 1
      BY <2>1, <2>3, <3>1, <3>2 DEF n
    <3>4. \A i \in cursor'..Len(pending_events') : pending_events'[i].name # "networkIn"
      BY <3>1, <3>2, <3>3
    <3>5. QED
      BY <3>4 DEF EventsUnderWay, Requests
  <2>6. UnderWay' = {}
    BY <2>1, <2>3, <2>5, ToSetShort DEF UnderWay, ToSet
  <2>7. (~HasDir(ToSet(work_queue)) => DirAhead)
    BY <2>2, <2>3 DEF DirInv
  <2>8. ~HasDir(ToSet(work_queue)) => WhereSent'
    <3>1. CASE r.typnam = "dir"
      <4>1. DirAhead => r = DirMsg(curr_working_dir)
        BY <2>3, <3>1 DEF DirAhead, WhereSent, HasDir
      <4>2. QED
        BY <1>0, <2>1, <2>7, <3>1, <4>1 DEF DirMsg, ChangeDir, WhereSent
    <3>2. CASE r.typnam # "dir"
      <4>1. ~HasDir(ToSet(work_queue)) => WhereSent
        BY <2>3, <2>7, <3>2 DEF DirAhead, HasDir
      <4>2. QED
        BY <1>0, <2>1, <3>2, <4>1 DEF ChangeDir, WhereSent
    <3>3. QED
      BY <3>1, <3>2
  <2>9. LeadsTo(work_queue, curr_working_dir)'
    BY <1>0 DEF DirInv, LeadsTo, LastDirIs, HasDir, ToSet, DirMsg
  <2>10. (~HasDir(ToSet(work_queue)) => DirAhead')
    BY <1>0, <2>6, <2>8 DEF DirAhead, WhereSent, HasDir
  <2>11. HasDir(ToSet(work_queue))' <=> HasDir(ToSet(work_queue))
    BY <1>0 DEF HasDir, ToSet
  <2>12. QED
    BY <1>0, <2>1, <2>3, <2>9, <2>10, <2>11 DEF DirInv
<1>4. CASE EngineCallback
  <2>1. /\ UNCHANGED <<toJulia, pending_events, julia_dir, moved_by_code, process>> /\ cursor' = cursor + 1
        /\ cursor <= Len(pending_events) /\ pending_events[cursor].name = "networkOut"
    BY <1>4 DEF EngineCallback, Taking
  <2>2. Requests(pending_events, cursor) = Requests(pending_events, cursor + 1)
    <3>1. Requests(pending_events, cursor)
            = Requests(pending_events, cursor + 1)
                \union (IF pending_events[cursor].name = "networkIn" THEN {pending_events[cursor].msg} ELSE {})
      BY <1>0, <2>1, RequestsFacts
    <3>2. pending_events[cursor].name # "networkIn"
      BY <2>1
    <3>3. QED
      BY <3>1, <3>2
  <2>3. EventsUnderWay' = EventsUnderWay
    BY <2>1, <2>2 DEF EventsUnderWay
  <2>4. UNCHANGED UnderWay
    BY <2>1, <2>3 DEF UnderWay, ToSet
  <2>5. QED
    BY <1>0, <2>1, <2>4, SameDir
<1>5. CASE HandledAll
  <2>1. /\ UNCHANGED <<toJulia, julia_dir, moved_by_code, process>>
        /\ cursor > Len(pending_events) /\ pending_events' = <<>> /\ cursor' = 1
    BY <1>5 DEF HandledAll, wireVars
  <2>2. EventsUnderWay = {}
    BY <1>0, <2>1, RequestsFacts DEF EventsUnderWay
  <2>3. EventsUnderWay' = {}
    <3>1. Len(pending_events') = 0
      BY <2>1, EmptySeq
    <3>2. \A j \in cursor'..Len(pending_events') : FALSE
      BY <2>1, <3>1
    <3>3. QED
      BY <3>2 DEF EventsUnderWay, Requests
  <2>4. UNCHANGED UnderWay
    BY <2>1, <2>2, <2>3 DEF UnderWay, ToSet
  <2>5. QED
    BY <1>0, <2>1, <2>4, SameDir
<1>6. CASE HandlerThrows \/ Crash
  <2>1. process' = "dead"
    BY <1>6 DEF HandlerThrows, Crash, Die
  <2>2. LeadsTo(work_queue, curr_working_dir)'
    BY <1>0 DEF DirInv, LeadsTo, LastDirIs, HasDir, ToSet, DirMsg
  <2>3. QED
    BY <2>1, <2>2 DEF DirInv
<1>7. QED
  BY <1>1, <1>2, <1>3, <1>4, <1>5, <1>6 DEF Engine

\* In a session whose replies all arrive in one piece, Julia is in the directory of the
\* current editor whenever the session is idle and no evaluated code has moved it since it
\* was last sent there, through every interleaving of editors, commands, connections and
\* resets (localtcpevaluator.cpp setWorkingDir, onSocketConnected, reset).
THEOREM WorkingDirIsFollowed ==
  ASSUME Split = {}
  PROVE  Spec => []WorkingDirFollows
<1>1. Init => TurnInv /\ DirInv
  BY InitTurn, InitDir
<1>2. TurnInv /\ DirInv /\ [Next]_vars => (TurnInv /\ DirInv)'
  <2> SUFFICES ASSUME TurnInv, DirInv, [Next]_vars PROVE TurnInv' /\ DirInv'
    OBVIOUS
  <2>1. TurnInv'
    BY StepTurn
  <2>2. CASE Next
    BY <2>1, <2>2, UserDir, IdeDir, EngineDir DEF Next
  <2>3. CASE UNCHANGED vars
    <3>1. UNCHANGED <<work_queue, curr_working_dir, julia_dir, moved_by_code, process, socket,
                     toJulia, pending_events, cursor>>
      BY <2>3 DEF vars, wireVars, ideVars, engineVars
    <3>2. UNCHANGED UnderWay
      BY <3>1 DEF UnderWay, EventsUnderWay, Requests, ToSet
    <3>3. QED
      BY <2>1, <3>1, <3>2, SameDir
  <2>4. QED
    BY <2>2, <2>3
<1>3. TurnInv /\ DirInv => WorkingDirFollows
  <2> SUFFICES ASSUME TurnInv, DirInv, process = "alive", socket = "connected", ~busy, ~moved_by_code
               PROVE  julia_dir = curr_working_dir
    BY DEF WorkingDirFollows
  <2>1. work_queue = <<>> /\ InFlight = 0
    BY DEF TurnInv, IInv, IdleMeansDrained, OneOutstanding
  <2>2. UnderWay = {} /\ ~HasDir(ToSet(work_queue))
    BY <2>1, NothingUnderWay, ToSetShort DEF HasDir
  <2>3. QED
    BY <2>2 DEF DirInv, DirAhead, WhereSent, HasDir
<1>4. QED
  BY <1>1, <1>2, <1>3, PTL DEF Spec

-----------------------------------------------------------------------------
(* The session as the command service sees it.                              *)

\* What a list of events holds for one kind of handler.
LEMMA MsgsOfFew ==
  ASSUME NEW name
  PROVE  /\ MsgsNamed(name, <<>>) = <<>>
         /\ \A e : MsgsNamed(name, <<e>>) = IF e.name = name THEN <<e.msg>> ELSE <<>>
<1>1. MsgsNamed(name, <<>>) = <<>>
  <2>1. [i \in DOMAIN <<>> |-> IF <<>>[i].name = name THEN <<<<>>[i].msg>> ELSE <<>>] = <<>>
    OBVIOUS
  <2> QED BY <2>1, FlattenEmpty DEF MsgsNamed
<1>2. ASSUME NEW e
      PROVE  MsgsNamed(name, <<e>>) = IF e.name = name THEN <<e.msg>> ELSE <<>>
  <2> DEFINE list == IF e.name = name THEN <<e.msg>> ELSE <<>>
  <2>1. [i \in DOMAIN <<e>> |-> IF <<e>>[i].name = name THEN <<<<e>>[i].msg>> ELSE <<>>]
          = <<list>>
    OBVIOUS
  <2>2. list \in Seq({e.msg})
    <3> DEFINE one == <<e.msg>>
    <3>1. one \in Seq({e.msg}) /\ <<>> \in Seq({e.msg})
      BY EmptySeq
    <3> HIDE DEF one
    <3> QED BY <3>1 DEF one
  <2>3. FlattenSeq(<<list>>) = list
    <3> HIDE DEF list
    <3> QED BY <2>2, FlattenOne
  <2> QED BY <2>1, <2>3 DEF MsgsNamed
<1> QED BY <1>1, <1>2

\* RepliesUnderWay and RequestsUnderWay of any events and any contents of the socket.
RepliesOf(pieces) == [i \in DOMAIN pieces |-> pieces[i].reply]
RequestsOf(replies) == [i \in DOMAIN replies |-> replies[i].to]
RepliesIn(es, fj) == MsgsNamed("networkOut", es) \o RepliesOf(fj)
RequestsIn(tj, es, fj) == tj \o MsgsNamed("networkIn", es) \o RequestsOf(RepliesIn(es, fj))

\* Of one request under way, or its reply, the service sees the same wherever it is.
LEMMA PlacesSeen ==
  /\ RequestsIn(<<>>, <<>>, <<>>) = <<>> /\ RepliesIn(<<>>, <<>>) = <<>>
  /\ \A r \in Request :
       /\ RequestsIn(<<r>>, <<>>, <<>>) = <<r>>
       /\ RequestsIn(<<>>, <<NetworkIn(r)>>, <<>>) = <<r>>
       /\ RepliesIn(<<NetworkIn(r)>>, <<>>) = <<>>
  /\ \A rep \in Reply :
       /\ RequestsIn(<<>>, <<NetworkOut(rep)>>, <<>>) = <<rep.to>>
       /\ RepliesIn(<<NetworkOut(rep)>>, <<>>) = <<rep>>
  /\ \A p \in Piece :
       /\ RequestsIn(<<>>, <<>>, <<p>>) = <<p.reply.to>>
       /\ RepliesIn(<<>>, <<p>>) = <<p.reply>>
<1>1. /\ RepliesOf(<<>>) = <<>> /\ RequestsOf(<<>>) = <<>>
      /\ \A p : RepliesOf(<<p>>) = <<p.reply>>
      /\ \A rep : RequestsOf(<<rep>>) = <<rep.to>>
  BY DEF RepliesOf, RequestsOf
<1>2. <<>> \o <<>> = <<>> /\ \A x : <<x>> \o <<>> = <<x>> /\ <<>> \o <<x>> = <<x>>
  OBVIOUS
<1>3. \A name : MsgsNamed(name, <<>>) = <<>>
  BY MsgsOfFew
<1>4. RepliesIn(<<>>, <<>>) = <<>> /\ RequestsIn(<<>>, <<>>, <<>>) = <<>>
  BY <1>1, <1>2, <1>3 DEF RepliesIn, RequestsIn
<1>5. ASSUME NEW r \in Request
      PROVE  /\ RequestsIn(<<r>>, <<>>, <<>>) = <<r>>
             /\ RequestsIn(<<>>, <<NetworkIn(r)>>, <<>>) = <<r>>
             /\ RepliesIn(<<NetworkIn(r)>>, <<>>) = <<>>
  <2> DEFINE e == NetworkIn(r)
  <2>1. e.name = "networkIn" /\ e.msg = r
    BY DEF NetworkIn
  <2> HIDE DEF e
  <2>2. MsgsNamed("networkIn", <<e>>) = <<r>> /\ MsgsNamed("networkOut", <<e>>) = <<>>
    BY <2>1, MsgsOfFew
  <2>3. RepliesIn(<<e>>, <<>>) = <<>>
    BY <1>1, <1>2, <2>2 DEF RepliesIn
  <2>4. RequestsIn(<<>>, <<e>>, <<>>) = (<<>> \o <<r>>) \o <<>>
    BY <1>1, <2>2, <2>3 DEF RequestsIn
  <2>5. RequestsIn(<<r>>, <<>>, <<>>) = (<<r>> \o <<>>) \o <<>>
    BY <1>1, <1>3, <1>4 DEF RequestsIn
  <2> QED BY <1>2, <2>3, <2>4, <2>5 DEF e
<1>6. ASSUME NEW rep \in Reply
      PROVE  /\ RequestsIn(<<>>, <<NetworkOut(rep)>>, <<>>) = <<rep.to>>
             /\ RepliesIn(<<NetworkOut(rep)>>, <<>>) = <<rep>>
  <2> DEFINE e == NetworkOut(rep)
  <2>1. e.name = "networkOut" /\ e.msg = rep
    BY DEF NetworkOut
  <2> HIDE DEF e
  <2>2. MsgsNamed("networkIn", <<e>>) = <<>> /\ MsgsNamed("networkOut", <<e>>) = <<rep>>
    BY <2>1, MsgsOfFew
  <2>3. RepliesIn(<<e>>, <<>>) = <<rep>>
    BY <1>1, <1>2, <2>2 DEF RepliesIn
  <2>4. RequestsIn(<<>>, <<e>>, <<>>) = (<<>> \o <<>>) \o <<rep.to>>
    BY <1>1, <2>2, <2>3 DEF RequestsIn
  <2> QED BY <1>2, <2>3, <2>4 DEF e
<1>7. ASSUME NEW p \in Piece
      PROVE  /\ RequestsIn(<<>>, <<>>, <<p>>) = <<p.reply.to>>
             /\ RepliesIn(<<>>, <<p>>) = <<p.reply>>
  <2> DEFINE rep == p.reply
  <2>1. RepliesOf(<<p>>) = <<rep>>
    BY <1>1
  <2> HIDE DEF rep
  <2>2. RepliesIn(<<>>, <<p>>) = <<rep>>
    BY <1>2, <1>3, <2>1 DEF RepliesIn
  <2>3. RequestsIn(<<>>, <<>>, <<p>>) = (<<>> \o <<>>) \o <<rep.to>>
    BY <1>1, <1>3, <2>2 DEF RequestsIn
  <2> QED BY <1>2, <2>2, <2>3 DEF rep
<1> QED BY <1>4, <1>5, <1>6, <1>7

\* What a list of events holds from a place near its end on.
LEMMA LastEvents ==
  ASSUME NEW pe \in Seq(Event), NEW c \in Nat
  PROVE  /\ c = Len(pe) + 1 => SubSeq(pe, c, Len(pe)) = <<>>
         /\ c \in 1..Len(pe) /\ c = Len(pe) => SubSeq(pe, c, Len(pe)) = <<pe[c]>>
<1>1. Len(pe) \in Nat
  BY LenProperties
<1>2. ASSUME c = Len(pe) + 1
      PROVE  SubSeq(pe, c, Len(pe)) = <<>>
  <2>1. c > Len(pe)
    BY <1>1, <1>2
  <2> QED BY <1>1, <2>1
<1>3. ASSUME c \in 1..Len(pe), c = Len(pe)
      PROVE  SubSeq(pe, c, Len(pe)) = <<pe[c]>>
  <2> DEFINE s == SubSeq(pe, c, c)
           k == c - 1
  <2>1. k \in 0..Len(pe) /\ k + 1 = c /\ Len(pe) - k = 1
    BY <1>1, <1>3
  <2>2. s = SubSeq(pe, k + 1, Len(pe))
    BY <1>3, <2>1
  <2> HIDE DEF s, k
  <2>3. s \in Seq(Event) /\ Len(s) = Len(pe) - k /\ \A j \in 1..Len(pe) - k : s[j] = pe[k + j]
    BY <2>1, <2>2, BehindFacts
  <2>4. 1 \in 1..1
    OBVIOUS
  <2>5. s \in Seq(Event) /\ Len(s) = 1 /\ s[1] = pe[c]
    BY <2>1, <2>3, <2>4
  <2>6. s = <<pe[c]>>
    BY ONLY <2>5
  <2> QED BY <1>3, <2>6 DEF s
<1> QED BY <1>2, <1>3

\* The four places of a request under way, and none.
Nowhere(tj, pe, c, fj) == tj = <<>> /\ c = Len(pe) + 1 /\ fj = <<>>
Unread(r, tj, pe, c, fj) == tj = <<r>> /\ c = Len(pe) + 1 /\ fj = <<>>
AsEvent(e, tj, pe, c, fj) ==
  tj = <<>> /\ c \in 1..Len(pe) /\ c = Len(pe) /\ pe[c] = e /\ fj = <<>>
AsPiece(p, tj, pe, c, fj) == tj = <<>> /\ c = Len(pe) + 1 /\ fj = <<p>>

\* What the service sees of each.
Sees(current, answer, tj, pe, c, fj) ==
  /\ RequestsIn(tj, SubSeq(pe, c, Len(pe)), fj) = current
  /\ RepliesIn(SubSeq(pe, c, Len(pe)), fj) = answer

LEMMA SeenAt ==
  ASSUME NEW tj, NEW pe \in Seq(Event), NEW c \in Nat, NEW fj
  PROVE  /\ Nowhere(tj, pe, c, fj) => Sees(<<>>, <<>>, tj, pe, c, fj)
         /\ \A r \in Request :
              \/ Unread(r, tj, pe, c, fj)
              \/ AsEvent(NetworkIn(r), tj, pe, c, fj)
              => Sees(<<r>>, <<>>, tj, pe, c, fj)
         /\ \A rep \in Reply :
              AsEvent(NetworkOut(rep), tj, pe, c, fj) => Sees(<<rep.to>>, <<rep>>, tj, pe, c, fj)
         /\ \A p \in Piece :
              AsPiece(p, tj, pe, c, fj) => Sees(<<p.reply.to>>, <<p.reply>>, tj, pe, c, fj)
<1> DEFINE es == SubSeq(pe, c, Len(pe))
<1>1. /\ c = Len(pe) + 1 => es = <<>>
      /\ c \in 1..Len(pe) /\ c = Len(pe) => es = <<pe[c]>>
  BY LastEvents
<1> HIDE DEF es
<1>2. \A current, answer :
        Sees(current, answer, tj, pe, c, fj)
          <=> RequestsIn(tj, es, fj) = current /\ RepliesIn(es, fj) = answer
  BY DEF Sees, es
<1>3. Nowhere(tj, pe, c, fj) => Sees(<<>>, <<>>, tj, pe, c, fj)
  BY <1>1, <1>2, PlacesSeen DEF Nowhere
<1>4. ASSUME NEW r \in Request, Unread(r, tj, pe, c, fj)
      PROVE  Sees(<<r>>, <<>>, tj, pe, c, fj)
  <2>1. es = <<>> /\ tj = <<r>> /\ fj = <<>>
    BY <1>1, <1>4 DEF Unread
  <2> QED BY <1>2, <2>1, PlacesSeen
<1>5. ASSUME NEW r \in Request, AsEvent(NetworkIn(r), tj, pe, c, fj)
      PROVE  Sees(<<r>>, <<>>, tj, pe, c, fj)
  <2>1. es = <<NetworkIn(r)>> /\ tj = <<>> /\ fj = <<>>
    BY <1>1, <1>5 DEF AsEvent
  <2> QED BY <1>2, <2>1, PlacesSeen
<1>6. ASSUME NEW rep \in Reply, AsEvent(NetworkOut(rep), tj, pe, c, fj)
      PROVE  Sees(<<rep.to>>, <<rep>>, tj, pe, c, fj)
  <2>1. es = <<NetworkOut(rep)>> /\ tj = <<>> /\ fj = <<>>
    BY <1>1, <1>6 DEF AsEvent
  <2> QED BY <1>2, <2>1, PlacesSeen
<1>7. ASSUME NEW p \in Piece, AsPiece(p, tj, pe, c, fj)
      PROVE  Sees(<<p.reply.to>>, <<p.reply>>, tj, pe, c, fj)
  BY <1>1, <1>2, <1>7, PlacesSeen DEF AsPiece
<1> QED BY <1>3, <1>4, <1>5, <1>6, <1>7

\* current and answer of the refinement mapping.
CurrentNow == IF process = "dead" THEN <<>> ELSE RequestsUnderWay
AnswerNow  == IF process = "dead" THEN <<>> ELSE RepliesUnderWay

LEMMA SeenNow ==
  ASSUME NEW current, NEW answer
  PROVE  /\ Sees(current, answer, toJulia, pending_events, cursor, fromJulia) /\ process # "dead"
              => CurrentNow = current /\ AnswerNow = answer
         /\ Sees(current, answer, toJulia', pending_events', cursor', fromJulia') /\ process' # "dead"
              => CurrentNow' = current /\ AnswerNow' = answer
<1>1. /\ RepliesUnderWay = RepliesIn(Unhandled, fromJulia)
      /\ Unhandled = SubSeq(pending_events, cursor, Len(pending_events))
  BY DEF RepliesUnderWay, RepliesIn, RepliesOf, UnhandledOf, Unhandled
<1>2. RequestsUnderWay = RequestsIn(toJulia, Unhandled, fromJulia)
  BY <1>1 DEF RequestsUnderWay, RequestsIn, RequestsOf, UnhandledOf
<1>3. /\ RepliesUnderWay' = RepliesIn(Unhandled', fromJulia')
      /\ Unhandled' = SubSeq(pending_events', cursor', Len(pending_events'))
  BY DEF RepliesUnderWay, RepliesIn, RepliesOf, UnhandledOf, Unhandled
<1>4. RequestsUnderWay' = RequestsIn(toJulia', Unhandled', fromJulia')
  BY <1>3 DEF RequestsUnderWay, RequestsIn, RequestsOf, UnhandledOf
<1> QED BY <1>1, <1>2, <1>3, <1>4 DEF Sees, CurrentNow, AnswerNow

\* Where the request under way is, if there is one.
LEMMA TurnPlaces ==
  ASSUME TurnInv, process = "alive"
  PROVE  IF socket = "connected" /\ busy
         THEN \/ \E r \in Request :
                   \/ Unread(r, toJulia, pending_events, cursor, fromJulia)
                   \/ AsEvent(NetworkIn(r), toJulia, pending_events, cursor, fromJulia)
              \/ \E rep \in Reply :
                   AsEvent(NetworkOut(rep), toJulia, pending_events, cursor, fromJulia)
              \/ \E p \in Piece : AsPiece(p, toJulia, pending_events, cursor, fromJulia)
         ELSE Nowhere(toJulia, pending_events, cursor, fromJulia)
<1>1. /\ toJulia \in Seq(Request) /\ fromJulia \in Seq(Piece) /\ pending_events \in Seq(Event)
      /\ cursor \in 1..Len(pending_events) + 1
      /\ InFlight = IF socket = "connected" /\ busy THEN 1 ELSE 0
  BY DEF TurnInv, IInv, TypeOK, WireTypeOK, EngineTypeOK, OneOutstanding
<1>2. PICK a \in Nat, b \in Nat, c \in Nat, l \in Nat :
        a = Len(toJulia) /\ l = Len(pending_events) /\ b = l + 1 - cursor /\ c = Len(fromJulia)
  BY Lengths DEF TurnInv
<1>3. a + b + c = IF socket = "connected" /\ busy THEN 1 ELSE 0
  BY <1>1, <1>2 DEF InFlight
<1>4. /\ a = 0 => toJulia = <<>>
      /\ c = 0 => fromJulia = <<>>
  BY <1>1, <1>2, EmptySeq
<1>5. ASSUME NEW S, NEW s \in Seq(S), Len(s) = 1
      PROVE  \E x \in S : s = <<x>>
  <2>1. s[1] \in S /\ s = <<s[1]>>
    BY <1>5, ElementOfSeq
  <2> QED BY <2>1
<1>6. cursor \in Nat
  BY <1>1
<1>7. b = 0 => cursor = l + 1
  BY <1>2, <1>6
<1>8. b = 1 => cursor = l /\ cursor \in 1..l
  BY <1>1, <1>2, <1>6
<1>9. CASE ~(socket = "connected" /\ busy)
  <2>1. a = 0 /\ b = 0 /\ c = 0
    BY <1>3, <1>9
  <2> QED BY <1>2, <1>4, <1>7, <1>9, <2>1 DEF Nowhere
<1>10. CASE socket = "connected" /\ busy
  <2>1. \/ a = 1 /\ b = 0 /\ c = 0
        \/ a = 0 /\ b = 1 /\ c = 0
        \/ a = 0 /\ b = 0 /\ c = 1
    BY <1>3, <1>10
  <2>2. CASE a = 1 /\ b = 0 /\ c = 0
    <3>1. PICK r \in Request : toJulia = <<r>>
      BY <1>1, <1>2, <1>5, <2>2
    <3>2. Unread(r, toJulia, pending_events, cursor, fromJulia)
      BY <1>2, <1>4, <1>7, <2>2, <3>1 DEF Unread
    <3> QED BY <1>10, <3>2
  <2>3. CASE a = 0 /\ b = 1 /\ c = 0
    <3> DEFINE e == pending_events[cursor]
    <3>1. e \in Event
      BY <1>1, <1>2, <1>8, <2>3, ElementOfSeq
    <3>2. AsEvent(e, toJulia, pending_events, cursor, fromJulia)
      BY <1>2, <1>4, <1>8, <2>3 DEF AsEvent
    <3> HIDE DEF e
    <3>3. \/ \E r \in Request : e = NetworkIn(r)
          \/ \E rep \in Reply : e = NetworkOut(rep)
      BY <3>1 DEF Event, NetworkIn, NetworkOut
    <3> QED BY <1>10, <3>2, <3>3
  <2>4. CASE a = 0 /\ b = 0 /\ c = 1
    <3>1. PICK p \in Piece : fromJulia = <<p>>
      BY <1>1, <1>2, <1>5, <2>4
    <3>2. AsPiece(p, toJulia, pending_events, cursor, fromJulia)
      BY <1>2, <1>4, <1>7, <2>4, <3>1 DEF AsPiece
    <3> QED BY <1>10, <3>2
  <2> QED BY <2>1, <2>2, <2>3, <2>4
<1> QED BY <1>9, <1>10

\* The evaluator is busy exactly as long as the service has a current request.
LEMMA TurnSeen ==
  ASSUME TurnInv, process = "alive"
  PROVE  /\ ~(socket = "connected" /\ busy) => CurrentNow = <<>> /\ AnswerNow = <<>>
         /\ socket = "connected" /\ busy => CurrentNow # <<>>
<1>1. pending_events \in Seq(Event) /\ cursor \in Nat /\ process # "dead"
  BY Lengths DEF TurnInv, IInv, TypeOK, EngineTypeOK
<1>2. CASE ~(socket = "connected" /\ busy)
  <2>1. Sees(<<>>, <<>>, toJulia, pending_events, cursor, fromJulia)
    BY <1>1, <1>2, TurnPlaces, SeenAt
  <2> QED BY <1>1, <1>2, <2>1, SeenNow
<1>3. CASE socket = "connected" /\ busy
  <2>1. \E x, answer : Sees(<<x>>, answer, toJulia, pending_events, cursor, fromJulia)
    <3>1. CASE \E r \in Request :
                 \/ Unread(r, toJulia, pending_events, cursor, fromJulia)
                 \/ AsEvent(NetworkIn(r), toJulia, pending_events, cursor, fromJulia)
      BY <1>1, <3>1, SeenAt
    <3>2. CASE \E rep \in Reply :
                 AsEvent(NetworkOut(rep), toJulia, pending_events, cursor, fromJulia)
      BY <1>1, <3>2, SeenAt
    <3>3. CASE \E p \in Piece : AsPiece(p, toJulia, pending_events, cursor, fromJulia)
      BY <1>1, <3>3, SeenAt
    <3> QED BY <1>3, <3>1, <3>2, <3>3, TurnPlaces
  <2>2. PICK x, answer : Sees(<<x>>, answer, toJulia, pending_events, cursor, fromJulia)
    BY <2>1
  <2>3. CurrentNow = <<x>>
    BY <1>1, <2>2, SeenNow
  <2>4. <<x>> # <<>>
    OBVIOUS
  <2> QED BY <1>3, <2>3, <2>4
<1> QED BY <1>2, <1>3

-----------------------------------------------------------------------------
(* Every step of a session is a step of the command service or none.        *)

ServiceStep == Service!Next \/ UNCHANGED Service!cvars

\* A piece the IDE has not read is the only one, and the evaluator is busy with its
\* request, whether or not Julia has ended meanwhile.
AnswersAwaited == fromJulia # <<>> => busy /\ Len(fromJulia) = 1

\* What the session evaluates, the service is offered.
LEMMA OffersMade ==
  /\ \A ms \in ConsoleWork \union OtherWork : ms \in ServiceOffers
  /\ \A d \in Dirs : <<DirMsg(d)>> \in ServiceOffers
  /\ <<>> \in ServiceOffers /\ PackageLists \in ServiceOffers /\ OnReady \in ServiceOffers
  /\ \A rep : FollowUps(rep) \in ServiceOffers
BY DEF ServiceOffers, OnReady, FollowUps

\* First and Rest of two lists, the first of which may be empty.
LEMMA FirstRest ==
  ASSUME NEW q \in Seq(Request)
  PROVE  /\ q \o <<>> = q /\ <<>> \o q = q
         /\ q = <<>> => Service!First(q) = <<>> /\ Service!Rest(q) = <<>>
         /\ q # <<>> => Service!First(q) = <<Head(q)>> /\ Service!Rest(q) = Tail(q)
BY ConcatEmptySeq DEF Service!First, Service!Rest

\* A step that neither the evaluator nor what is under way shows.
LEMMA NothingSeen ==
  ASSUME socket' = socket \/ (socket # "connected" /\ socket' # "connected"),
         UNCHANGED <<process, work_queue>>,
         CurrentNow' = CurrentNow, AnswerNow' = AnswerNow
  PROVE  ServiceStep
<1>1. ServiceState' = ServiceState
  BY DEF ServiceState
<1> QED BY <1>1 DEF ServiceStep, Service!cvars, CurrentNow, AnswerNow

\* Nothing of what is under way has moved.
LEMMA NothingMoved ==
  ASSUME UNCHANGED <<process, toJulia, pending_events, cursor, fromJulia>>
  PROVE  CurrentNow' = CurrentNow /\ AnswerNow' = AnswerNow
BY DEF CurrentNow, AnswerNow, RequestsUnderWay, RepliesUnderWay, UnhandledOf, Unhandled

\* eval() of ms is a submission.
LEMMA EvalServes ==
  ASSUME TurnInv, AnswersAwaited, NEW ms \in Seq(Request), ms \in ServiceOffers,
         Becomes(EvalAll(socket, busy, work_queue, ms), <<>>),
         UNCHANGED <<pending_events, cursor, process, fromJulia, socket>>
  PROVE  ServiceStep
<1>1. /\ toJulia \in Seq(Request) /\ work_queue \in Seq(Request) /\ busy \in BOOLEAN
      /\ process \in {"alive", "dead"} /\ pending_events \in Seq(Event) /\ cursor \in Nat
      /\ socket = "connected" /\ ~busy => work_queue = <<>>
  BY Lengths DEF TurnInv, IInv, TypeOK, WireTypeOK, IdeTypeOK, EngineTypeOK, IdleMeansDrained
<1>2. ServiceState' = ServiceState
  BY DEF ServiceState
<1>3. CASE busy \/ socket # "connected" \/ ms = <<>>
  <2>1. EvalAll(socket, busy, work_queue, ms)
          = [busy |-> busy, queue |-> work_queue \o ms, wrote |-> <<>>]
    BY <1>3 DEF EvalAll
  <2>2. work_queue' = work_queue \o ms /\ toJulia' = (toJulia \o <<>>) \o <<>>
    BY <2>1 DEF Becomes
  <2>3. toJulia' = toJulia
    BY <1>1, <2>2, ConcatEmptySeq
  <2>4. CurrentNow' = CurrentNow /\ AnswerNow' = AnswerNow
    BY <2>3, NothingMoved
  <2>5. CASE ~(ServiceState = "online" /\ CurrentNow = <<>>)
    <3>1. Service!Submit
      BY <1>2, <2>2, <2>4, <2>5 DEF Service!Submit, CurrentNow, AnswerNow
    <3> QED BY <3>1 DEF ServiceStep, Service!Next
  <2>6. CASE ServiceState = "online" /\ CurrentNow = <<>>
    <3>1. socket = "connected" /\ process = "alive"
      BY <1>1, <2>6 DEF ServiceState
    <3>2. ~busy
      BY <2>6, <3>1, TurnSeen
    <3>3. ms = <<>> /\ work_queue = <<>>
      BY <1>1, <1>3, <3>1, <3>2
    <3>4. work_queue' = work_queue
      BY <1>1, <2>2, <3>3, ConcatEmptySeq
    <3> QED BY <2>4, <3>4, NothingSeen
  <2> QED BY <2>5, <2>6
<1>4. CASE ~busy /\ socket = "connected" /\ ms # <<>>
  <2>1. EvalAll(socket, busy, work_queue, ms)
          = [busy |-> TRUE, queue |-> work_queue \o Tail(ms), wrote |-> <<Head(ms)>>]
    BY <1>4 DEF EvalAll
  <2>2. work_queue' = work_queue \o Tail(ms) /\ toJulia' = (toJulia \o <<>>) \o <<Head(ms)>>
    BY <2>1 DEF Becomes
  <2>3. Head(ms) \in Request /\ Tail(ms) \in Seq(Request)
    BY <1>4, HeadTailProperties
  <2>4. work_queue = <<>> /\ work_queue' = Tail(ms)
    BY <1>1, <1>4, <2>2, <2>3, ConcatEmptySeq
  <2>5. Service!First(ms) = <<Head(ms)>> /\ Service!Rest(ms) = Tail(ms)
        /\ work_queue \o ms = ms
    BY <1>4, <2>4, FirstRest
  <2>6. CASE process = "dead"
    <3>1. CurrentNow = <<>> /\ AnswerNow = <<>> /\ CurrentNow' = <<>> /\ AnswerNow' = <<>>
      BY <2>6 DEF CurrentNow, AnswerNow
    <3>2. ServiceState = "lost" /\ work_queue' = work_queue \o Service!Rest(ms)
      BY <2>2, <2>5, <2>6 DEF ServiceState
    <3>3. Service!SubmitInVain
      BY <1>2, <3>1, <3>2 DEF Service!SubmitInVain, CurrentNow, AnswerNow
    <3> QED BY <3>3 DEF ServiceStep, Service!Next
  <2>7. CASE process = "alive"
    <3>1. Nowhere(toJulia, pending_events, cursor, fromJulia)
      BY <1>4, <2>7, TurnPlaces
    <3>2. toJulia' = <<Head(ms)>>
      <4> DEFINE one == <<Head(ms)>>
      <4>1. one \in Seq(Request)
        BY <2>3
      <4> HIDE DEF one
      <4>2. <<>> \o one = one /\ <<>> \o <<>> = <<>>
        BY <4>1, ConcatEmptySeq, EmptySeq
      <4>3. toJulia = <<>> /\ toJulia' = (toJulia \o <<>>) \o one
        BY <2>2, <3>1 DEF Nowhere, one
      <4>4. toJulia' = one
        BY <4>2, <4>3
      <4> QED BY <4>4 DEF one
    <3>3. Unread(Head(ms), toJulia', pending_events', cursor', fromJulia')
      BY <3>1, <3>2 DEF Nowhere, Unread
    <3>4. Sees(<<Head(ms)>>, <<>>, toJulia', pending_events', cursor', fromJulia')
      BY <1>1, <2>3, <3>3, SeenAt
    <3>5. CurrentNow' = <<Head(ms)>> /\ AnswerNow' = <<>>
      BY <2>7, <3>4, SeenNow
    <3>6. CurrentNow = <<>> /\ AnswerNow = <<>>
      BY <1>4, <2>7, TurnSeen
    <3>7. ServiceState = "online"
      BY <1>4, <2>7 DEF ServiceState
    <3>8. Service!Submit
      BY <1>2, <2>4, <2>5, <3>5, <3>6, <3>7
         DEF Service!Submit, Service!Begin, CurrentNow, AnswerNow
    <3> QED BY <3>8 DEF ServiceStep, Service!Next
  <2> QED BY <1>1, <2>6, <2>7
<1> QED BY <1>1, <1>3, <1>4

LEMMA UserServes == TurnInv /\ AnswersAwaited /\ User => ServiceStep
<1> SUFFICES ASSUME TurnInv, AnswersAwaited, User PROVE ServiceStep
  OBVIOUS
<1>1. CASE ConsoleEval
  <2>1. PICK ms \in ConsoleWork : Eval(ms)
    BY <1>1 DEF ConsoleEval
  <2>2. ms \in Seq(Request) /\ ms \in ServiceOffers
    BY SessionAssumption, OffersMade
  <2> QED BY <1>1, <2>1, <2>2, EvalServes DEF ConsoleEval, Eval, engineVars
<1>2. CASE OtherEval
  <2>1. PICK ms \in OtherWork : Eval(ms)
    BY <1>2 DEF OtherEval
  <2>2. ms \in Seq(Request) /\ ms \in ServiceOffers
    BY SessionAssumption, OffersMade
  <2> QED BY <1>2, <2>1, <2>2, EvalServes DEF OtherEval, Eval, engineVars
<1>3. CASE CurrEditorChanged
  <2>1. PICK d \in Dirs : SetWorkingDir(d)
    BY <1>3 DEF CurrEditorChanged
  <2> DEFINE one == <<DirMsg(d)>>
  <2>2. one \in Seq(Request) /\ one \in ServiceOffers
    BY RequestTypes, Singleton, OffersMade
  <2>3. /\ Becomes(EvalAll(socket, busy, work_queue, one), <<>>)
        /\ UNCHANGED <<pending_events, cursor, process, fromJulia, socket>>
    BY <1>3, <2>1 DEF CurrEditorChanged, SetWorkingDir, engineVars
  <2> HIDE DEF one
  <2> QED BY <2>2, <2>3, EvalServes
<1>4. CASE ClearConsole
  <2> DEFINE ms == IF refreshOnReady THEN PackageLists ELSE <<>>
  <2>1. ms \in Seq(Request) /\ ms \in ServiceOffers
    BY RequestTypes, EmptySeq, OffersMade
  <2>2. /\ Becomes(EvalAll(socket, busy, work_queue, ms), <<>>)
        /\ UNCHANGED <<pending_events, cursor, process, fromJulia, socket>>
    BY <1>4 DEF ClearConsole, Eval, engineVars
  <2> HIDE DEF ms
  <2> QED BY <2>1, <2>2, EvalServes
<1>5. CASE ResetConsole
  <2>1. /\ process' = "alive" /\ socket' = "null" /\ work_queue' = <<>>
        /\ toJulia' = <<>> /\ fromJulia' = <<>> /\ pending_events' = <<>> /\ cursor' = 1
    BY <1>5 DEF ResetConsole, Reset, EngineRestart
  <2>2. ServiceState' = "starting"
    BY <2>1 DEF ServiceState
  <2>3. CurrentNow' = <<>> /\ AnswerNow' = <<>>
    <3>1. pending_events' \in Seq(Event) /\ Len(pending_events') = 0
      BY <2>1, EmptySeq
    <3>2. Nowhere(toJulia', pending_events', cursor', fromJulia')
      BY <2>1, <3>1 DEF Nowhere
    <3>3. Sees(<<>>, <<>>, toJulia', pending_events', cursor', fromJulia')
      BY <2>1, <3>1, <3>2, SeenAt
    <3> QED BY <2>1, <3>3, SeenNow
  <2>4. Service!Restart
    BY <2>1, <2>2, <2>3 DEF Service!Restart, CurrentNow, AnswerNow
  <2> QED BY <2>4 DEF ServiceStep, Service!Next
<1> QED BY <1>1, <1>2, <1>3, <1>4, <1>5 DEF User

\* continueOrReady() begins what is queued or, if nothing is, what ready() has evaluated.
LEMMA ContinueBegins ==
  ASSUME NEW q \in Seq(Request), NEW rs \in Seq(Request), NEW b,
         b = IF q # <<>> THEN q ELSE rs
  PROVE  /\ ContinueOrReady(q, rs).queue = Service!Rest(b)
         /\ ContinueOrReady(q, rs).wrote = Service!First(b)
<1>1. CASE q # <<>>
  <2>1. ContinueOrReady(q, rs) = [busy |-> TRUE, queue |-> Tail(q), wrote |-> <<Head(q)>>]
    BY <1>1 DEF ContinueOrReady
  <2>2. Service!First(b) = <<Head(q)>> /\ Service!Rest(b) = Tail(q)
    BY <1>1, FirstRest
  <2> QED BY <2>1, <2>2
<1>2. CASE q = <<>> /\ rs # <<>>
  <2>1. ContinueOrReady(q, rs) =
          [busy |-> TRUE, queue |-> <<>> \o Tail(rs), wrote |-> <<Head(rs)>>]
    BY <1>2 DEF ContinueOrReady, EvalAll
  <2>2. Service!First(b) = <<Head(rs)>> /\ Service!Rest(b) = Tail(rs)
    BY <1>2, FirstRest
  <2>3. <<>> \o Tail(rs) = Tail(rs)
    BY <1>2, HeadTailProperties, ConcatEmptySeq
  <2> QED BY <2>1, <2>2, <2>3
<1>3. CASE q = <<>> /\ rs = <<>>
  <2>1. ContinueOrReady(q, rs) = [busy |-> FALSE, queue |-> <<>> \o <<>>, wrote |-> <<>>]
    BY <1>3 DEF ContinueOrReady, EvalAll
  <2>2. Service!First(b) = <<>> /\ Service!Rest(b) = <<>>
    BY <1>3, FirstRest
  <2>3. <<>> \o <<>> = <<>>
    BY EmptySeq, ConcatEmptySeq
  <2> QED BY <2>1, <2>2, <2>3
<1> QED BY <1>1, <1>2, <1>3

\* First and Rest of requests are requests, and the list joined behind nothing.
LEMMA FirstType ==
  ASSUME NEW b \in Seq(Request)
  PROVE  /\ Service!First(b) \in Seq(Request) /\ Service!Rest(b) \in Seq(Request)
         /\ (<<>> \o <<>>) \o Service!First(b) = Service!First(b)
         /\ b # <<>> => \E r \in Request : Service!First(b) = <<r>>
<1>1. CASE b = <<>>
  BY <1>1, EmptySeq, ConcatEmptySeq, FirstRest
<1>2. CASE b # <<>>
  <2>1. Head(b) \in Request /\ Tail(b) \in Seq(Request)
    BY <1>2, HeadTailProperties
  <2> DEFINE one == <<Head(b)>>
  <2>2. one \in Seq(Request)
    BY <2>1
  <2> HIDE DEF one
  <2>3. (<<>> \o <<>>) \o one = one
    BY <2>2, EmptySeq, ConcatEmptySeq
  <2>4. Service!First(b) = one /\ Service!Rest(b) = Tail(b)
    BY <1>2, FirstRest DEF one
  <2> QED BY <2>1, <2>2, <2>3, <2>4 DEF one
<1> QED BY <1>1, <1>2

\* What is written when nothing else is under way is what the service has begun.
LEMMA WrittenSeen ==
  ASSUME NEW b \in Seq(Request), toJulia' = Service!First(b), process' = "alive",
         pending_events' \in Seq(Event), cursor' \in Nat,
         cursor' = Len(pending_events') + 1, fromJulia' = <<>>
  PROVE  CurrentNow' = Service!First(b) /\ AnswerNow' = <<>>
<1>1. Sees(Service!First(b), <<>>, toJulia', pending_events', cursor', fromJulia')
  <2>1. CASE b = <<>>
    <3>1. Nowhere(toJulia', pending_events', cursor', fromJulia') /\ Service!First(b) = <<>>
      BY <2>1, FirstRest DEF Nowhere
    <3> QED BY <3>1, SeenAt
  <2>2. CASE b # <<>>
    <3>1. PICK r \in Request : Service!First(b) = <<r>>
      BY <2>2, FirstType
    <3>2. Unread(r, toJulia', pending_events', cursor', fromJulia')
      BY <3>1 DEF Unread
    <3> QED BY <3>1, <3>2, SeenAt
  <2> QED BY <2>1, <2>2
<1> QED BY <1>1, SeenNow

\* Connecting is going online: with the directory, or with what is queued.
LEMMA ConnectServes == TurnInv /\ SocketConnected => ServiceStep
<1> SUFFICES ASSUME TurnInv, SocketConnected PROVE ServiceStep
  OBVIOUS
<1>1. /\ socket = "connecting" /\ process = "alive" /\ socket' = "connected"
      /\ UNCHANGED <<process, fromJulia, pending_events, cursor>>
      /\ IF curr_working_dir # NoDir
         THEN Becomes(EvalAll("connected", busy, work_queue, <<DirMsg(curr_working_dir)>>), <<>>)
         ELSE Becomes(ContinueOrReady(work_queue, OnReady), <<>>)
  BY DEF SocketConnected, OnSocketConnected, engineVars
<1>2. /\ toJulia \in Seq(Request) /\ work_queue \in Seq(Request) /\ OnReady \in Seq(Request)
      /\ pending_events \in Seq(Event) /\ cursor \in Nat
      /\ curr_working_dir \in Dirs \union {NoDir}
  BY Lengths, RequestTypes DEF TurnInv, IInv, TypeOK, WireTypeOK, IdeTypeOK, EngineTypeOK
<1>3. ServiceState = "starting" /\ ServiceState' = "online"
  BY <1>1 DEF ServiceState
<1>4. CurrentNow = <<>> /\ AnswerNow = <<>> /\ ~busy
  BY <1>1, TurnSeen DEF TurnInv, NotBusyBefore
<1>5. Nowhere(toJulia, pending_events, cursor, fromJulia)
  BY <1>1, TurnPlaces
<1>6. CASE curr_working_dir = NoDir
  <2> DEFINE e == ContinueOrReady(work_queue, OnReady)
             b == IF work_queue # <<>> THEN work_queue ELSE OnReady
  <2>1. work_queue' = e.queue /\ toJulia' = (toJulia \o <<>>) \o e.wrote
    BY <1>1, <1>6 DEF Becomes
  <2>2. e.queue = Service!Rest(b) /\ e.wrote = Service!First(b)
    BY <1>2, ContinueBegins
  <2>3. b \in Seq(Request)
    BY <1>2
  <2>4. \E ms \in ServiceOffers : b = work_queue \o ms
    <3>1. CASE work_queue # <<>>
      BY <1>2, <3>1, OffersMade, FirstRest
    <3>2. CASE work_queue = <<>>
      BY <1>2, <3>2, OffersMade, FirstRest
    <3> QED BY <3>1, <3>2
  <2> HIDE DEF e, b
  <2>5. toJulia' = Service!First(b)
    BY <1>5, <2>1, <2>2, <2>3, FirstType DEF Nowhere
  <2>6. CurrentNow' = Service!First(b) /\ AnswerNow' = <<>>
    BY <1>1, <1>2, <1>5, <2>3, <2>5, WrittenSeen DEF Nowhere
  <2>7. work_queue' = Service!Rest(b)
    BY <2>1, <2>2
  <2>8. Service!GoOnline
    BY <1>3, <1>4, <2>4, <2>6, <2>7 DEF Service!GoOnline, Service!Begin, CurrentNow, AnswerNow
  <2> QED BY <2>8 DEF ServiceStep, Service!Next
<1>7. CASE curr_working_dir # NoDir
  <2> DEFINE m == DirMsg(curr_working_dir)
             one == <<m>>
             e == EvalAll("connected", busy, work_queue, one)
  <2>1. curr_working_dir \in Dirs
    BY <1>2, <1>7
  <2>2. m \in Request
    BY <2>1, RequestTypes
  <2>3. Becomes(e, <<>>)
    BY <1>1, <1>7
  <2>4. /\ one \in Seq(Request) /\ one # <<>> /\ Service!First(one) = one
        /\ Tail(one) = <<>> /\ <<Head(one)>> = one
    <3> HIDE DEF m
    <3> QED BY <2>2, Singleton DEF Service!First
  <2> HIDE DEF one
  <2>5. e = [busy |-> TRUE, queue |-> work_queue \o <<>>, wrote |-> one]
    BY <1>4, <2>4 DEF EvalAll
  <2> HIDE DEF e
  <2>6. work_queue' = work_queue \o <<>> /\ toJulia' = (toJulia \o <<>>) \o one
    BY <2>3, <2>5 DEF Becomes
  <2>7. toJulia' = Service!First(one) /\ work_queue' = work_queue
    BY <1>2, <1>5, <2>4, <2>6, FirstType, ConcatEmptySeq DEF Nowhere
  <2>8. CurrentNow' = one /\ AnswerNow' = <<>>
    BY <1>1, <1>2, <1>5, <2>4, <2>7, WrittenSeen DEF Nowhere
  <2>9. \E d \in Dirs : CurrentNow' = <<DirMsg(d)>> /\ work_queue' = work_queue
    BY <2>1, <2>7, <2>8 DEF one, m
  <2>10. Service!GoOnline
    BY <1>3, <1>4, <2>8, <2>9 DEF Service!GoOnline, Service!DirMsg, DirMsg, CurrentNow, AnswerNow
  <2> QED BY <2>10 DEF ServiceStep, Service!Next
<1> QED BY <1>6, <1>7

\* Reading a reply delivers it, late if Julia is dead.
LEMMA OutputServes == TurnInv /\ AnswersAwaited /\ SocketOutput => ServiceStep
<1> SUFFICES ASSUME TurnInv, AnswersAwaited, SocketOutput PROVE ServiceStep
  OBVIOUS
<1> DEFINE FollowUpsOf(k) ==
             IF IsDocument(SubSeq(fromJulia, 1, k))
             THEN FollowUps(SubSeq(fromJulia, 1, k)[1].reply) ELSE <<>>
           EvalIn(k) == EvalAll("connected", busy, work_queue, FollowUpsOf(k))
<1>1. PICK k \in 1..Len(fromJulia) :
        OnSocketOutput(k, FollowUpsOf(k), OnReady) /\ UNCHANGED engineVars
  BY DEF SocketOutput
<1>2. /\ socket = "connected" /\ socket' = "connected"
      /\ UNCHANGED <<process, pending_events, cursor>>
      /\ fromJulia' = SubSeq(fromJulia, k + 1, Len(fromJulia))
      /\ Becomes(ContinueOrReady(EvalIn(k).queue, OnReady), EvalIn(k).wrote)
  BY <1>1 DEF OnSocketOutput, engineVars
<1>3. /\ toJulia \in Seq(Request) /\ work_queue \in Seq(Request) /\ fromJulia \in Seq(Piece)
      /\ process \in {"alive", "dead"} /\ pending_events \in Seq(Event) /\ cursor \in Nat
  BY Lengths DEF TurnInv, IInv, TypeOK, WireTypeOK, IdeTypeOK, EngineTypeOK
<1> DEFINE f == FollowUpsOf(k)
           q == work_queue \o f
           b == IF q # <<>> THEN q ELSE OnReady
           e == ContinueOrReady(q, OnReady)
<1>4. f \in Seq(Request) /\ f \in ServiceOffers /\ OnReady \in Seq(Request) /\ OnReady \in ServiceOffers
  BY RequestTypes, OffersMade, EmptySeq
<1>5. busy /\ Len(fromJulia) = 1
  <2>1. fromJulia # <<>>
    BY <1>1, EmptySeq
  <2> QED BY <2>1 DEF AnswersAwaited
<1>6. EvalIn(k) = [busy |-> busy, queue |-> q, wrote |-> <<>>]
  BY <1>5 DEF EvalAll
<1> HIDE DEF EvalIn, f
<1>7. q \in Seq(Request) /\ b \in Seq(Request)
  BY <1>3, <1>4, Joined
<1>8. \E ms \in ServiceOffers : b = work_queue \o ms
  <2>1. CASE q # <<>>
    BY <1>4, <2>1
  <2>2. CASE q = <<>>
    <3>1. work_queue = <<>>
      <4>1. Len(q) = Len(work_queue) + Len(f) /\ Len(q) = 0
        BY <1>3, <1>4, <2>2, Joined, EmptySeq
      <4>2. Len(work_queue) \in Nat /\ Len(f) \in Nat
        BY <1>3, <1>4, LenProperties
      <4>3. \A m, n \in Nat : m + n = 0 => m = 0
        OBVIOUS
      <4>4. Len(work_queue) + Len(f) = 0
        BY <4>1
      <4>5. Len(work_queue) = 0
        BY <4>2, <4>3, <4>4
      <4> QED BY <1>3, <4>5, EmptySeq
    <3>2. work_queue \o OnReady = OnReady
      BY <1>4, <3>1, FirstRest
    <3> QED BY <1>4, <2>2, <3>2
  <2> QED BY <2>1, <2>2
<1> HIDE DEF q
<1>9. e.queue = Service!Rest(b) /\ e.wrote = Service!First(b)
  BY <1>4, <1>7, ContinueBegins
<1> HIDE DEF b
<1>10. work_queue' = e.queue /\ toJulia' = (toJulia \o <<>>) \o e.wrote
  BY <1>2, <1>6 DEF Becomes
<1> HIDE DEF e
<1>11. work_queue' = Service!Rest(b)
  BY <1>9, <1>10
<1>12. CASE process = "dead"
  <2>1. ServiceState = "lost" /\ ServiceState' = "lost"
    BY <1>2, <1>12 DEF ServiceState
  <2>2. CurrentNow = <<>> /\ AnswerNow = <<>> /\ CurrentNow' = <<>> /\ AnswerNow' = <<>>
    BY <1>2, <1>12 DEF CurrentNow, AnswerNow
  <2>3. Service!DeliverLate
    BY <1>8, <1>11, <2>1, <2>2 DEF Service!DeliverLate, CurrentNow, AnswerNow
  <2> QED BY <2>3 DEF ServiceStep, Service!Next
<1>13. CASE process = "alive"
  <2>1. \E p \in Piece : AsPiece(p, toJulia, pending_events, cursor, fromJulia)
    <3>1. fromJulia # <<>>
      BY <1>5, EmptySeq
    <3>2. /\ ~Nowhere(toJulia, pending_events, cursor, fromJulia)
          /\ \A r : ~Unread(r, toJulia, pending_events, cursor, fromJulia)
          /\ \A x : ~AsEvent(x, toJulia, pending_events, cursor, fromJulia)
      BY <3>1 DEF Nowhere, Unread, AsEvent
    <3> QED BY <1>13, <3>2, TurnPlaces
  <2>2. PICK p \in Piece : AsPiece(p, toJulia, pending_events, cursor, fromJulia)
    BY <2>1
  <2>3. AnswerNow # <<>>
    <3>1. Sees(<<p.reply.to>>, <<p.reply>>, toJulia, pending_events, cursor, fromJulia)
      BY <1>3, <2>2, SeenAt
    <3>2. AnswerNow = <<p.reply>>
      BY <1>13, <3>1, SeenNow
    <3> QED BY <3>2
  <2>4. fromJulia' = <<>>
    <3>1. k = 1 /\ fromJulia' = SubSeq(fromJulia, 2, 1)
      BY <1>1, <1>2, <1>5
    <3> QED BY <3>1
  <2>5. toJulia' = Service!First(b)
    BY <1>7, <1>9, <1>10, <2>2, FirstType DEF AsPiece
  <2>6. CurrentNow' = Service!First(b) /\ AnswerNow' = <<>>
    BY <1>2, <1>3, <1>7, <1>13, <2>2, <2>4, <2>5, WrittenSeen DEF AsPiece
  <2>7. ServiceState = "online" /\ ServiceState' = "online"
    BY <1>2, <1>13 DEF ServiceState
  <2>8. Service!Deliver
    BY <1>8, <1>11, <2>3, <2>6, <2>7 DEF Service!Deliver, Service!Begin, CurrentNow, AnswerNow
  <2> QED BY <2>8 DEF ServiceStep, Service!Next
<1> QED BY <1>3, <1>12, <1>13

LEMMA IdeServes == TurnInv /\ AnswersAwaited /\ Ide => ServiceStep
<1> SUFFICES ASSUME TurnInv, AnswersAwaited, Ide PROVE ServiceStep
  OBVIOUS
<1>1. CASE ReadStdout
  <2>1. /\ UNCHANGED <<work_queue, process, toJulia, fromJulia, pending_events, cursor>>
        /\ socket' = socket \/ (socket = "null" /\ socket' = "connecting")
    BY <1>1 DEF ReadStdout, OnProcessStdout, engineVars
  <2> QED BY <2>1, NothingMoved, NothingSeen
<1>2. CASE SocketClosed
  <2>1. /\ UNCHANGED <<work_queue, process, toJulia, fromJulia, pending_events, cursor>>
        /\ process = "dead" /\ socket' = "closed"
    BY <1>2 DEF SocketClosed, OnSocketClosed, wireVars, engineVars
  <2>2. ServiceState' = ServiceState /\ CurrentNow' = CurrentNow /\ AnswerNow' = AnswerNow
    BY <2>1, NothingMoved DEF ServiceState
  <2> QED BY <2>1, <2>2 DEF ServiceStep, Service!cvars, CurrentNow, AnswerNow
<1> QED BY <1>1, <1>2, ConnectServes, OutputServes DEF Ide

\* Of Julia's steps the service sees that a request has been executed, and that Julia ends.
LEMMA EngineServes ==
  ASSUME Split = {}
  PROVE  TurnInv /\ Engine => ServiceStep
<1> SUFFICES ASSUME TurnInv, Engine PROVE ServiceStep
  OBVIOUS
<1>1. /\ UNCHANGED <<socket, work_queue>>
      /\ pending_events \in Seq(Event) /\ cursor \in Nat /\ Len(pending_events) \in Nat
      /\ cursor \in 1..Len(pending_events) + 1
      /\ process \in {"alive", "dead"}
      /\ process = "dead" <=> engine = "down"
  BY Lengths DEF Engine, ideVars, TurnInv, IInv, TypeOK, WireTypeOK, EngineTypeOK, EndsTogether
<1>2. CASE AcceptOneOn \/ Initialize \/ EventLoop
  <2>1. UNCHANGED <<process, toJulia, pending_events, cursor, fromJulia>>
    BY <1>2 DEF AcceptOneOn, Initialize, EventLoop, wireVars
  <2> QED BY <1>1, <2>1, NothingMoved, NothingSeen
<1>3. CASE ProcessIncoming
  <2>1. /\ UNCHANGED <<cursor, process, fromJulia>> /\ process = "alive"
        /\ toJulia # <<>> /\ toJulia' = Tail(toJulia)
        /\ pending_events' = Append(pending_events, NetworkIn(Head(toJulia)))
    BY <1>1, <1>3 DEF ProcessIncoming, NewEvent
  <2>2. PICK r \in Request : Unread(r, toJulia, pending_events, cursor, fromJulia)
    <3>1. /\ ~Nowhere(toJulia, pending_events, cursor, fromJulia)
          /\ \A e : ~AsEvent(e, toJulia, pending_events, cursor, fromJulia)
          /\ \A p : ~AsPiece(p, toJulia, pending_events, cursor, fromJulia)
      BY <2>1 DEF Nowhere, AsEvent, AsPiece
    <3> QED BY <2>1, <3>1, TurnPlaces
  <2>3. Head(toJulia) = r /\ Tail(toJulia) = <<>>
    BY <2>2 DEF Unread
  <2> DEFINE e == NetworkIn(r)
  <2>4. e \in Event
    BY DEF NetworkIn, Event
  <2>5. pending_events' = Append(pending_events, e)
    BY <2>1, <2>3
  <2> HIDE DEF e
  <2>6. /\ pending_events' \in Seq(Event) /\ Len(pending_events') = Len(pending_events) + 1
        /\ pending_events'[Len(pending_events) + 1] = e
    BY <1>1, <2>4, <2>5, AppendProperties
  <2>7. AsEvent(e, toJulia', pending_events', cursor', fromJulia')
    BY <1>1, <2>1, <2>2, <2>3, <2>6 DEF Unread, AsEvent
  <2>8. /\ Sees(<<r>>, <<>>, toJulia, pending_events, cursor, fromJulia)
        /\ Sees(<<r>>, <<>>, toJulia', pending_events', cursor', fromJulia')
    BY <1>1, <2>1, <2>2, <2>6, <2>7, SeenAt DEF e
  <2>9. CurrentNow' = CurrentNow /\ AnswerNow' = AnswerNow
    BY <2>1, <2>8, SeenNow
  <2> QED BY <1>1, <2>1, <2>9, NothingSeen
<1>4. CASE HandleInput
  <2>1. /\ UNCHANGED <<process, toJulia, fromJulia>> /\ process = "alive"
        /\ cursor' = cursor + 1 /\ cursor <= Len(pending_events)
        /\ pending_events[cursor].name = "networkIn"
    BY <1>1, <1>4 DEF HandleInput, Taking, wireVars
  <2>2. PICK rep \in RepliesTo(pending_events[cursor].msg) :
          pending_events' = Append(pending_events, NetworkOut(rep))
    BY <1>4 DEF HandleInput, NewEvent
  <2>3. PICK r \in Request : AsEvent(NetworkIn(r), toJulia, pending_events, cursor, fromJulia)
    <3>1. /\ ~Nowhere(toJulia, pending_events, cursor, fromJulia)
          /\ \A r : ~Unread(r, toJulia, pending_events, cursor, fromJulia)
          /\ \A p : ~AsPiece(p, toJulia, pending_events, cursor, fromJulia)
      BY <1>1, <2>1 DEF Nowhere, Unread, AsPiece
    <3>2. \A rp : ~AsEvent(NetworkOut(rp), toJulia, pending_events, cursor, fromJulia)
      BY <2>1 DEF AsEvent, NetworkOut
    <3> QED BY <2>1, <3>1, <3>2, TurnPlaces
  <2>4. pending_events[cursor].msg = r
    BY <2>3 DEF AsEvent, NetworkIn
  <2>5. rep \in RepliesTo(r) /\ rep \in Reply /\ rep.to = r
    <3>1. rep \in RepliesTo(r) /\ rep \in Reply
      BY <2>2, <2>4, ReplyTyping
    <3>2. \A x \in RepliesTo(r) : x.to = r
      BY DEF RepliesTo
    <3> QED BY <3>1, <3>2
  <2> DEFINE e == NetworkOut(rep)
  <2>6. e \in Event
    BY <2>5 DEF NetworkOut, Event
  <2>7. pending_events' = Append(pending_events, e)
    BY <2>2
  <2> HIDE DEF e
  <2>8. /\ pending_events' \in Seq(Event) /\ Len(pending_events') = Len(pending_events) + 1
        /\ pending_events'[Len(pending_events) + 1] = e
    BY <1>1, <2>6, <2>7, AppendProperties
  <2>9. AsEvent(e, toJulia', pending_events', cursor', fromJulia')
    <3>1. cursor = Len(pending_events) /\ toJulia = <<>> /\ fromJulia = <<>>
      BY <2>3 DEF AsEvent
    <3> QED BY <1>1, <2>1, <2>8, <3>1 DEF AsEvent
  <2>10. Sees(<<r>>, <<>>, toJulia, pending_events, cursor, fromJulia)
    BY <1>1, <2>3, SeenAt
  <2>11. Sees(<<rep.to>>, <<rep>>, toJulia', pending_events', cursor', fromJulia')
    <3>1. cursor' \in Nat
      BY <1>1, <2>1
    <3>2. AsEvent(NetworkOut(rep), toJulia', pending_events', cursor', fromJulia')
      BY <2>9 DEF e
    <3> QED BY <2>5, <2>8, <3>1, <3>2, SeenAt
  <2>12. CurrentNow = <<r>> /\ AnswerNow = <<>> /\ CurrentNow' = <<r>> /\ AnswerNow' = <<rep>>
    <3>1. CurrentNow = <<r>> /\ AnswerNow = <<>>
      BY <2>1, <2>10, SeenNow
    <3>2. CurrentNow' = <<rep.to>> /\ AnswerNow' = <<rep>>
      BY <2>1, <2>11, SeenNow
    <3> QED BY <2>5, <3>1, <3>2
  <2>13. ServiceState = "online" /\ ServiceState' = ServiceState
    <3>1. socket = "connected"
      <4>1. ~Nowhere(toJulia, pending_events, cursor, fromJulia)
        BY <1>1, <2>1 DEF Nowhere
      <4> QED BY <2>1, <4>1, TurnPlaces
    <3> QED BY <1>1, <2>1, <3>1 DEF ServiceState
  <2>14. CurrentNow # <<>> /\ Head(CurrentNow) = r
    BY <2>12
  <2>15. Service!Execute
    <3>1. Service!RepliesTo(r) = RepliesTo(r)
      BY DEF Service!RepliesTo, RepliesTo
    <3>2. \E x \in Service!RepliesTo(Head(CurrentNow)) : AnswerNow' = <<x>>
      BY <2>5, <2>12, <2>14, <3>1
    <3>3. CurrentNow' = CurrentNow
      BY <2>12
    <3> QED BY <1>1, <2>12, <2>13, <2>14, <3>2, <3>3 DEF Service!Execute, CurrentNow, AnswerNow
  <2> QED BY <2>15 DEF ServiceStep, Service!Next
<1>5. CASE EngineCallback
  <2>1. /\ UNCHANGED <<pending_events, process, toJulia>> /\ process = "alive"
        /\ cursor' = cursor + 1 /\ cursor <= Len(pending_events)
        /\ pending_events[cursor].name = "networkOut"
    BY <1>1, <1>5 DEF EngineCallback, Taking
  <2>2. fromJulia' = fromJulia \o Pieces(pending_events[cursor].msg, 1)
    BY <1>5 DEF EngineCallback
  <2>3. PICK rep \in Reply : AsEvent(NetworkOut(rep), toJulia, pending_events, cursor, fromJulia)
    <3>1. /\ ~Nowhere(toJulia, pending_events, cursor, fromJulia)
          /\ \A r : ~Unread(r, toJulia, pending_events, cursor, fromJulia)
          /\ \A p : ~AsPiece(p, toJulia, pending_events, cursor, fromJulia)
      BY <1>1, <2>1 DEF Nowhere, Unread, AsPiece
    <3>2. \A r : ~AsEvent(NetworkIn(r), toJulia, pending_events, cursor, fromJulia)
      BY <2>1 DEF AsEvent, NetworkIn
    <3> QED BY <2>1, <3>1, <3>2, TurnPlaces
  <2>4. /\ pending_events[cursor].msg = rep /\ toJulia = <<>> /\ fromJulia = <<>>
        /\ cursor = Len(pending_events)
    BY <2>3 DEF AsEvent, NetworkOut
  <2> DEFINE p == [reply |-> rep, part |-> 1, parts |-> 1]
             one == <<p>>
  <2>5. p \in Piece /\ p.reply = rep
    BY DEF Piece
  <2>6. Pieces(rep, 1) = one
    BY DEF Pieces
  <2> HIDE DEF p
  <2>7. one \in Seq(Piece)
    BY <2>5
  <2>8. fromJulia' = one
    <3> HIDE DEF one
    <3> QED BY <2>2, <2>4, <2>6, <2>7, ConcatEmptySeq
  <2>9. AsPiece(p, toJulia', pending_events', cursor', fromJulia')
    BY <2>1, <2>4, <2>8 DEF AsPiece
  <2>10. Sees(<<rep.to>>, <<rep>>, toJulia, pending_events, cursor, fromJulia)
    BY <1>1, <2>3, SeenAt
  <2>11. Sees(<<p.reply.to>>, <<p.reply>>, toJulia', pending_events', cursor', fromJulia')
    <3>1. cursor' \in Nat /\ pending_events' \in Seq(Event)
      BY <1>1, <2>1
    <3> QED BY <2>5, <2>9, <3>1, SeenAt
  <2>12. /\ CurrentNow = <<rep.to>> /\ AnswerNow = <<rep>>
         /\ CurrentNow' = <<p.reply.to>> /\ AnswerNow' = <<p.reply>>
    BY <2>1, <2>10, <2>11, SeenNow
  <2>13. CurrentNow' = CurrentNow /\ AnswerNow' = AnswerNow
    BY <2>5, <2>12
  <2> QED BY <1>1, <2>1, <2>13, NothingSeen
<1>6. CASE HandledAll
  <2>1. /\ UNCHANGED <<process, toJulia, fromJulia>>
        /\ cursor > Len(pending_events) /\ cursor' = 1 /\ pending_events' = <<>>
    BY <1>6 DEF HandledAll, wireVars
  <2>2. Unhandled = <<>>
    <3>1. cursor = Len(pending_events) + 1
      BY <1>1, <2>1
    <3> QED BY <1>1, <3>1, LastEvents DEF Unhandled
  <2>3. Unhandled' = <<>>
    <3>1. <<>> \in Seq(Event) /\ 1 = Len(<<>>) + 1
      OBVIOUS
    <3>2. SubSeq(<<>>, 1, Len(<<>>)) = <<>>
      BY <3>1, LastEvents
    <3> QED BY <2>1, <3>2 DEF Unhandled
  <2>4. CurrentNow' = CurrentNow /\ AnswerNow' = AnswerNow
    BY <2>1, <2>2, <2>3 DEF CurrentNow, AnswerNow, RequestsUnderWay, RepliesUnderWay, UnhandledOf
  <2> QED BY <1>1, <2>1, <2>4, NothingSeen
<1>7. CASE HandlerThrows \/ Crash
  <2>1. process # "dead" /\ process' = "dead"
    BY <1>1, <1>7 DEF HandlerThrows, Crash, Taking, Die
  <2>2. ServiceState # "lost" /\ ServiceState' = "lost"
    BY <2>1 DEF ServiceState
  <2>3. CurrentNow' = <<>> /\ AnswerNow' = <<>>
    BY <2>1 DEF CurrentNow, AnswerNow
  <2>4. Service!Lose
    BY <1>1, <2>2, <2>3 DEF Service!Lose, CurrentNow, AnswerNow
  <2> QED BY <2>4 DEF ServiceStep, Service!Next
<1> QED BY <1>2, <1>3, <1>4, <1>5, <1>6, <1>7 DEF Engine

-----------------------------------------------------------------------------
LEMMA InitServes == Init => AnswersAwaited /\ Service!Init
<1> SUFFICES ASSUME Init PROVE AnswersAwaited /\ Service!Init
  OBVIOUS
<1>1. TurnInv /\ process = "alive" /\ socket = "null" /\ work_queue = PackageLists /\ fromJulia = <<>>
  BY InitTurn DEF Init
<1>2. CurrentNow = <<>> /\ AnswerNow = <<>>
  BY <1>1, TurnSeen
<1>3. ServiceState = "starting"
  BY <1>1 DEF ServiceState
<1>4. Service!Init
  BY <1>1, <1>2, <1>3, OffersMade DEF Service!Init, CurrentNow, AnswerNow
<1> QED BY <1>1, <1>4 DEF AnswersAwaited

LEMMA StepAwaited ==
  ASSUME Split = {}
  PROVE  TurnInv /\ AnswersAwaited /\ [Next]_vars => AnswersAwaited'
<1> SUFFICES ASSUME TurnInv, AnswersAwaited, [Next]_vars PROVE AnswersAwaited'
  OBVIOUS
<1>1. TurnInv'
  BY StepTurn
<1>2. CASE process' = "alive"
  <2>1. IF socket' = "connected" /\ busy' THEN InFlight' = 1 ELSE InFlight' = 0
    BY <1>1, <1>2 DEF TurnInv, OneOutstanding
  <2> DEFINE a == Len(toJulia')
             b == Len(pending_events') + 1 - cursor'
             c == Len(fromJulia')
  <2>2. a \in Nat /\ b \in Nat /\ c \in Nat
    <3>1. WireTypeOK' /\ EngineTypeOK'
      BY <1>1 DEF TurnInv, IInv, TypeOK
    <3>2. /\ Len(toJulia') \in Nat /\ Len(fromJulia') \in Nat /\ Len(pending_events') \in Nat
          /\ cursor' \in 1..Len(pending_events') + 1
      BY <3>1, LenProperties DEF WireTypeOK, EngineTypeOK
    <3> QED BY <3>2
  <2>3. InFlight' = a + b + c
    BY DEF InFlight
  <2>4. fromJulia' # <<>> => c # 0
    BY <1>1, EmptySeq DEF TurnInv, IInv, TypeOK, WireTypeOK
  <2> HIDE DEF a, b, c
  <2>5. /\ a + b + c = 0 => c = 0
        /\ a + b + c = 1 => c = 0 \/ c = 1
    BY <2>2
  <2>6. /\ InFlight' = 0 => fromJulia' = <<>>
        /\ InFlight' = 1 /\ fromJulia' # <<>> => c = 1
    BY <2>3, <2>4, <2>5
  <2> QED BY <2>1, <2>6 DEF AnswersAwaited, c
<1>3. CASE process' # "alive"
  <2>1. CASE fromJulia' = fromJulia /\ (busy => busy')
    BY <2>1 DEF AnswersAwaited
  <2>2. CASE User
    <3>1. ~ResetConsole
      BY <1>3 DEF ResetConsole, Reset
    <3>2. fromJulia' = fromJulia
      BY <2>2, <3>1 DEF User, ConsoleEval, OtherEval, CurrEditorChanged, ClearConsole, Eval, SetWorkingDir
    <3>3. busy => busy'
      <4>1. ASSUME busy, NEW ms, Becomes(EvalAll(socket, busy, work_queue, ms), <<>>)
            PROVE  busy'
        BY <4>1 DEF Becomes, EvalAll
      <4> QED BY <2>2, <3>1, <4>1
              DEF User, ConsoleEval, OtherEval, CurrEditorChanged, ClearConsole, Eval, SetWorkingDir
    <3> QED BY <2>1, <3>2, <3>3
  <2>3. CASE ReadStdout \/ SocketClosed
    <3>1. fromJulia' = fromJulia /\ busy' = busy
      BY <2>3 DEF ReadStdout, OnProcessStdout, SocketClosed, OnSocketClosed, wireVars
    <3> QED BY <2>1, <3>1
  <2>4. CASE SocketConnected
    <3>1. process' = "alive"
      BY <2>4 DEF SocketConnected, OnSocketConnected
    <3> QED BY <1>3, <3>1
  <2>5. CASE SocketOutput
    <3>1. PICK k \in 1..Len(fromJulia) : fromJulia' = SubSeq(fromJulia, k + 1, Len(fromJulia))
      BY <2>5 DEF SocketOutput, OnSocketOutput
    <3>2. Len(fromJulia) = 1
      BY <3>1, EmptySeq DEF AnswersAwaited
    <3>3. fromJulia' = SubSeq(fromJulia, 2, 1)
      BY <3>1, <3>2
    <3>4. fromJulia' = <<>>
      BY <3>3
    <3> QED BY <3>4 DEF AnswersAwaited
  <2>6. CASE Engine
    <3>1. busy' = busy
      BY <2>6 DEF Engine, ideVars
    <3>2. CASE ~Die
      <4>1. process' = process /\ engine = "down"
        <5>1. process' = process
          BY <2>6, <3>2 DEF Engine, AcceptOneOn, Initialize, ProcessIncoming, EventLoop, HandleInput,
                            EngineCallback, HandledAll, HandlerThrows, Crash, wireVars
        <5> QED BY <1>3, <5>1 DEF TurnInv, IInv, TypeOK, WireTypeOK, EndsTogether
      <4> QED BY <2>6, <3>2, <4>1 DEF Engine, AcceptOneOn, Initialize, ProcessIncoming, EventLoop,
                  HandleInput, EngineCallback, HandledAll, HandlerThrows, Crash, Taking
    <3>3. CASE Die
      <4>1. PICK n \in 0..Len(fromJulia) : fromJulia' = SubSeq(fromJulia, 1, n)
        BY <3>3 DEF Die
      <4>2. fromJulia \in Seq(Piece) /\ Len(fromJulia) \in Nat
        BY LenProperties DEF TurnInv, IInv, TypeOK, WireTypeOK
      <4>3. CASE fromJulia = <<>>
        <5>1. n = 0 /\ fromJulia' = SubSeq(fromJulia, 1, 0)
          BY <4>1, <4>3, EmptySeq
        <5>2. fromJulia' = <<>>
          BY <5>1
        <5> QED BY <5>2 DEF AnswersAwaited
      <4>4. CASE fromJulia # <<>>
        <5>1. busy /\ Len(fromJulia) = 1
          BY <4>4 DEF AnswersAwaited
        <5>2. CASE n = 0
          <6>1. fromJulia' = <<>>
            BY <4>1, <5>2
          <6> QED BY <6>1 DEF AnswersAwaited
        <5>3. CASE n = 1
          <6>1. \A i \in 1..1 : fromJulia[i] \in Piece
            BY <4>2, <5>1, ElementOfSeq
          <6>2. Len(SubSeq(fromJulia, 1, 1)) = IF 1 <= 1 THEN 1 - 1 + 1 ELSE 0
            BY <6>1, SubSeqProperties
          <6>3. Len(fromJulia') = 1
            BY <4>1, <5>3, <6>2
          <6> QED BY <3>1, <5>1, <6>3 DEF AnswersAwaited
        <5> QED BY <4>1, <5>1, <5>2, <5>3
      <4> QED BY <4>3, <4>4
    <3> QED BY <3>2, <3>3
  <2>7. CASE UNCHANGED vars
    <3>1. fromJulia' = fromJulia /\ busy' = busy
      BY <2>7 DEF vars, wireVars, ideVars
    <3> QED BY <2>1, <3>1
  <2> QED BY <2>2, <2>3, <2>4, <2>5, <2>6, <2>7 DEF Next, Ide
<1> QED BY <1>2, <1>3

\* A session whose replies all arrive in one piece is the command service, whatever is
\* evaluated, wherever Julia ends and whenever the session is reset: requests are executed
\* one at a time in the order they were submitted, each is answered once, and nothing
\* is executed before the connection or after the end of Julia (localtcpevaluator.cpp eval,
\* onSocketConnected, onSocketOutput, reset; ConsoleLogic.jl handle_input).
THEOREM SessionImplementsService ==
  ASSUME Split = {}
  PROVE  Spec => ImplementsService
<1>1. Init => TurnInv /\ AnswersAwaited /\ Service!Init
  BY InitTurn, InitServes
<1>2. TurnInv /\ AnswersAwaited /\ [Next]_vars => TurnInv' /\ AnswersAwaited'
  BY StepTurn, StepAwaited
<1>3. TurnInv /\ AnswersAwaited /\ [Next]_vars => [Service!Next]_(Service!cvars)
  <2> SUFFICES ASSUME TurnInv, AnswersAwaited, [Next]_vars
               PROVE  ServiceStep
    BY DEF ServiceStep
  <2>1. CASE Next
    BY <2>1, UserServes, IdeServes, EngineServes DEF Next
  <2>2. CASE UNCHANGED vars
    <3>1. UNCHANGED <<socket, process, work_queue, toJulia, pending_events, cursor, fromJulia>>
      BY <2>2 DEF vars, wireVars, ideVars, engineVars
    <3> QED BY <3>1, NothingMoved, NothingSeen
  <2> QED BY <2>1, <2>2
<1> QED BY <1>1, <1>2, <1>3, PTL DEF Spec, ImplementsService

-----------------------------------------------------------------------------
(* Order: what Julia has not begun, however replies are cut up.             *)

LEMMA EventKinds ==
  \A e \in Event : /\ e.name \in {"networkIn", "networkOut"}
                   /\ e.name = "networkIn" => e.msg \in Request
BY DEF Event

Lists(es) ==
  [i \in DOMAIN es |-> IF es[i].name = "networkIn" THEN <<es[i].msg>> ELSE <<>>]

LEMMA ListsType ==
  ASSUME NEW es \in Seq(Event)
  PROVE  /\ Lists(es) \in Seq(Seq(Request)) /\ Len(Lists(es)) = Len(es)
         /\ \A i \in 1..Len(es) :
              Lists(es)[i] = IF es[i].name = "networkIn" THEN <<es[i].msg>> ELSE <<>>
<1> DEFINE n == Len(es)
           T == Lists(es)
<1>1. n \in Nat /\ DOMAIN es = 1..n /\ \A i \in 1..n : es[i] \in Event
  BY LenProperties, ElementOfSeq
<1>2. T = [i \in 1..n |-> IF es[i].name = "networkIn" THEN <<es[i].msg>> ELSE <<>>]
  BY <1>1 DEF Lists
<1> HIDE DEF n, T
<1>3. ASSUME NEW i \in 1..n
      PROVE  /\ T[i] = IF es[i].name = "networkIn" THEN <<es[i].msg>> ELSE <<>>
             /\ T[i] \in Seq(Request)
  <2>1. T[i] = IF es[i].name = "networkIn" THEN <<es[i].msg>> ELSE <<>>
    BY <1>2
  <2>2. es[i] \in Event
    BY <1>1
  <2> DEFINE m == es[i].msg
             one == <<m>>
  <2>3. es[i].name = "networkIn" => m \in Request
    BY <2>2, EventKinds
  <2> HIDE DEF m
  <2>4. es[i].name = "networkIn" => one \in Seq(Request)
    BY <2>3
  <2>5. T[i] = IF es[i].name = "networkIn" THEN one ELSE <<>>
    BY <2>1 DEF m
  <2> HIDE DEF one
  <2> QED BY <2>1, <2>4, <2>5, EmptySeq
<1>4. T \in Seq(Seq(Request)) /\ Len(T) = n
  BY <1>1, <1>2, <1>3
<1> QED BY <1>3, <1>4 DEF n, T

\* The requests in a list of events are those in its two halves.
LEMMA MsgsOfConcat ==
  ASSUME NEW a \in Seq(Event), NEW b \in Seq(Event)
  PROVE  /\ MsgsNamed("networkIn", a \o b)
              = MsgsNamed("networkIn", a) \o MsgsNamed("networkIn", b)
         /\ MsgsNamed("networkIn", a) \in Seq(Request)
<1> DEFINE m == Len(a)
           n == Len(b)
           ab == a \o b
           X == Lists(ab)
           x == Lists(a)
           y == Lists(b)
           Y == x \o y
<1>1. m \in Nat /\ n \in Nat
  BY LenProperties
<1>2. /\ ab \in Seq(Event) /\ Len(ab) = m + n
      /\ \A i \in 1..m + n : ab[i] = IF i <= m THEN a[i] ELSE b[i - m]
  BY ConcatProperties
<1>3. x \in Seq(Seq(Request)) /\ Len(x) = m
      /\ \A i \in 1..m : x[i] = IF a[i].name = "networkIn" THEN <<a[i].msg>> ELSE <<>>
  BY ListsType
<1>4. y \in Seq(Seq(Request)) /\ Len(y) = n
      /\ \A i \in 1..n : y[i] = IF b[i].name = "networkIn" THEN <<b[i].msg>> ELSE <<>>
  BY ListsType
<1> HIDE DEF m, n, ab, x, y
<1>5. X \in Seq(Seq(Request)) /\ Len(X) = m + n
      /\ \A i \in 1..m + n : X[i] = IF ab[i].name = "networkIn" THEN <<ab[i].msg>> ELSE <<>>
  BY <1>2, ListsType
<1> HIDE DEF X
<1>6. Y \in Seq(Seq(Request)) /\ Len(Y) = m + n
      /\ \A i \in 1..m + n : Y[i] = IF i <= m THEN x[i] ELSE y[i - m]
  <2>1. x \in Seq(Seq(Request)) /\ y \in Seq(Seq(Request))
    BY <1>3, <1>4
  <2>2. /\ Y \in Seq(Seq(Request)) /\ Len(Y) = Len(x) + Len(y)
        /\ \A i \in 1..Len(x) + Len(y) : Y[i] = IF i <= Len(x) THEN x[i] ELSE y[i - Len(x)]
    BY <2>1, ConcatProperties
  <2>3. Len(x) = m /\ Len(y) = n
    BY <1>3, <1>4
  <2> HIDE DEF Y
  <2> QED BY <2>2, <2>3, Zenon
<1> HIDE DEF Y
<1>7. ASSUME NEW i \in 1..m + n
      PROVE  X[i] = Y[i]
  <2>1. CASE i <= m
    <3>1. i \in 1..m /\ ab[i] = a[i]
      BY <1>1, <1>2, <2>1
    <3>2. X[i] = IF a[i].name = "networkIn" THEN <<a[i].msg>> ELSE <<>>
      BY <1>5, <3>1
    <3>3. Y[i] = x[i]
      BY <1>6, <2>1
    <3> QED BY <1>3, <3>1, <3>2, <3>3
  <2>2. CASE ~(i <= m)
    <3>1. i - m \in 1..n /\ ab[i] = b[i - m]
      BY <1>1, <1>2, <2>2
    <3>2. X[i] = IF b[i - m].name = "networkIn" THEN <<b[i - m].msg>> ELSE <<>>
      BY <1>5, <3>1
    <3>3. Y[i] = y[i - m]
      BY <1>6, <2>2
    <3> QED BY <1>4, <3>1, <3>2, <3>3
  <2> QED BY <2>1, <2>2
<1>8. X = Y
  BY <1>5, <1>6, <1>7, SeqEqual
<1>9. FlattenSeq(x \o y) = FlattenSeq(x) \o FlattenSeq(y) /\ FlattenSeq(x) \in Seq(Request)
  BY <1>3, <1>4, FlattenConcat, FlattenType
<1>10. /\ MsgsNamed("networkIn", ab) = FlattenSeq(X)
       /\ MsgsNamed("networkIn", a) = FlattenSeq(x)
       /\ MsgsNamed("networkIn", b) = FlattenSeq(y)
  BY DEF MsgsNamed, Lists, X, x, y
<1> QED BY <1>8, <1>9, <1>10 DEF ab, Y

\* The array from a place on is its event there and the rest.
LEMMA EventsFrom ==
  ASSUME NEW pe \in Seq(Event), NEW c \in 1..Len(pe) + 1
  PROVE  /\ SubSeq(pe, c, Len(pe)) \in Seq(Event)
         /\ c <= Len(pe) =>
              SubSeq(pe, c, Len(pe)) = <<pe[c]>> \o SubSeq(pe, c + 1, Len(pe))
         /\ \A e \in Event :
              SubSeq(Append(pe, e), c, Len(Append(pe, e))) = SubSeq(pe, c, Len(pe)) \o <<e>>
<1> DEFINE n == Len(pe)
           r == SubSeq(pe, c, n)
<1>1. n \in Nat /\ c \in Nat /\ c >= 1 /\ c <= n + 1 /\ \A i \in 1..n : pe[i] \in Event
  BY LenProperties, ElementOfSeq
<1>2. r \in Seq(Event) /\ Len(r) = n + 1 - c /\ \A j \in 1..n + 1 - c : r[j] = pe[c - 1 + j]
  <2>1. c - 1 \in 0..n /\ (c - 1) + 1 = c /\ n - (c - 1) = n + 1 - c
    BY <1>1
  <2> QED BY <2>1, BehindFacts
<1> HIDE DEF n
<1>3. ASSUME c <= n
      PROVE  r = <<pe[c]>> \o SubSeq(pe, c + 1, n)
  <2> DEFINE x == pe[c]
             one == <<x>>
             t == SubSeq(pe, c + 1, n)
             u == one \o t
  <2>1. t \in Seq(Event) /\ Len(t) = n - c /\ \A j \in 1..n - c : t[j] = pe[c + j]
    <3>1. c \in 0..n
      BY <1>1, <1>3
    <3> QED BY <3>1, BehindFacts DEF n
  <2>2. x \in Event
    BY <1>1, <1>3
  <2> HIDE DEF x, t
  <2>3. one \in Seq(Event) /\ Len(one) = 1 /\ one[1] = x
    BY <2>2
  <2> HIDE DEF one
  <2>4. /\ u \in Seq(Event) /\ Len(u) = Len(one) + Len(t)
        /\ \A j \in 1..Len(one) + Len(t) : u[j] = IF j <= Len(one) THEN one[j] ELSE t[j - Len(one)]
    BY <2>1, <2>3, ConcatProperties
  <2> HIDE DEF u
  <2>5. Len(one) + Len(t) = n + 1 - c
    BY <1>1, <2>1, <2>3
  <2>6. ASSUME NEW j \in 1..n + 1 - c
        PROVE  r[j] = u[j]
    <3>1. u[j] = IF j <= 1 THEN one[j] ELSE t[j - 1]
      BY <2>3, <2>4, <2>5
    <3>2. CASE j = 1
      <4>1. c - 1 + j = c
        BY <1>1, <3>2
      <4> QED BY <1>2, <2>3, <3>1, <3>2, <4>1 DEF x
    <3>3. CASE j # 1
      <4>1. j - 1 \in 1..n - c /\ c + (j - 1) = c - 1 + j /\ ~(j <= 1)
        BY <1>1, <3>3
      <4> QED BY <1>2, <2>1, <3>1, <4>1
    <3> QED BY <3>2, <3>3
  <2>7. r = u
    BY <1>2, <2>4, <2>5, <2>6, SeqEqual
  <2> QED BY <2>7 DEF u, one, t, x
<1>4. ASSUME NEW e \in Event
      PROVE  SubSeq(Append(pe, e), c, Len(Append(pe, e))) = r \o <<e>>
  <2> DEFINE ap == Append(pe, e)
             one == <<e>>
             t == SubSeq(ap, c, n + 1)
             u == r \o one
  <2>1. /\ ap \in Seq(Event) /\ Len(ap) = n + 1 /\ ap[n + 1] = e
        /\ \A i \in 1..n : ap[i] = pe[i]
    BY AppendProperties DEF n
  <2> HIDE DEF ap
  <2>2. t \in Seq(Event) /\ Len(t) = n + 2 - c /\ \A j \in 1..n + 2 - c : t[j] = ap[c - 1 + j]
    <3>1. c - 1 \in 0..n + 1 /\ (c - 1) + 1 = c /\ (n + 1) - (c - 1) = n + 2 - c
      BY <1>1
    <3> QED BY <2>1, <3>1, BehindFacts
  <2>3. one \in Seq(Event) /\ Len(one) = 1 /\ one[1] = e
    OBVIOUS
  <2> HIDE DEF one, t, r
  <2>4. /\ u \in Seq(Event) /\ Len(u) = Len(r) + Len(one)
        /\ \A j \in 1..Len(r) + Len(one) : u[j] = IF j <= Len(r) THEN r[j] ELSE one[j - Len(r)]
    BY <1>2, <2>3, ConcatProperties
  <2> HIDE DEF u
  <2>5. Len(r) + Len(one) = n + 2 - c
    BY <1>1, <1>2, <2>3
  <2>6. ASSUME NEW j \in 1..n + 2 - c
        PROVE  t[j] = u[j]
    <3>1. u[j] = IF j <= n + 1 - c THEN r[j] ELSE one[j - (n + 1 - c)]
      BY <1>2, <2>4, <2>5
    <3>2. CASE j <= n + 1 - c
      <4>1. j \in 1..n + 1 - c /\ c - 1 + j \in 1..n
        BY <1>1, <3>2
      <4> QED BY <1>2, <2>1, <2>2, <3>1, <3>2, <4>1
    <3>3. CASE ~(j <= n + 1 - c)
      <4>1. j - (n + 1 - c) = 1 /\ c - 1 + j = n + 1
        BY <1>1, <3>3
      <4> QED BY <2>1, <2>2, <2>3, <3>1, <3>3, <4>1
    <3> QED BY <3>2, <3>3
  <2>7. t = u
    BY <2>2, <2>4, <2>5, <2>6, SeqEqual
  <2> QED BY <2>1, <2>7 DEF ap, u, one, t
<1> QED BY <1>2, <1>3, <1>4 DEF n, r

\* A list is the beginning of any that goes on from it.
LEMMA PrefixOfConcat ==
  ASSUME NEW S, NEW a \in Seq(S), NEW b \in Seq(S)
  PROVE  IsPrefix(a, a \o b)
<1>1. SubSeq(a \o b, 1, Len(a)) = a
  BY PartsOfConcat
<1>2. SubSeq(a \o <<>>, 1, Len(a)) = a /\ a \o <<>> = a
  BY EmptySeq, PartsOfConcat, ConcatEmptySeq
<1>3. Len(a \o b) = Len(a) + Len(b) /\ Len(a) \in Nat /\ Len(b) \in Nat
  BY ConcatProperties, LenProperties
<1>4. Len(a) <= Len(a \o b)
  BY <1>3
<1> QED BY <1>1, <1>2, <1>4 DEF IsPrefix

\* Before the connection nothing is written, so Julia has nothing to do.
SilentBefore ==
  process = "alive" /\ socket # "connected" => ~busy /\ toJulia = <<>> /\ pending_events = <<>>

LEMMA StepSilent == IInv /\ SilentBefore /\ [Next]_vars => SilentBefore'
<1> SUFFICES ASSUME IInv, SilentBefore, [Next]_vars, process' = "alive", socket' # "connected"
             PROVE  ~busy' /\ toJulia' = <<>> /\ pending_events' = <<>>
  BY DEF SilentBefore
<1>1. /\ cursor \in 1..Len(pending_events) + 1 /\ process \in {"alive", "dead"}
      /\ pending_events = <<>> => Len(pending_events) = 0
      /\ process = "dead" <=> engine = "down"
  BY EmptySeq DEF IInv, TypeOK, WireTypeOK, EngineTypeOK, EndsTogether
<1>2. ASSUME process = "alive", socket # "connected"
      PROVE  ~busy /\ toJulia = <<>> /\ pending_events = <<>>
  BY <1>2 DEF SilentBefore
<1>3. CASE ResetConsole
  BY <1>3 DEF ResetConsole, Reset, EngineRestart
<1>4. CASE User /\ ~ResetConsole
  <2>1. PICK ms \in Seq(Request) : Becomes(EvalAll(socket, busy, work_queue, ms), <<>>)
    <3>1. CASE ConsoleEval \/ OtherEval
      BY <3>1, SessionAssumption DEF ConsoleEval, OtherEval, Eval
    <3>2. CASE CurrEditorChanged
      <4>1. PICK d \in Dirs : Becomes(EvalAll(socket, busy, work_queue, <<DirMsg(d)>>), <<>>)
        BY <3>2 DEF CurrEditorChanged, SetWorkingDir
      <4> DEFINE one == <<DirMsg(d)>>
      <4>2. one \in Seq(Request)
        BY RequestTypes, Singleton
      <4> QED BY <4>1, <4>2
    <3>3. CASE ClearConsole
      <4> DEFINE ms == IF refreshOnReady THEN PackageLists ELSE <<>>
      <4>1. ms \in Seq(Request)
        BY RequestTypes, EmptySeq
      <4>2. Becomes(EvalAll(socket, busy, work_queue, ms), <<>>)
        BY <3>3 DEF ClearConsole, Eval
      <4> QED BY <4>1, <4>2
    <3> QED BY <1>4, <3>1, <3>2, <3>3 DEF User
  <2>2. UNCHANGED <<process, socket, pending_events>>
    BY <1>4 DEF User, ConsoleEval, OtherEval, CurrEditorChanged, ClearConsole, Eval, SetWorkingDir,
                engineVars
  <2>3. socket # "connected" => busy' = busy /\ toJulia' = toJulia
    BY <2>1, AfterEval
  <2> QED BY <1>2, <2>2, <2>3
<1>5. CASE Ide
  <2>1. CASE ReadStdout
    <3>1. /\ UNCHANGED <<busy, process, toJulia, pending_events>>
          /\ socket' = socket \/ socket = "null"
      BY <2>1 DEF ReadStdout, OnProcessStdout, engineVars
    <3> QED BY <1>2, <3>1
  <2>2. ~SocketConnected /\ ~SocketOutput /\ ~SocketClosed
    BY DEF SocketConnected, OnSocketConnected, SocketOutput, OnSocketOutput, SocketClosed,
           OnSocketClosed, wireVars
  <2> QED BY <1>5, <2>1, <2>2 DEF Ide
<1>6. CASE Engine
  <2>1. ~HandlerThrows /\ ~Crash
    BY DEF HandlerThrows, Crash, Die
  <2>2. process = "alive" /\ socket # "connected"
    <3>1. process' = process
      BY <1>6, <2>1 DEF Engine, AcceptOneOn, Initialize, ProcessIncoming, EventLoop, HandleInput,
                        EngineCallback, HandledAll, wireVars
    <3>2. socket' = socket
      BY <1>6 DEF Engine, ideVars
    <3> QED BY <3>1, <3>2
  <2>3. ~busy /\ toJulia = <<>> /\ pending_events = <<>>
    BY <1>2, <2>2
  <2>4. ~ProcessIncoming /\ \A name : ~Taking(name)
    BY <1>1, <2>3 DEF ProcessIncoming, Taking
  <2>5. busy' = busy
    BY <1>6 DEF Engine, ideVars
  <2>6. toJulia' = toJulia /\ (pending_events' = pending_events \/ pending_events' = <<>>)
    BY <1>6, <2>1, <2>4 DEF Engine, AcceptOneOn, Initialize, EventLoop, HandleInput, EngineCallback,
                            HandledAll, wireVars
  <2> QED BY <2>3, <2>5, <2>6
<1>7. CASE UNCHANGED vars
  BY <1>2, <1>7 DEF vars, wireVars, ideVars, engineVars
<1> QED BY <1>3, <1>4, <1>5, <1>6, <1>7 DEF Next

-----------------------------------------------------------------------------
\* A list is its first member and the rest.
LEMMA FirstJoined ==
  ASSUME NEW b \in Seq(Request)
  PROVE  Service!First(b) \o Service!Rest(b) = b
<1>1. CASE b = <<>>
  BY <1>1, FirstRest
<1>2. CASE b # <<>>
  <2> DEFINE n == Len(b)
             h == Head(b)
             one == <<h>>
             t == Tail(b)
             u == one \o t
  <2>1. n \in Nat /\ n # 0
    BY <1>2, LenProperties, EmptySeq
  <2>2. /\ h \in Request /\ h = b[1] /\ t \in Seq(Request) /\ Len(t) = n - 1
        /\ \A i \in 1..n - 1 : t[i] = b[i + 1]
    BY <1>2, HeadTailProperties
  <2> HIDE DEF h, t, n
  <2>3. one \in Seq(Request) /\ Len(one) = 1 /\ one[1] = h
    BY <2>2
  <2> HIDE DEF one
  <2>4. /\ u \in Seq(Request) /\ Len(u) = Len(one) + Len(t)
        /\ \A i \in 1..Len(one) + Len(t) : u[i] = IF i <= Len(one) THEN one[i] ELSE t[i - Len(one)]
    <3>1. one \in Seq(Request) /\ t \in Seq(Request)
      BY <2>2, <2>3
    <3> QED BY <3>1, ConcatProperties
  <2> HIDE DEF u
  <2>5. Len(one) + Len(t) = n
    BY <2>1, <2>2, <2>3
  <2>6. ASSUME NEW i \in 1..n
        PROVE  u[i] = b[i]
    <3>1. u[i] = IF i <= 1 THEN one[i] ELSE t[i - 1]
      BY <2>3, <2>4, <2>5
    <3>2. CASE i = 1
      BY <2>2, <2>3, <3>1, <3>2
    <3>3. CASE i # 1
      <4>1. i - 1 \in 1..n - 1 /\ (i - 1) + 1 = i /\ ~(i <= 1)
        BY <2>1, <3>3
      <4> QED BY <2>2, <3>1, <4>1
    <3> QED BY <3>2, <3>3
  <2>7. u = b
    BY <2>4, <2>5, <2>6, SeqEqual DEF n
  <2>8. Service!First(b) = one /\ Service!Rest(b) = t
    BY <1>2, FirstRest DEF one, h, t
  <2> QED BY <2>7, <2>8 DEF u
<1> QED BY <1>1, <1>2

\* What eval() writes and what it leaves queued is what was queued and what it was
\* given, if it is not idle on a queue.
Drained(c, b, q) == c = "connected" /\ ~b => q = <<>>
Keeps(e, q, ms) ==
  e.wrote \in Seq(Request) /\ e.queue \in Seq(Request) /\ e.wrote \o e.queue = q \o ms

LEMMA EvalAllKeeps ==
  ASSUME NEW c, NEW b, NEW q \in Seq(Request), NEW ms \in Seq(Request), Drained(c, b, q)
  PROVE  Keeps(EvalAll(c, b, q, ms), q, ms)
<1> DEFINE e == EvalAll(c, b, q, ms)
<1> SUFFICES e.wrote \in Seq(Request) /\ e.queue \in Seq(Request) /\ e.wrote \o e.queue = q \o ms
  BY DEF Keeps
<1>1. q \o ms \in Seq(Request)
  BY Joined
<1>2. CASE b \/ c # "connected" \/ ms = <<>>
  <2>1. e = [busy |-> b, queue |-> q \o ms, wrote |-> <<>>]
    BY <1>2 DEF EvalAll
  <2>2. e.wrote = <<>> /\ e.queue = q \o ms
    BY <2>1
  <2>3. <<>> \o (q \o ms) = q \o ms
    BY <1>1, ConcatEmptySeq
  <2> QED BY <1>1, <2>2, <2>3, EmptySeq
<1>3. CASE ~b /\ c = "connected" /\ ms # <<>>
  <2>1. e = [busy |-> TRUE, queue |-> q \o Tail(ms), wrote |-> <<Head(ms)>>]
    BY <1>3 DEF EvalAll
  <2>2. e.wrote = Service!First(ms) /\ e.queue = q \o Tail(ms) /\ q = <<>>
    BY <1>3, <2>1, FirstRest DEF Drained
  <2>3. Tail(ms) \in Seq(Request)
    BY <1>3, HeadTailProperties
  <2>4. q \o Tail(ms) = Tail(ms) /\ q \o ms = ms
    BY <2>2, <2>3, ConcatEmptySeq
  <2>5. Service!First(ms) \in Seq(Request) /\ Service!First(ms) \o Tail(ms) = ms
    BY <1>3, FirstType, FirstJoined, FirstRest
  <2> QED BY <2>2, <2>3, <2>4, <2>5
<1> QED BY <1>2, <1>3

\* The same of continueOrReady().
LEMMA ContinueKeeps ==
  ASSUME NEW q \in Seq(Request), NEW rs \in Seq(Request)
  PROVE  /\ ContinueOrReady(q, rs).wrote \in Seq(Request)
         /\ ContinueOrReady(q, rs).queue \in Seq(Request)
         /\ \E more \in {<<>>, rs} :
              ContinueOrReady(q, rs).wrote \o ContinueOrReady(q, rs).queue = q \o more
<1> DEFINE b == IF q # <<>> THEN q ELSE rs
           e == ContinueOrReady(q, rs)
<1>1. b \in Seq(Request)
  OBVIOUS
<1>2. e.queue = Service!Rest(b) /\ e.wrote = Service!First(b)
  BY ContinueBegins
<1>3. \E more \in {<<>>, rs} : b = q \o more
  BY FirstRest
<1> HIDE DEF b, e
<1> QED BY <1>1, <1>2, <1>3, FirstType, FirstJoined DEF e

\* (\o under a name of its own, for the provers.)
Then(s, t) == s \o t

LEMMA Regrouped == \A a, b, c \in Seq(Request) : (a \o b) \o c = a \o (b \o c)
BY ConcatAssociative

LEMMA ThenType ==
  ASSUME NEW s \in Seq(Request), NEW t \in Seq(Request)
  PROVE  Then(s, t) \in Seq(Request)
BY ConcatProperties DEF Then

LEMMA ThenRegrouped ==
  ASSUME NEW s \in Seq(Request), NEW t \in Seq(Request), NEW u \in Seq(Request)
  PROVE  Then(Then(s, t), u) = Then(s, Then(t, u))
BY ONLY Regrouped, s \in Seq(Request), t \in Seq(Request), u \in Seq(Request), Zenon DEF Then

LEMMA ThenOfFour ==
  ASSUME NEW U \in Seq(Request), NEW T \in Seq(Request), NEW W \in Seq(Request),
         NEW more \in Seq(Request)
  PROVE  Then(Then(Then(U, T), W), more) = Then(U, Then(T, Then(W, more)))
<1> DEFINE ut == Then(U, T)
           wm == Then(W, more)
<1>1. ut \in Seq(Request) /\ wm \in Seq(Request)
  BY ThenType
<1>2. Then(Then(ut, W), more) = Then(ut, wm)
  BY <1>1, ThenRegrouped
<1>3. Then(ut, wm) = Then(U, Then(T, wm))
  BY <1>1, ThenRegrouped
<1> QED BY <1>2, <1>3

\* Writing before and w from the front of the queue keeps the order.
LEMMA OrderKept ==
  ASSUME NEW U \in Seq(Request), NEW T \in Seq(Request), NEW before \in Seq(Request),
         NEW w \in Seq(Request), NEW queue \in Seq(Request)
  PROVE  Then(Then(U, Then(Then(T, before), w)), queue)
           = Then(U, Then(T, Then(before, Then(w, queue))))
<1> DEFINE tb == Then(T, before)
           tbw == Then(tb, w)
           wq == Then(w, queue)
<1>1. tb \in Seq(Request) /\ wq \in Seq(Request)
  BY ThenType
<1>2. tbw \in Seq(Request)
  BY <1>1, ThenType
<1>3. Then(Then(U, tbw), queue) = Then(U, Then(tbw, queue))
  BY <1>2, ThenRegrouped
<1>4. Then(tbw, queue) = Then(tb, wq)
  BY <1>1, ThenRegrouped
<1>5. Then(tb, wq) = Then(T, Then(before, wq))
  BY <1>1, ThenRegrouped
<1> QED BY <1>3, <1>4, <1>5

LEMMA UnstartedTypes ==
  ASSUME IInv
  PROVE  /\ toJulia \in Seq(Request) /\ work_queue \in Seq(Request)
         /\ Unhandled \in Seq(Event) /\ UnhandledOf("networkIn") \in Seq(Request)
         /\ Unstarted \in Seq(Request)
<1>1. /\ toJulia \in Seq(Request) /\ work_queue \in Seq(Request)
      /\ pending_events \in Seq(Event) /\ cursor \in 1..Len(pending_events) + 1
  BY DEF IInv, TypeOK, WireTypeOK, IdeTypeOK, EngineTypeOK
<1>2. Unhandled \in Seq(Event)
  BY <1>1, EventsFrom DEF Unhandled
<1>3. UnhandledOf("networkIn") \in Seq(Request)
  BY <1>2, MsgsOfConcat DEF UnhandledOf
<1>4. UnhandledOf("networkIn") \o toJulia \in Seq(Request)
  BY <1>1, <1>3, Joined
<1>5. Unstarted \in Seq(Request)
  BY <1>1, <1>4, Joined DEF Unstarted
<1> QED BY <1>1, <1>2, <1>3, <1>5

\* What a step may do to the requests Julia has not begun.
InOrder ==
  \/ IsPrefix(Unstarted, Unstarted')
  \/ Unstarted # <<>> /\ IsPrefix(Tail(Unstarted), Unstarted')
  \/ socket = "connecting" /\ Unstarted' = <<DirMsg(curr_working_dir)>> \o Unstarted

LEMMA MoreInOrder ==
  ASSUME IInv, NEW more \in Seq(Request), Unstarted' = Unstarted \o more
  PROVE  InOrder
BY UnstartedTypes, PrefixOfConcat DEF InOrder

LEMMA SameInOrder ==
  ASSUME IInv, Unstarted' = Unstarted
  PROVE  InOrder
<1>1. Unstarted \o <<>> = Unstarted /\ <<>> \in Seq(Request)
  BY UnstartedTypes, ConcatEmptySeq, EmptySeq
<1> QED BY <1>1, MoreInOrder

\* Becoming the outcome e of an evaluation, before being written first.
LEMMA BecomesInOrder ==
  ASSUME IInv, UNCHANGED <<pending_events, cursor>>, NEW e, NEW before \in Seq(Request),
         NEW more \in Seq(Request), Becomes(e, before),
         e.wrote \in Seq(Request), e.queue \in Seq(Request),
         before \o (e.wrote \o e.queue) = work_queue \o more
  PROVE  Unstarted' = Unstarted \o more
<1> DEFINE U == UnhandledOf("networkIn")
           T == toJulia
           W == work_queue
           w == e.wrote
           queue == e.queue
<1>1. U' = U
  BY DEF UnhandledOf, Unhandled
<1>2. work_queue' = queue /\ toJulia' = Then(Then(T, before), w)
  BY DEF Becomes, Then
<1>3. /\ U \in Seq(Request) /\ T \in Seq(Request) /\ W \in Seq(Request)
      /\ w \in Seq(Request) /\ queue \in Seq(Request)
  BY UnstartedTypes
<1>4. Then(before, Then(w, queue)) = Then(W, more)
  BY DEF Then
<1>5. Unstarted' = Then(Then(U', toJulia'), work_queue')
  BY DEF Unstarted, Then
<1>6. Unstarted = Then(Then(U, T), W)
  BY DEF Unstarted, Then
<1>7. Then(Unstarted, more) = Unstarted \o more
  BY DEF Then
<1>8. Unstarted' = Then(Then(U, Then(Then(T, before), w)), queue)
  BY <1>1, <1>2, <1>5
<1> HIDE DEF U, T, W, w, queue
<1>9. Then(Then(U, Then(Then(T, before), w)), queue)
        = Then(U, Then(T, Then(before, Then(w, queue))))
  BY <1>3, OrderKept
<1>10. Then(Then(Then(U, T), W), more) = Then(U, Then(T, Then(W, more)))
  BY <1>3, ThenOfFour
<1> QED BY <1>4, <1>6, <1>7, <1>8, <1>9, <1>10

LEMMA EvalInOrder ==
  ASSUME IInv, UNCHANGED <<pending_events, cursor>>, NEW ms \in Seq(Request),
         Becomes(EvalAll(socket, busy, work_queue, ms), <<>>)
  PROVE  InOrder
<1> DEFINE e == EvalAll(socket, busy, work_queue, ms)
<1>1. Drained(socket, busy, work_queue) /\ work_queue \in Seq(Request)
  BY UnstartedTypes DEF Drained, IInv, IdleMeansDrained
<1>2. Keeps(e, work_queue, ms)
  BY <1>1, EvalAllKeeps
<1> HIDE DEF e
<1>3. <<>> \o (e.wrote \o e.queue) = work_queue \o ms /\ <<>> \in Seq(Request)
  BY <1>2, Joined, ConcatEmptySeq, EmptySeq DEF Keeps
<1>4. Becomes(e, <<>>)
  BY DEF e
<1>5. Unstarted' = Unstarted \o ms
  BY <1>2, <1>3, <1>4, BecomesInOrder DEF Keeps
<1> QED BY <1>5, MoreInOrder

LEMMA UserInOrder ==
  ASSUME IInv, User, resets' = resets
  PROVE  InOrder
<1>1. CASE ConsoleEval \/ OtherEval
  <2>1. PICK ms \in Seq(Request) : Becomes(EvalAll(socket, busy, work_queue, ms), <<>>)
    BY <1>1, SessionAssumption DEF ConsoleEval, OtherEval, Eval
  <2>2. UNCHANGED <<pending_events, cursor>>
    BY <1>1 DEF ConsoleEval, OtherEval, engineVars
  <2> QED BY <2>1, <2>2, EvalInOrder
<1>2. CASE CurrEditorChanged
  <2>1. PICK d \in Dirs : Becomes(EvalAll(socket, busy, work_queue, <<DirMsg(d)>>), <<>>)
    BY <1>2 DEF CurrEditorChanged, SetWorkingDir
  <2> DEFINE one == <<DirMsg(d)>>
  <2>2. one \in Seq(Request)
    BY RequestTypes, Singleton
  <2>3. UNCHANGED <<pending_events, cursor>> /\ Becomes(EvalAll(socket, busy, work_queue, one), <<>>)
    BY <1>2, <2>1 DEF CurrEditorChanged, engineVars
  <2> HIDE DEF one
  <2> QED BY <2>2, <2>3, EvalInOrder
<1>3. CASE ClearConsole
  <2> DEFINE ms == IF refreshOnReady THEN PackageLists ELSE <<>>
  <2>1. ms \in Seq(Request)
    BY RequestTypes, EmptySeq
  <2>2. UNCHANGED <<pending_events, cursor>> /\ Becomes(EvalAll(socket, busy, work_queue, ms), <<>>)
    BY <1>3 DEF ClearConsole, Eval, engineVars
  <2> HIDE DEF ms
  <2> QED BY <2>1, <2>2, EvalInOrder
<1>4. CASE ResetConsole
  <2>1. resets' = resets + 1 /\ resets \in Nat
    BY <1>4 DEF ResetConsole, IInv, TypeOK
  <2> QED BY <2>1
<1> QED BY <1>1, <1>2, <1>3, <1>4 DEF User

LEMMA ConnectInOrder == IInv /\ SilentBefore /\ SocketConnected => InOrder
<1> SUFFICES ASSUME IInv, SilentBefore, SocketConnected PROVE InOrder
  OBVIOUS
<1>1. /\ socket = "connecting" /\ process = "alive"
      /\ UNCHANGED <<pending_events, cursor>>
      /\ IF curr_working_dir # NoDir
         THEN Becomes(EvalAll("connected", busy, work_queue, <<DirMsg(curr_working_dir)>>), <<>>)
         ELSE Becomes(ContinueOrReady(work_queue, OnReady), <<>>)
  BY DEF SocketConnected, OnSocketConnected, engineVars
<1>2. /\ work_queue \in Seq(Request) /\ OnReady \in Seq(Request) /\ <<>> \in Seq(Request)
      /\ curr_working_dir \in Dirs \union {NoDir}
  BY RequestTypes, UnstartedTypes, EmptySeq DEF IInv, TypeOK, IdeTypeOK
<1>3. CASE curr_working_dir = NoDir
  <2> DEFINE e == ContinueOrReady(work_queue, OnReady)
  <2>1. e.wrote \in Seq(Request) /\ e.queue \in Seq(Request)
    BY <1>2, ContinueKeeps
  <2>2. PICK more \in Seq(Request) : e.wrote \o e.queue = work_queue \o more
    <3>1. \E more \in {<<>>, OnReady} : e.wrote \o e.queue = work_queue \o more
      BY <1>2, ContinueKeeps, Zenon
    <3> HIDE DEF e
    <3> QED BY <1>2, <3>1
  <2>3. Becomes(e, <<>>)
    BY <1>1, <1>3
  <2> HIDE DEF e
  <2>4. <<>> \o (e.wrote \o e.queue) = work_queue \o more
    BY <2>1, <2>2, Joined, ConcatEmptySeq
  <2>5. Unstarted' = Unstarted \o more
    BY <1>1, <1>2, <2>1, <2>3, <2>4, BecomesInOrder
  <2> QED BY <2>5, MoreInOrder
<1>4. CASE curr_working_dir # NoDir
  <2> DEFINE m == DirMsg(curr_working_dir)
             one == <<m>>
             e == EvalAll("connected", busy, work_queue, one)
  <2>1. ~busy /\ toJulia = <<>> /\ pending_events = <<>>
    BY <1>1 DEF SilentBefore
  <2>2. m \in Request
    BY <1>2, <1>4, RequestTypes
  <2> HIDE DEF m
  <2>3. one \in Seq(Request) /\ one # <<>> /\ Head(one) = m /\ Tail(one) = <<>>
    BY <2>2
  <2>4. e = [busy |-> TRUE, queue |-> work_queue \o Tail(one), wrote |-> <<Head(one)>>]
    BY <2>1, <2>3 DEF EvalAll
  <2>5. e.queue = work_queue /\ e.wrote = one
    <3>1. work_queue \o <<>> = work_queue
      BY <1>2, FirstRest
    <3> QED BY <2>3, <2>4, <3>1
  <2>6. Becomes(e, <<>>)
    BY <1>1, <1>4 DEF m
  <2> HIDE DEF e, one
  <2>7. work_queue' = work_queue /\ toJulia' = (<<>> \o <<>>) \o one
    BY <2>1, <2>5, <2>6 DEF Becomes
  <2>8. toJulia' = one
    BY <1>2, <2>3, <2>7, FirstRest
  <2>9. Unhandled = <<>>
    <3>1. cursor \in 1..Len(pending_events) + 1 /\ Len(pending_events) = 0
      BY <2>1, EmptySeq DEF IInv, TypeOK, EngineTypeOK
    <3>2. pending_events \in Seq(Event) /\ cursor - 1 \in 0..Len(pending_events) /\ (cursor - 1) + 1 = cursor
      BY <3>1 DEF IInv, TypeOK, EngineTypeOK
    <3>3. Unhandled \in Seq(Event) /\ Len(Unhandled) = Len(pending_events) - (cursor - 1)
      BY <3>2, BehindFacts DEF Unhandled
    <3> QED BY <3>1, <3>3, EmptySeq
  <2>10. UnhandledOf("networkIn") = <<>>
    BY <2>9, MsgsOfFew DEF UnhandledOf
  <2>11. UnhandledOf("networkIn")' = <<>>
    BY <1>1, <2>10 DEF UnhandledOf, Unhandled
  <2>12. Unstarted = (<<>> \o <<>>) \o work_queue
    BY <2>1, <2>10 DEF Unstarted
  <2>13. Unstarted' = (<<>> \o one) \o work_queue
    BY <2>7, <2>8, <2>11 DEF Unstarted
  <2>14. Unstarted = work_queue /\ Unstarted' = one \o work_queue
    BY <1>2, <2>3, <2>12, <2>13, FirstRest
  <2> QED BY <1>1, <2>14 DEF InOrder, one, m
<1> QED BY <1>3, <1>4

LEMMA OutputInOrder == IInv /\ SocketOutput => InOrder
<1> SUFFICES ASSUME IInv, SocketOutput PROVE InOrder
  OBVIOUS
<1> DEFINE FollowUpsOf(k) ==
             IF IsDocument(SubSeq(fromJulia, 1, k))
             THEN FollowUps(SubSeq(fromJulia, 1, k)[1].reply) ELSE <<>>
           EvalIn(k) == EvalAll("connected", busy, work_queue, FollowUpsOf(k))
<1>1. PICK k \in 1..Len(fromJulia) :
        OnSocketOutput(k, FollowUpsOf(k), OnReady) /\ UNCHANGED engineVars
  BY DEF SocketOutput
<1> DEFINE f == FollowUpsOf(k)
           g == EvalIn(k)
           e == ContinueOrReady(g.queue, OnReady)
<1>2. /\ socket = "connected"
      /\ UNCHANGED <<pending_events, cursor>>
      /\ Becomes(e, g.wrote)
  BY <1>1 DEF OnSocketOutput, engineVars
<1>3. f \in Seq(Request) /\ OnReady \in Seq(Request) /\ work_queue \in Seq(Request)
  BY RequestTypes, EmptySeq, UnstartedTypes
<1>4. g = EvalAll("connected", busy, work_queue, f)
  OBVIOUS
<1> HIDE DEF f, g
<1>5. g.wrote \in Seq(Request) /\ g.queue \in Seq(Request) /\ g.wrote \o g.queue = work_queue \o f
  <2>1. Drained(socket, busy, work_queue)
    BY DEF Drained, IInv, IdleMeansDrained
  <2>2. Keeps(EvalAll(socket, busy, work_queue, f), work_queue, f)
    BY <1>3, <2>1, EvalAllKeeps
  <2>3. Keeps(g, work_queue, f)
    BY <1>2, <1>4, <2>2
  <2> QED BY <2>3 DEF Keeps
<1>6. e.wrote \in Seq(Request) /\ e.queue \in Seq(Request)
  BY <1>3, <1>5, ContinueKeeps
<1>7. PICK more \in Seq(Request) : e.wrote \o e.queue = g.queue \o more
  <2>1. \E more \in {<<>>, OnReady} : e.wrote \o e.queue = g.queue \o more
    BY <1>3, <1>5, ContinueKeeps, Zenon
  <2> HIDE DEF e
  <2> QED BY <1>3, <2>1, EmptySeq
<1> HIDE DEF e
<1> DEFINE before == g.wrote
           q == g.queue
           W == work_queue
           wq == e.wrote \o e.queue
           fm == Then(f, more)
<1>8. before \in Seq(Request) /\ q \in Seq(Request) /\ W \in Seq(Request) /\ fm \in Seq(Request)
  BY <1>3, <1>5, ThenType
<1>9. Then(before, q) = Then(W, f) /\ wq = Then(q, more)
  BY <1>5, <1>7 DEF Then
<1>10. before \o wq = Then(before, wq) /\ W \o fm = Then(W, fm)
  BY DEF Then
<1> HIDE DEF before, q, W, wq
<1>11. Then(before, Then(q, more)) = Then(Then(before, q), more)
  BY <1>8, ThenRegrouped
<1>12. Then(Then(W, f), more) = Then(W, fm)
  BY <1>3, <1>8, ThenRegrouped
<1> HIDE DEF fm
<1>13. before \o wq = W \o fm
  BY <1>9, <1>10, <1>11, <1>12
<1>14. Unstarted' = Unstarted \o fm
  <2>1. g.wrote \o (e.wrote \o e.queue) = work_queue \o fm
    BY <1>13 DEF before, W, wq
  <2>2. g.wrote \in Seq(Request)
    BY <1>5
  <2> QED BY <1>2, <1>6, <1>8, <2>1, <2>2, BecomesInOrder
<1> QED BY <1>8, <1>14, MoreInOrder

LEMMA SameQueues ==
  ASSUME UNCHANGED <<pending_events, cursor, toJulia, work_queue>>
  PROVE  Unstarted' = Unstarted
BY DEF Unstarted, UnhandledOf, Unhandled

LEMMA IdeInOrder == IInv /\ SilentBefore /\ Ide => InOrder
<1> SUFFICES ASSUME IInv, SilentBefore, Ide PROVE InOrder
  OBVIOUS
<1>1. CASE ReadStdout
  <2>1. UNCHANGED <<pending_events, cursor, toJulia, work_queue>>
    BY <1>1 DEF ReadStdout, OnProcessStdout, engineVars
  <2> QED BY <2>1, SameQueues, SameInOrder
<1>2. CASE SocketClosed
  <2>1. UNCHANGED <<pending_events, cursor, toJulia, work_queue>>
    BY <1>2 DEF SocketClosed, OnSocketClosed, engineVars, wireVars
  <2> QED BY <2>1, SameQueues, SameInOrder
<1> QED BY <1>1, <1>2, ConnectInOrder, OutputInOrder DEF Ide

\* A list behind one request is the rest of the two.
LEMMA TailOfConcat ==
  ASSUME NEW f \in Seq(Request), Len(f) = 1, NEW a \in Seq(Request)
  PROVE  Tail(f \o a) = a /\ f \o a # <<>>
<1> DEFINE n == Len(a)
           u == f \o a
<1>1. n \in Nat
  BY LenProperties
<1>2. /\ u \in Seq(Request) /\ Len(u) = Len(f) + n
      /\ \A i \in 1..Len(f) + n : u[i] = IF i <= Len(f) THEN f[i] ELSE a[i - Len(f)]
  BY ConcatProperties
<1> HIDE DEF n, u
<1>3. Len(u) = 1 + n /\ \A i \in 1..1 + n : u[i] = IF i <= 1 THEN f[i] ELSE a[i - 1]
  BY <1>2
<1>4. u # <<>>
  BY <1>1, <1>2, <1>3, EmptySeq
<1> DEFINE t == Tail(u)
<1>5. t \in Seq(Request) /\ Len(t) = Len(u) - 1 /\ \A i \in 1..Len(u) - 1 : t[i] = u[i + 1]
  BY <1>2, <1>4, HeadTailProperties
<1> HIDE DEF t
<1>6. Len(u) - 1 = n
  BY <1>1, <1>3
<1>7. ASSUME NEW i \in 1..n
      PROVE  t[i] = a[i]
  <2>1. i + 1 \in 1..1 + n /\ ~(i + 1 <= 1) /\ (i + 1) - 1 = i
    BY <1>1
  <2>2. u[i + 1] = a[(i + 1) - 1]
    BY <1>3, <2>1
  <2> QED BY <1>5, <1>6, <2>1, <2>2
<1>8. t = a
  BY <1>5, <1>6, <1>7, SeqEqual DEF n
<1> QED BY <1>4, <1>8 DEF t, u

\* The requests in an array of one event.
LEMMA OneEvent ==
  ASSUME NEW e \in Event
  PROVE  /\ <<e>> \in Seq(Event)
         /\ e.name = "networkIn" => MsgsNamed("networkIn", <<e>>) = <<e.msg>>
         /\ e.name # "networkIn" => MsgsNamed("networkIn", <<e>>) = <<>>
<1>1. MsgsNamed("networkIn", <<e>>) = IF e.name = "networkIn" THEN <<e.msg>> ELSE <<>>
  BY MsgsOfFew, Zenon
<1>2. <<e>> \in Seq(Event)
  OBVIOUS
<1> QED BY <1>1, <1>2

\* The reader task moves the next request from the socket to the end of the array.
LEMMA ReadInOrder == IInv /\ ProcessIncoming /\ UNCHANGED ideVars => InOrder
<1> SUFFICES ASSUME IInv, ProcessIncoming, UNCHANGED ideVars PROVE InOrder
  OBVIOUS
<1> DEFINE pe == pending_events
           c == cursor
           T == toJulia
           m == Head(T)
           ev == NetworkIn(m)
           one == <<ev>>
           R == SubSeq(pe, c, Len(pe))
           ap == Append(pe, ev)
           U == UnhandledOf("networkIn")
<1>1. /\ T # <<>> /\ toJulia' = Tail(T)
      /\ pending_events' = ap /\ cursor' = cursor /\ work_queue' = work_queue
  BY DEF ProcessIncoming, NewEvent, ideVars
<1>2. /\ pe \in Seq(Event) /\ c \in 1..Len(pe) + 1 /\ T \in Seq(Request)
      /\ work_queue \in Seq(Request) /\ U \in Seq(Request)
  BY UnstartedTypes DEF IInv, TypeOK, EngineTypeOK
<1>3. m \in Request /\ Tail(T) \in Seq(Request)
  BY <1>1, <1>2, HeadTailProperties
<1>4. ev \in Event /\ ev.name = "networkIn" /\ ev.msg = m
  BY <1>3 DEF NetworkIn, Event
<1>5. U = MsgsNamed("networkIn", R)
  BY DEF UnhandledOf, Unhandled
<1>6. UnhandledOf("networkIn")' = MsgsNamed("networkIn", SubSeq(ap, c, Len(ap)))
  BY <1>1 DEF UnhandledOf, Unhandled
<1> HIDE DEF pe, c, T, m, ev, R, ap, U
<1>7. SubSeq(ap, c, Len(ap)) = R \o one /\ R \in Seq(Event)
  BY <1>2, <1>4, EventsFrom DEF ap, R
<1>8. one \in Seq(Event) /\ MsgsNamed("networkIn", one) = <<m>>
  BY <1>4, OneEvent
<1>9. UnhandledOf("networkIn")' = U \o <<m>>
  <2> HIDE DEF one
  <2>1. MsgsNamed("networkIn", R \o one) = MsgsNamed("networkIn", R) \o MsgsNamed("networkIn", one)
    BY <1>7, <1>8, MsgsOfConcat
  <2> QED BY <1>5, <1>6, <1>7, <1>8, <2>1
<1> DEFINE first == <<m>>
           rest == Tail(T)
           Un == UnhandledOf("networkIn")
<1>10. first \in Seq(Request) /\ rest \in Seq(Request)
  BY <1>3
<1>11. Then(first, rest) = T
  BY <1>1, <1>2, FirstRest, FirstJoined DEF Then, m
<1>12. Un' = Then(U, first)
  BY <1>9 DEF Then
<1>13. Unstarted' = Then(Then(Un', rest), work_queue)
  BY <1>1 DEF Unstarted, Then, T
<1>14. Unstarted = Then(Then(U, T), work_queue)
  BY DEF Unstarted, Then, U, T
<1> HIDE DEF first, rest, Un
<1>15. Then(Then(U, first), rest) = Then(U, Then(first, rest))
  BY <1>2, <1>10, ThenRegrouped
<1> QED BY <1>11, <1>12, <1>13, <1>14, <1>15, SameInOrder

\* A handler that has run, or a reply that is written, is one event behind the loop.
LEMMA TakenInOrder ==
  ASSUME IInv, cursor <= Len(pending_events), cursor' = cursor + 1,
         UNCHANGED <<toJulia, work_queue>>,
         \/ pending_events' = pending_events
         \/ \E rep \in Reply : pending_events' = Append(pending_events, NetworkOut(rep))
  PROVE  InOrder
<1> DEFINE pe == pending_events
           c == cursor
           x == pe[c]
           one == <<x>>
           R == SubSeq(pe, c + 1, Len(pe))
           U == UnhandledOf("networkIn")
           V == MsgsNamed("networkIn", R)
           F == MsgsNamed("networkIn", one)
<1>1. /\ pe \in Seq(Event) /\ c \in 1..Len(pe) /\ c \in 1..Len(pe) + 1 /\ c + 1 \in 1..Len(pe) + 1
      /\ toJulia \in Seq(Request) /\ work_queue \in Seq(Request)
  <2>1. Len(pe) \in Nat /\ c \in 1..Len(pe) + 1
    BY LenProperties DEF IInv, TypeOK, EngineTypeOK
  <2>2. c \in 1..Len(pe) /\ c + 1 \in 1..Len(pe) + 1
    BY <2>1
  <2> QED BY <2>1, <2>2, UnstartedTypes DEF IInv, TypeOK, EngineTypeOK
<1>2. x \in Event
  BY <1>1, ElementOfSeq
<1>3. U = MsgsNamed("networkIn", SubSeq(pe, c, Len(pe)))
  BY DEF UnhandledOf, Unhandled
<1>4. UnhandledOf("networkIn")' = MsgsNamed("networkIn", SubSeq(pe', c + 1, Len(pe')))
  BY DEF UnhandledOf, Unhandled
<1>5. Unstarted = Then(Then(U, toJulia), work_queue)
  BY DEF Unstarted, Then
<1>6. Unstarted' = Then(Then(UnhandledOf("networkIn")', toJulia), work_queue)
  BY DEF Unstarted, Then
<1> HIDE DEF x, R, U, V, F
<1>7. R \in Seq(Event) /\ SubSeq(pe, c, Len(pe)) = one \o R
  BY <1>1, EventsFrom DEF R, x
<1>8. /\ one \in Seq(Event)
      /\ x.name = "networkIn" => F = <<x.msg>>
      /\ x.name # "networkIn" => F = <<>>
  BY <1>2, OneEvent DEF F
<1> HIDE DEF one
<1>9. U = F \o V /\ V \in Seq(Request)
  BY <1>3, <1>7, <1>8, MsgsOfConcat DEF V, F
<1>10. UnhandledOf("networkIn")' = V
  <2>1. CASE pe' = pe
    BY <1>4, <2>1 DEF V, R
  <2>2. CASE \E rep \in Reply : pe' = Append(pe, NetworkOut(rep))
    <3>1. PICK rep \in Reply : pe' = Append(pe, NetworkOut(rep))
      BY <2>2
    <3> DEFINE ev == NetworkOut(rep)
               last == <<ev>>
               ap == Append(pe, ev)
    <3>2. ev \in Event /\ ev.name = "networkOut"
      BY DEF NetworkOut, Event
    <3>3. pe' = ap
      BY <3>1
    <3> HIDE DEF ev
    <3>4. last \in Seq(Event) /\ MsgsNamed("networkIn", last) = <<>>
      BY <3>2, OneEvent
    <3>5. SubSeq(ap, c + 1, Len(ap)) = R \o last
      <4> DEFINE d == c + 1
      <4>1. d \in 1..Len(pe) + 1 /\ R = SubSeq(pe, d, Len(pe))
        BY <1>1 DEF R
      <4> HIDE DEF d
      <4>2. SubSeq(ap, d, Len(ap)) = R \o last
        BY <1>1, <3>2, <4>1, EventsFrom
      <4> QED BY <4>2 DEF d
    <3> HIDE DEF last, ap
    <3>6. MsgsNamed("networkIn", R \o last) = V \o <<>>
      BY <1>7, <3>4, MsgsOfConcat DEF V
    <3>7. V \o <<>> = V
      BY <1>9, FirstRest
    <3> QED BY <1>4, <3>3, <3>5, <3>6, <3>7
  <2> QED BY <2>1, <2>2
<1>11. CASE x.name # "networkIn"
  <2>1. U = V
    BY <1>8, <1>9, <1>11, FirstRest
  <2> QED BY <1>5, <1>6, <1>10, <2>1, SameInOrder
<1>12. CASE x.name = "networkIn"
  <2> DEFINE r == x.msg
             first == <<r>>
             vt == Then(V, toJulia)
             after == Then(vt, work_queue)
  <2>1. r \in Request
    BY <1>2, <1>12, EventKinds
  <2> HIDE DEF r
  <2>2. first \in Seq(Request) /\ Len(first) = 1
    BY <2>1
  <2>3. U = Then(first, V)
    BY <1>8, <1>9, <1>12 DEF Then, r
  <2>4. vt \in Seq(Request) /\ after \in Seq(Request)
    BY <1>1, <1>9, ThenType
  <2> HIDE DEF first
  <2>5. Then(Then(first, V), toJulia) = Then(first, vt)
    BY <1>1, <1>9, <2>2, ThenRegrouped
  <2>6. Then(Then(first, vt), work_queue) = Then(first, after)
    BY <1>1, <2>2, <2>4, ThenRegrouped
  <2>7. Unstarted = Then(first, after) /\ Unstarted' = after
    BY <1>5, <1>6, <1>10, <2>3, <2>5, <2>6
  <2> HIDE DEF after
  <2>8. Tail(first \o after) = after /\ first \o after # <<>>
    BY <2>2, <2>4, TailOfConcat
  <2>9. after \o <<>> = after /\ <<>> \in Seq(Request)
    BY <2>4, FirstRest, EmptySeq
  <2>10. IsPrefix(after, after)
    BY <2>4, <2>9, PrefixOfConcat
  <2> QED BY <2>7, <2>8, <2>10 DEF InOrder, Then
<1> QED BY <1>11, <1>12

LEMMA EngineInOrder == IInv /\ Engine /\ process' = "alive" => InOrder
<1> SUFFICES ASSUME IInv, Engine, process' = "alive" PROVE InOrder
  OBVIOUS
<1>1. UNCHANGED ideVars /\ work_queue' = work_queue
  BY DEF Engine, ideVars
<1>2. CASE AcceptOneOn \/ Initialize \/ EventLoop
  <2>1. UNCHANGED <<pending_events, cursor, toJulia, work_queue>>
    BY <1>1, <1>2 DEF AcceptOneOn, Initialize, EventLoop, wireVars
  <2> QED BY <2>1, SameQueues, SameInOrder
<1>3. CASE ProcessIncoming
  BY <1>1, <1>3, ReadInOrder
<1>4. CASE HandleInput
  <2> DEFINE r == pending_events[cursor].msg
  <2>1. PICK rep \in RepliesTo(r) : pending_events' = Append(pending_events, NetworkOut(rep))
    BY <1>4 DEF HandleInput, NewEvent
  <2>2. /\ cursor <= Len(pending_events) /\ cursor' = cursor + 1 /\ toJulia' = toJulia
        /\ pending_events[cursor].name = "networkIn"
    BY <1>4 DEF HandleInput, Taking, wireVars
  <2>3. r \in Request
    <3>1. pending_events[cursor] \in Event
      <4>1. cursor \in 1..Len(pending_events) /\ pending_events \in Seq(Event)
        <5>1. cursor \in 1..Len(pending_events) + 1 /\ Len(pending_events) \in Nat
          BY LenProperties DEF IInv, TypeOK, EngineTypeOK
        <5> QED BY <2>2, <5>1 DEF IInv, TypeOK, EngineTypeOK
      <4> QED BY <4>1, ElementOfSeq
    <3> QED BY <2>2, <3>1, EventKinds
  <2>4. rep \in Reply
    BY <2>1, <2>3, ReplyTyping
  <2> QED BY <1>1, <2>1, <2>2, <2>4, TakenInOrder
<1>5. CASE EngineCallback
  <2>1. /\ cursor <= Len(pending_events) /\ cursor' = cursor + 1
        /\ UNCHANGED <<toJulia, pending_events>>
    BY <1>5 DEF EngineCallback, Taking
  <2> QED BY <1>1, <2>1, TakenInOrder
<1>6. CASE HandledAll
  <2>1. /\ cursor > Len(pending_events) /\ pending_events' = <<>> /\ cursor' = 1
        /\ toJulia' = toJulia
    BY <1>6 DEF HandledAll, wireVars
  <2>2. /\ pending_events \in Seq(Event) /\ Len(pending_events) \in Nat
        /\ cursor \in 1..Len(pending_events) + 1
    BY LenProperties DEF IInv, TypeOK, EngineTypeOK
  <2>3. /\ cursor - 1 \in 0..Len(pending_events) /\ (cursor - 1) + 1 = cursor
        /\ Len(pending_events) - (cursor - 1) = 0
    BY <2>1, <2>2
  <2>4. Unhandled = <<>>
    <3>1. Unhandled \in Seq(Event) /\ Len(Unhandled) = Len(pending_events) - (cursor - 1)
      BY <2>2, <2>3, BehindFacts DEF Unhandled
    <3> QED BY <2>3, <3>1, EmptySeq
  <2>5. Unhandled' = <<>>
    <3>1. Unhandled' = SubSeq(<<>>, 1, Len(<<>>))
      BY <2>1 DEF Unhandled
    <3>2. Len(<<>>) = 0 /\ <<>> \in Seq(Event) /\ SubSeq(<<>>, 1, 0) = <<>>
      BY EmptySeq
    <3> QED BY <3>1, <3>2
  <2>6. Unstarted' = Unstarted
    BY <1>1, <2>1, <2>4, <2>5 DEF Unstarted, UnhandledOf
  <2> QED BY <2>6, SameInOrder
<1>7. CASE HandlerThrows \/ Crash
  BY <1>7 DEF HandlerThrows, Crash, Die
<1> QED BY <1>2, <1>3, <1>4, <1>5, <1>6, <1>7 DEF Engine

\* However replies are cut up, Julia begins the requests in the order in which they
\* were evaluated, each once, as long as it lives and is not reset; the directory
\* sent on connecting goes first (work_queue, the socket, pending_events).
THEOREM OrderIsKept == Spec => NeverReordered
<1>1. Init => IInv /\ SilentBefore
  <2>1. Init => SilentBefore
    BY DEF Init, EngineInit, SilentBefore
  <2> QED BY <2>1, InitIInv
<1>2. IInv /\ SilentBefore /\ [Next]_vars => (IInv /\ SilentBefore)'
  BY StepIInv, StepSilent
<1>3. IInv /\ SilentBefore /\ [Next]_vars
        => [(process' = "alive" /\ resets' = resets) =>
              \/ IsPrefix(Unstarted, Unstarted')
              \/ Unstarted # <<>> /\ IsPrefix(Tail(Unstarted), Unstarted')
              \/ socket = "connecting" /\ Unstarted' = <<DirMsg(curr_working_dir)>> \o Unstarted
           ]_vars
  <2> SUFFICES ASSUME IInv, SilentBefore, Next, process' = "alive", resets' = resets
               PROVE  InOrder
    BY DEF InOrder
  <2> QED BY UserInOrder, IdeInOrder, EngineInOrder DEF Next
<1> QED BY <1>1, <1>2, <1>3, PTL DEF Spec, NeverReordered
=============================================================================
