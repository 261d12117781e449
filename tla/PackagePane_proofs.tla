------------------------ MODULE PackagePane_proofs ---------------------------
(***************************************************************************)
(* That a pane which shows the wrong packages as installed is about to be   *)
(* corrected, for any packages, any actions that fail but the list of the   *)
(* installed, and any number of resets, as long as the console's commands   *)
(* install nothing; and that its busy flag is about to be cleared, without  *)
(* these conditions.                                                        *)
(***************************************************************************)
EXTENDS PackagePane, TLAPS, SequenceTheorems

Request == [cmd : Commands, pkgs : SUBSET Package]

ListsRequested == GetAvailable \in Request /\ GetRequired \in Request

LEMMA ListsAreRequests == ListsRequested /\ Lists \in Seq(Request)
  BY DEF ListsRequested, GetAvailable, GetRequired, Req, Request, Commands, Lists

HasList(q) == \E i \in DOMAIN q : IsList(q[i])

\* What changes the rows or what is installed is followed by the list of the installed;
\* commands of the console change nothing.
Changing(r) == r.cmd \in {"available", "add", "remove"}
HasRequired(q) == \E i \in DOMAIN q : q[i] = GetRequired
Followed(q) ==
  \A i \in DOMAIN q :
    /\ Changing(q[i]) => \E j \in DOMAIN q : j > i /\ q[j] = GetRequired
    /\ q[i].cmd = "eval" => q[i].pkgs = {}

\* The types, and what makes busy end.
PendingInv == TypeOK /\ (busy => refreshOnReady \/ HasList(queue))

\* What makes the pane right in the end.
PaneInv == PendingInv /\ Followed(queue) /\ StaleMeansRefresh

\* Requests are put behind the queue, a list among them if busy is set; where the console
\* installs nothing, changes have the list of the installed behind them.
Requested(more) ==
  /\ queue' = queue \o more
  /\ UNCHANGED <<shown, installed, connected, refreshOnReady, resets>>
  /\ busy' = busy \/ (busy' = TRUE /\ HasList(more))
  /\ ConsoleRuns \subseteq {"nothing"} => Followed(more)

LEMMA UserRequests ==
  ASSUME TypeOK, TogglePackage \/ UpdatePackages \/ ConsoleCommand
  PROVE  \E more \in Seq(Request) : Requested(more)
<1>1. queue \in Seq(Request) /\ GetAvailable \in Request /\ GetRequired \in Request
  BY ListsAreRequests DEF TypeOK, Request, ListsRequested
<1>2. CASE TogglePackage
  <2>1. PICK p \in Package :
          queue' = queue \o <<Req(IF shown[p] = "bold" THEN "remove" ELSE "add", {p}), GetRequired>>
    BY <1>2 DEF TogglePackage
  <2> DEFINE a == Req(IF shown[p] = "bold" THEN "remove" ELSE "add", {p})
             more == <<a, GetRequired>>
  <2>2. a \in Request
    BY DEF Req, Request, Commands
  <2>3. Followed(more) /\ HasList(more)
    BY DEF Followed, HasList, Changing, IsList, GetRequired, Req
  <2> HIDE DEF a
  <2>4. more \in Seq(Request)
    BY <1>1, <2>2
  <2>5. queue' = queue \o more
    BY <2>1 DEF a
  <2> HIDE DEF more
  <2>6. Requested(more)
    BY <1>2, <2>3, <2>5 DEF TogglePackage, Requested
  <2>7. QED
    BY <2>4, <2>6
<1>3. CASE UpdatePackages
  <2> DEFINE a == Req("update", {})
             more == <<a, GetAvailable, GetRequired>>
  <2>1. a \in Request
    BY DEF Req, Request, Commands
  <2>2. Followed(more) /\ HasList(more)
    BY DEF Followed, HasList, Changing, IsList, GetAvailable, GetRequired, Req
  <2> HIDE DEF a
  <2>3. more \in Seq(Request)
    BY <1>1, <2>1
  <2>4. queue' = queue \o more
    BY <1>3 DEF UpdatePackages, a
  <2> HIDE DEF more
  <2>5. Requested(more)
    BY <1>3, <2>2, <2>4 DEF UpdatePackages, Requested
  <2>6. QED
    BY <2>3, <2>5
<1>4. CASE ConsoleCommand
  <2>1. PICK run \in ConsoleRuns, p \in Package :
          queue' = Append(queue, Req("eval", IF run = "add" THEN {p} ELSE {}))
    BY <1>4 DEF ConsoleCommand
  <2> DEFINE a == Req("eval", IF run = "add" THEN {p} ELSE {})
             more == <<a>>
  <2>2. a \in Request /\ queue' = Append(queue, a)
    BY <2>1 DEF Req, Request, Commands
  <2>3. ConsoleRuns \subseteq {"nothing"} => Followed(more)
    BY DEF Followed, Changing, Req
  <2> HIDE DEF a
  <2>4. more \in Seq(Request) /\ queue' = queue \o more
    BY <1>1, <2>2, AppendIsConcat
  <2> HIDE DEF more
  <2>5. Requested(more)
    BY <1>4, <2>3, <2>4 DEF ConsoleCommand, Requested
  <2>6. QED
    BY <2>4, <2>5
<1>5. QED
  BY <1>2, <1>3, <1>4

\* The directory goes before all others; it is followed by anything.
LEMMA DirectoryFirst ==
  LET dir == <<Req("dir", {})>>
  IN  dir \in Seq(Request) /\ Followed(dir)
<1> DEFINE a == Req("dir", {})
           dir == <<a>>
<1>1. a \in Request
  BY DEF Req, Request, Commands
<1>2. Followed(dir)
  BY DEF Followed, Changing, Req
<1> HIDE DEF a
<1>3. dir \in Seq(Request)
  BY <1>1
<1>4. QED
  BY <1>2, <1>3 DEF a

LEMMA EmptyFollowed == <<>> \in Seq(Request) /\ Followed(<<>>) /\ ~HasRequired(<<>>)
  BY DEF Followed, HasRequired

LEMMA ListsFollowed == Followed(Lists) /\ HasRequired(Lists)
  BY DEF Lists, Followed, HasRequired, Changing, GetAvailable, GetRequired, Req

LEMMA QueueInit ==
  Init => TypeOK /\ Followed(queue) /\ HasRequired(queue)
<1> SUFFICES ASSUME Init PROVE TypeOK /\ Followed(queue) /\ HasRequired(queue)
  OBVIOUS
<1>1. queue = Lists /\ shown \in [Package -> {"none", "plain", "bold"}]
  BY DEF Init, Lists
<1>2. TypeOK
  BY <1>1, ListsAreRequests DEF Init, TypeOK, Request
<1>3. Followed(queue) /\ HasRequired(queue)
  BY <1>1, ListsFollowed
<1>4. QED
  BY <1>2, <1>3

-----------------------------------------------------------------------------
LEMMA ListBehind ==
  ASSUME NEW q \in Seq(Request), NEW more \in Seq(Request)
  PROVE  /\ q \o more \in Seq(Request)
         /\ HasList(q) \/ HasList(more) => HasList(q \o more)
<1>1. /\ q \o more \in Seq(Request)
      /\ Len(q \o more) = Len(q) + Len(more)
      /\ \A i \in 1..Len(q) + Len(more) :
           (q \o more)[i] = IF i <= Len(q) THEN q[i] ELSE more[i - Len(q)]
  BY ConcatProperties
<1>2. /\ DOMAIN q = 1..Len(q) /\ Len(q) \in Nat
      /\ DOMAIN more = 1..Len(more) /\ Len(more) \in Nat
      /\ DOMAIN (q \o more) = 1..Len(q) + Len(more)
  BY <1>1, LenProperties
<1>3. \A i \in DOMAIN q : i \in DOMAIN (q \o more) /\ (q \o more)[i] = q[i]
  BY <1>1, <1>2
<1>4. \A i \in DOMAIN more :
        Len(q) + i \in DOMAIN (q \o more) /\ (q \o more)[Len(q) + i] = more[i]
  BY <1>1, <1>2
<1>5. QED
  BY <1>1, <1>3, <1>4 DEF HasList

LEMMA ListInTail ==
  ASSUME NEW q \in Seq(Request), q # <<>>
  PROVE  /\ Head(q) \in Request /\ Tail(q) \in Seq(Request)
         /\ HasList(q) /\ ~IsList(Head(q)) => HasList(Tail(q))
<1>1. /\ Head(q) \in Request /\ Tail(q) \in Seq(Request)
      /\ Len(Tail(q)) = Len(q) - 1
      /\ \A i \in 1..Len(Tail(q)) : Tail(q)[i] = q[i + 1]
      /\ Head(q) = q[1]
  BY HeadTailProperties
<1>2. /\ DOMAIN q = 1..Len(q) /\ Len(q) \in Nat
      /\ DOMAIN Tail(q) = 1..Len(q) - 1
  BY <1>1, LenProperties
<1>3. \A i \in DOMAIN q : i # 1 => i - 1 \in DOMAIN Tail(q) /\ Tail(q)[i - 1] = q[i]
  BY <1>1, <1>2
<1>4. QED
  BY <1>1, <1>3 DEF HasList

\* An answer, of whatever outcome, ends busy if it is a list, and leaves it else.
LEMMA OutcomeEndsBusy ==
  ASSUME TypeOK, NEW r \in Request, NEW out \in Outcomes(r)
  PROVE  /\ out.pane.shown \in [Package -> {"none", "plain", "bold"}]
         /\ out.pane.busy = (busy /\ ~IsList(r)) /\ out.pane.busy \in BOOLEAN
         /\ out.installed \subseteq Package
<1>1. r.cmd \in Commands /\ r.pkgs \subseteq Package /\ installed \subseteq Package /\ busy \in BOOLEAN
  BY DEF Request, TypeOK
<1>2. Effect(r) \subseteq Package
  BY <1>1 DEF Effect, TypeOK, Commands
<1>3. \A kind \in Commands \union {"failed"} :
        /\ EvaluatorOutput(kind).shown \in [Package -> {"none", "plain", "bold"}]
        /\ EvaluatorOutput(kind).busy
             = IF kind \in {"available", "installed", "failed"} THEN FALSE ELSE busy
  BY DEF EvaluatorOutput, TypeOK, InstalledRows, AvailableRows, Commands
<1>4. \/ out.pane = EvaluatorOutput(r.cmd) /\ out.installed = Effect(r)
      \/ /\ out.installed = installed
         /\ out.pane = EvaluatorOutput(IF IsList(r) THEN "failed" ELSE r.cmd)
  BY DEF Outcomes
<1>5. PICK kind \in Commands \union {"failed"} :
        /\ out.pane = EvaluatorOutput(kind)
        /\ kind \in {"available", "installed", "failed"} <=> IsList(r)
  BY <1>1, <1>4 DEF IsList, Commands
<1>6. QED
  BY <1>1, <1>2, <1>3, <1>4, <1>5

LEMMA PendingReady ==
  ASSUME NEW q \in Seq(Request), NEW b \in BOOLEAN, refreshOnReady \in BOOLEAN, Ready(q, b)
  PROVE  /\ queue' \in Seq(Request) /\ busy' \in BOOLEAN /\ refreshOnReady' \in BOOLEAN
         /\ busy' => ~refreshOnReady /\ b /\ queue' = q
<1>1. q \o Lists \in Seq(Request)
  BY ListsAreRequests, ListBehind
<1>2. QED
  BY <1>1 DEF Ready

LEMMA PendingAdded ==
  ASSUME PendingInv, NEW more \in Seq(Request),
         queue' = queue \o more \/ queue' = more \o queue,
         UNCHANGED <<shown, installed, refreshOnReady, resets>>, connected' \in BOOLEAN,
         busy' = busy \/ (busy' = TRUE /\ HasList(more))
  PROVE  PendingInv'
<1>1. TypeOK /\ queue \in Seq(Request) /\ (busy => refreshOnReady \/ HasList(queue))
  BY DEF PendingInv, TypeOK, Request
<1>2. queue' \in Seq(Request) /\ (HasList(queue) \/ HasList(more) => HasList(queue'))
  BY <1>1, ListBehind
<1>3. TypeOK'
  BY <1>1, <1>2 DEF TypeOK, Request
<1>4. busy' => refreshOnReady' \/ HasList(queue')
  BY <1>1, <1>2
<1>5. QED
  BY <1>3, <1>4 DEF PendingInv, HasList, IsList

LEMMA PendingNext == PendingInv /\ [Next]_vars => PendingInv'
<1> SUFFICES ASSUME PendingInv, [Next]_vars PROVE PendingInv'
  OBVIOUS
<1>1. /\ TypeOK /\ queue \in Seq(Request) /\ (busy => refreshOnReady \/ HasList(queue))
      /\ busy \in BOOLEAN /\ refreshOnReady \in BOOLEAN /\ connected \in BOOLEAN
  BY DEF PendingInv, TypeOK, Request
<1>2. ASSUME TypeOK', busy' => refreshOnReady' \/ HasList(queue') PROVE PendingInv'
  BY <1>2 DEF PendingInv, HasList, IsList
<1>3. CASE TogglePackage \/ UpdatePackages \/ ConsoleCommand
  <2>1. PICK more \in Seq(Request) : Requested(more)
    BY <1>1, <1>3, UserRequests
  <2>2. QED
    BY <1>1, <2>1, PendingAdded DEF Requested
<1>4. CASE ClearConsole
  <2>1. /\ queue' \in Seq(Request) /\ busy' \in BOOLEAN /\ refreshOnReady' \in BOOLEAN
        /\ busy' => ~refreshOnReady /\ busy /\ queue' = queue
    BY <1>1, <1>4, PendingReady DEF ClearConsole
  <2>2. TypeOK'
    BY <1>1, <1>4, <2>1 DEF ClearConsole, TypeOK, Request
  <2>3. QED
    BY <1>1, <1>2, <2>1, <2>2
<1>5. CASE Reset
  <2>1. installed' \subseteq Package
    <3>1. CASE installed' = installed
      BY <1>1, <3>1 DEF TypeOK
    <3>2. CASE queue # <<>> /\ installed' = Effect(Head(queue))
      <4>1. Head(queue) \in Request
        BY <1>1, <3>2, HeadTailProperties
      <4>2. QED
        BY <1>1, <3>2, <4>1 DEF Effect, Request, TypeOK
    <3>3. QED
      BY <1>5, <3>1, <3>2 DEF Reset
  <2>2. /\ queue' = <<>> /\ connected' = FALSE /\ refreshOnReady' = TRUE
        /\ UNCHANGED <<shown, busy>> /\ resets' = resets + 1
    BY <1>5 DEF Reset
  <2>3. queue' \in Seq(Request) /\ resets' \in Nat
    BY <1>1, <2>2, EmptyFollowed DEF TypeOK
  <2>4. shown' \in [Package -> {"none", "plain", "bold"}] /\ busy' \in BOOLEAN
    BY <1>1, <2>2 DEF TypeOK
  <2>5. TypeOK'
    BY <2>1, <2>2, <2>3, <2>4 DEF TypeOK, Request
  <2>6. QED
    BY <1>2, <2>2, <2>5
<1>6. CASE Answer
  <2> DEFINE r == Head(queue)
             rest == Tail(queue)
  <2>1. r \in Request /\ rest \in Seq(Request) /\ (HasList(queue) /\ ~IsList(r) => HasList(rest))
    BY <1>1, <1>6, ListInTail DEF Answer
  <2>2. PICK out \in Outcomes(r) :
          /\ shown' = out.pane.shown
          /\ installed' = out.installed
          /\ IF rest = <<>>
             THEN Ready(<<>>, out.pane.busy)
             ELSE queue' = rest /\ busy' = out.pane.busy /\ UNCHANGED refreshOnReady
    BY <1>6 DEF Answer
  <2> HIDE DEF r, rest
  <2>3. /\ shown' \in [Package -> {"none", "plain", "bold"}]
        /\ out.pane.busy = (busy /\ ~IsList(r)) /\ out.pane.busy \in BOOLEAN
        /\ installed' \subseteq Package
    BY <1>1, <2>1, <2>2, OutcomeEndsBusy
  <2>4. out.pane.busy => refreshOnReady \/ HasList(rest)
    BY <1>1, <2>1, <2>3
  <2>5. /\ queue' \in Seq(Request) /\ busy' \in BOOLEAN /\ refreshOnReady' \in BOOLEAN
        /\ busy' => refreshOnReady' \/ HasList(queue')
    <3>1. CASE rest = <<>>
      <4>1. Ready(rest, out.pane.busy)
        BY <2>2, <3>1
      <4>2. QED
        BY <1>1, <2>1, <2>3, <2>4, <4>1, PendingReady
    <3>2. CASE rest # <<>>
      BY <1>1, <2>1, <2>2, <2>3, <2>4, <3>2
    <3>3. QED
      BY <3>1, <3>2
  <2>6. UNCHANGED <<connected, resets>>
    BY <1>6 DEF Answer
  <2>7. TypeOK'
    BY <1>1, <2>3, <2>5, <2>6 DEF TypeOK, Request
  <2>8. QED
    BY <1>2, <2>5, <2>7
<1>7. CASE Connect
  <2>1. connected' \in BOOLEAN /\ UNCHANGED <<shown, installed, resets>>
    BY <1>7 DEF Connect
  <2>2. CASE queue' = <<Req("dir", {})>> \o queue /\ UNCHANGED <<busy, refreshOnReady>>
    BY <2>1, <2>2, DirectoryFirst, PendingAdded
  <2>3. CASE UNCHANGED <<queue, busy, refreshOnReady>>
    BY <1>1, <1>2, <2>1, <2>3 DEF TypeOK
  <2>4. CASE Ready(queue, busy)
    <3>1. /\ queue' \in Seq(Request) /\ busy' \in BOOLEAN /\ refreshOnReady' \in BOOLEAN
          /\ busy' => ~refreshOnReady /\ busy /\ queue' = queue
      BY <1>1, <2>4, PendingReady
    <3>2. TypeOK'
      BY <1>1, <2>1, <3>1 DEF TypeOK, Request
    <3>3. QED
      BY <1>1, <1>2, <3>1, <3>2
  <2>5. QED
    BY <1>7, <2>2, <2>3, <2>4 DEF Connect
<1>8. CASE UNCHANGED vars
  BY <1>1, <1>2, <1>8 DEF vars, TypeOK
<1>9. QED
  BY <1>3, <1>4, <1>5, <1>6, <1>7, <1>8 DEF Next

LEMMA PendingAlways == Spec => []PendingInv
<1>1. Init => PendingInv
  BY QueueInit DEF PendingInv, Init
<1>2. QED
  BY <1>1, PendingNext, PTL DEF Spec

\* The rows, the flags and the requests of the pane have their types.
THEOREM PaneTypes == Spec => []TypeOK
<1>1. PendingInv => TypeOK
  BY DEF PendingInv
<1>2. QED
  BY <1>1, PendingAlways, PTL

\* While the pane ignores double-clicks a list that ends it is on its way, or asked for
\* when the console is next ready: whatever the console runs and whatever fails.
THEOREM BusyIsPending == Spec => []BusyMeansPending
<1>1. PendingInv => BusyMeansPending
  BY DEF PendingInv, BusyMeansPending, HasList
<1>2. QED
  BY <1>1, PendingAlways, PTL
-----------------------------------------------------------------------------
\* Contains, in terms of positions.
LEMMA ContainsIsHas ==
  ASSUME NEW q \in Seq(Request)
  PROVE  Contains(q, GetRequired) <=> HasRequired(q)
  BY LenProperties DEF Contains, HasRequired

\* What does r do to the rows, and to what is installed?
LEMMA OutcomesOf ==
  ASSUME TypeOK, "installed" \notin MayFail, NEW r \in Request, NEW out \in Outcomes(r)
  PROVE  /\ r.cmd = "installed" => out.pane.shown = InstalledRows(shown) /\ out.installed = installed
         /\ ~Changing(r) /\ r.cmd # "installed" /\ (r.cmd = "eval" => r.pkgs = {}) =>
              out.pane.shown = shown /\ out.installed = installed
<1>1. r.cmd \in Commands /\ r.pkgs \subseteq Package
  BY DEF Request
<1>2. /\ r.cmd \in {"installed", "available", "update", "dir"} => Effect(r) = installed
      /\ r.cmd = "eval" /\ r.pkgs = {} => Effect(r) = installed
  BY <1>1 DEF Effect, TypeOK, Commands
<1>3. \A kind \in Commands \union {"failed"} :
        /\ kind \notin {"available", "installed"} => EvaluatorOutput(kind).shown = shown
        /\ kind = "installed" => EvaluatorOutput(kind).shown = InstalledRows(shown)
  BY DEF EvaluatorOutput, Commands
<1>4. \/ out.pane = EvaluatorOutput(r.cmd) /\ out.installed = Effect(r)
      \/ /\ r.cmd \in MayFail /\ out.installed = installed
         /\ out.pane = EvaluatorOutput(IF IsList(r) THEN "failed" ELSE r.cmd)
  BY DEF Outcomes
<1>5. CASE out.pane = EvaluatorOutput(r.cmd) /\ out.installed = Effect(r)
  BY <1>1, <1>2, <1>3, <1>5 DEF Changing, Commands
<1>6. CASE /\ r.cmd \in MayFail /\ out.installed = installed
           /\ out.pane = EvaluatorOutput(IF IsList(r) THEN "failed" ELSE r.cmd)
  BY <1>1, <1>3, <1>6 DEF Changing, IsList, Commands
<1>7. QED
  BY <1>4, <1>5, <1>6

\* Requests put behind the queue, changes with the list of the installed behind them.
LEMMA FollowedBehind ==
  ASSUME NEW q \in Seq(Request), NEW more \in Seq(Request), Followed(q), Followed(more)
  PROVE  /\ q \o more \in Seq(Request)
         /\ Followed(q \o more)
         /\ HasRequired(q) \/ HasRequired(more) => HasRequired(q \o more)
<1>1. /\ q \o more \in Seq(Request)
      /\ Len(q \o more) = Len(q) + Len(more)
      /\ \A i \in 1..Len(q) + Len(more) :
           (q \o more)[i] = IF i <= Len(q) THEN q[i] ELSE more[i - Len(q)]
  BY ConcatProperties
<1>2. /\ DOMAIN q = 1..Len(q) /\ Len(q) \in Nat
      /\ DOMAIN more = 1..Len(more) /\ Len(more) \in Nat
      /\ DOMAIN (q \o more) = 1..Len(q) + Len(more)
  BY <1>1, LenProperties
<1>3. \A i \in DOMAIN q : i \in DOMAIN (q \o more) /\ (q \o more)[i] = q[i]
  BY <1>1, <1>2
<1>4. \A i \in DOMAIN more :
        Len(q) + i \in DOMAIN (q \o more) /\ (q \o more)[Len(q) + i] = more[i]
  BY <1>1, <1>2
<1>5. ASSUME NEW i \in DOMAIN (q \o more), i \notin DOMAIN q
      PROVE  i - Len(q) \in DOMAIN more /\ i = Len(q) + (i - Len(q))
  BY <1>2, <1>5
<1>6. ASSUME NEW i \in DOMAIN (q \o more), Changing((q \o more)[i])
      PROVE  \E j \in DOMAIN (q \o more) : j > i /\ (q \o more)[j] = GetRequired
  <2>1. CASE i \in DOMAIN q
    BY <1>3, <1>6, <2>1 DEF Followed
  <2>2. CASE i \notin DOMAIN q
    <3>1. PICK j \in DOMAIN more : j > i - Len(q) /\ more[j] = GetRequired
      BY <1>4, <1>5, <1>6, <2>2 DEF Followed
    <3>2. Len(q) + j > i
      BY <1>2, <1>5, <2>2, <3>1
    <3>3. QED
      BY <1>4, <3>1, <3>2
  <2>3. QED
    BY <2>1, <2>2
<1>7. ASSUME NEW i \in DOMAIN (q \o more), (q \o more)[i].cmd = "eval"
      PROVE  (q \o more)[i].pkgs = {}
  BY <1>3, <1>4, <1>5, <1>7 DEF Followed
<1>8. HasRequired(q) \/ HasRequired(more) => HasRequired(q \o more)
  BY <1>3, <1>4 DEF HasRequired
<1>9. QED
  BY <1>1, <1>6, <1>7, <1>8 DEF Followed

\* The first request taken away.
LEMMA FollowedTail ==
  ASSUME NEW q \in Seq(Request), q # <<>>, Followed(q)
  PROVE  /\ Head(q) \in Request /\ Tail(q) \in Seq(Request)
         /\ Head(q).cmd = "eval" => Head(q).pkgs = {}
         /\ Followed(Tail(q))
         /\ Changing(Head(q)) => HasRequired(Tail(q))
         /\ HasRequired(q) /\ Head(q) # GetRequired => HasRequired(Tail(q))
<1>1. /\ Head(q) \in Request /\ Tail(q) \in Seq(Request)
      /\ Len(Tail(q)) = Len(q) - 1
      /\ \A i \in 1..Len(Tail(q)) : Tail(q)[i] = q[i + 1]
      /\ Head(q) = q[1]
  BY HeadTailProperties
<1>2. /\ DOMAIN q = 1..Len(q) /\ Len(q) \in Nat /\ Len(q) > 0
      /\ DOMAIN Tail(q) = 1..Len(q) - 1
  BY <1>1, LenProperties, EmptySeq
<1>3. \A i \in DOMAIN q : i # 1 => i - 1 \in DOMAIN Tail(q) /\ Tail(q)[i - 1] = q[i] /\ i > 1
  BY <1>1, <1>2
<1>4. \A i \in DOMAIN Tail(q) : i + 1 \in DOMAIN q /\ Tail(q)[i] = q[i + 1] /\ i \in Nat
  BY <1>1, <1>2
<1>5. ASSUME NEW i \in DOMAIN Tail(q), Changing(Tail(q)[i])
      PROVE  \E j \in DOMAIN Tail(q) : j > i /\ Tail(q)[j] = GetRequired
  <2>1. PICK j \in DOMAIN q : j > i + 1 /\ q[j] = GetRequired
    BY <1>4, <1>5 DEF Followed
  <2>2. j # 1 /\ j - 1 > i
    BY <1>2, <1>4, <2>1
  <2>3. QED
    BY <1>3, <2>1, <2>2
<1>6. Followed(Tail(q))
  BY <1>4, <1>5 DEF Followed
<1>7. 1 \in DOMAIN q
  BY <1>2
<1>8. Changing(Head(q)) => HasRequired(Tail(q))
  BY <1>1, <1>3, <1>7 DEF Followed, HasRequired
<1>9. HasRequired(q) /\ Head(q) # GetRequired => HasRequired(Tail(q))
  BY <1>1, <1>3 DEF HasRequired
<1>10. QED
  BY <1>1, <1>6, <1>7, <1>8, <1>9 DEF Followed

-----------------------------------------------------------------------------
\* The invariant of the next state, in terms of positions.
LEMMA PaneInvNext ==
  ASSUME PendingInv', Followed(queue'),
         Bold' # installed' => refreshOnReady' \/ HasRequired(queue')
  PROVE  PaneInv'
<1>1. queue' \in Seq(Request)
  BY DEF PendingInv, TypeOK, Request
<1>2. Contains(queue', GetRequired) <=> HasRequired(queue')
  BY <1>1, ContainsIsHas
<1>3. StaleMeansRefresh'
  BY <1>2 DEF StaleMeansRefresh, GetRequired, Req
<1>4. Followed(queue)'
  BY DEF Followed, Changing, GetRequired, Req
<1>5. QED
  BY <1>3, <1>4 DEF PaneInv

\* The invariant of this state, in the same terms.
LEMMA PaneInvNow ==
  ASSUME PaneInv
  PROVE  /\ TypeOK /\ queue \in Seq(Request) /\ Followed(queue)
         /\ Bold # installed => refreshOnReady \/ HasRequired(queue)
<1>1. TypeOK /\ queue \in Seq(Request)
  BY DEF PaneInv, PendingInv, TypeOK, Request
<1>2. Contains(queue, GetRequired) <=> HasRequired(queue)
  BY <1>1, ContainsIsHas
<1>3. QED
  BY <1>1, <1>2 DEF PaneInv, StaleMeansRefresh

\* Requests joined to the queue, before or behind it, leave it good.
LEMMA QueueGrows ==
  ASSUME PaneInv, PendingInv', NEW more \in Seq(Request), Followed(more),
         queue' = queue \o more \/ queue' = more \o queue,
         UNCHANGED <<shown, installed, refreshOnReady>>
  PROVE  PaneInv'
<1>1. /\ queue \in Seq(Request) /\ Followed(queue)
      /\ Bold # installed => refreshOnReady \/ HasRequired(queue)
  BY PaneInvNow
<1>2. Followed(queue') /\ (HasRequired(queue) => HasRequired(queue'))
  <2>1. CASE queue' = queue \o more
    BY <1>1, <2>1, FollowedBehind
  <2>2. CASE queue' = more \o queue
    BY <1>1, <2>2, FollowedBehind
  <2>3. QED
    BY <2>1, <2>2
<1>3. Bold' = Bold
  BY DEF Bold
<1>4. QED
  BY <1>1, <1>2, <1>3, PaneInvNext

\* A list of the installed makes the bold packages the installed ones.
LEMMA RowsInstalled ==
  ASSUME installed \subseteq Package, shown' = InstalledRows(shown), installed' = installed
  PROVE  Bold' = installed'
<1>1. \A p \in Package : shown'[p] = "bold" <=> p \in installed
  BY DEF InstalledRows
<1>2. QED
  BY <1>1 DEF Bold

\* What ready() leaves in the queue and of the flag.
LEMMA AfterReady ==
  ASSUME NEW q \in Seq(Request), NEW b, Followed(q), Ready(q, b)
  PROVE  Followed(queue') /\ (refreshOnReady \/ HasRequired(q) => HasRequired(queue'))
<1>1. queue' = IF refreshOnReady THEN q \o Lists ELSE q
  BY DEF Ready
<1>2. Followed(Lists) /\ HasRequired(Lists)
  BY ListsFollowed
<1>3. Followed(q \o Lists) /\ HasRequired(q \o Lists)
  BY <1>2, ListsAreRequests, FollowedBehind
<1>4. CASE refreshOnReady
  BY <1>1, <1>3, <1>4
<1>5. CASE ~refreshOnReady
  BY <1>1, <1>5
<1>6. QED
  BY <1>4, <1>5

LEMMA AnswerKeeps ==
  ASSUME PaneInv, PendingInv', "installed" \notin MayFail, Answer
  PROVE  PaneInv'
<1>1. /\ TypeOK /\ queue \in Seq(Request) /\ Followed(queue)
      /\ Bold # installed => refreshOnReady \/ HasRequired(queue)
  BY PaneInvNow
<1> DEFINE r == Head(queue)
           rest == Tail(queue)
<1>2. /\ r \in Request /\ rest \in Seq(Request)
      /\ r.cmd = "eval" => r.pkgs = {}
      /\ Followed(rest)
      /\ Changing(r) => HasRequired(rest)
      /\ HasRequired(queue) /\ r # GetRequired => HasRequired(rest)
  BY <1>1, FollowedTail DEF Answer
<1>3. PICK out \in Outcomes(r) :
        /\ shown' = out.pane.shown
        /\ installed' = out.installed
        /\ IF rest = <<>>
           THEN Ready(<<>>, out.pane.busy)
           ELSE queue' = rest /\ busy' = out.pane.busy /\ UNCHANGED refreshOnReady
  BY DEF Answer
<1> HIDE DEF r, rest
<1>4. /\ r.cmd = "installed" => shown' = InstalledRows(shown) /\ installed' = installed
      /\ ~Changing(r) /\ r.cmd # "installed" => shown' = shown /\ installed' = installed
  BY <1>1, <1>2, <1>3, OutcomesOf
<1>5. Bold' # installed' => refreshOnReady \/ HasRequired(rest)
  <2>1. CASE Changing(r)
    BY <1>2, <2>1
  <2>2. CASE r.cmd = "installed"
    <3>1. Bold' = installed'
      BY <1>1, <1>4, <2>2, RowsInstalled DEF TypeOK
    <3>2. QED
      BY <3>1
  <2>3. CASE ~Changing(r) /\ r.cmd # "installed"
    <3>1. Bold' = Bold /\ installed' = installed
      BY <1>4, <2>3 DEF Bold
    <3>2. r # GetRequired
      BY <2>3 DEF GetRequired, Req
    <3>3. QED
      BY <1>1, <1>2, <3>1, <3>2
  <2>4. QED
    BY <2>1, <2>2, <2>3
<1>6. CASE rest = <<>>
  <2>1. Ready(rest, out.pane.busy)
    BY <1>3, <1>6
  <2>2. Followed(queue') /\ (refreshOnReady \/ HasRequired(rest) => HasRequired(queue'))
    BY <1>2, <2>1, AfterReady
  <2>3. QED
    BY <1>5, <2>2, PaneInvNext
<1>7. CASE rest # <<>>
  <2>1. queue' = rest /\ refreshOnReady' = refreshOnReady
    BY <1>3, <1>7
  <2>2. QED
    BY <1>2, <1>5, <2>1, PaneInvNext
<1>8. QED
  BY <1>6, <1>7

\* ready() while the queue is left alone: a connection with nothing to do, or a cleared
\* console.
LEMMA ReadyKeeps ==
  ASSUME PaneInv, PendingInv', Ready(queue, busy), UNCHANGED <<shown, installed>>
  PROVE  PaneInv'
<1>1. /\ queue \in Seq(Request) /\ Followed(queue)
      /\ Bold # installed => refreshOnReady \/ HasRequired(queue)
  BY PaneInvNow
<1>2. Followed(queue') /\ (refreshOnReady \/ HasRequired(queue) => HasRequired(queue'))
  BY <1>1, AfterReady
<1>3. Bold' = Bold
  BY DEF Bold
<1>4. QED
  BY <1>1, <1>2, <1>3, PaneInvNext

LEMMA PaneNext ==
  ASSUME ConsoleRuns \subseteq {"nothing"}, "installed" \notin MayFail,
         PaneInv, [Next]_vars
  PROVE  PaneInv'
<1>1. TypeOK /\ queue \in Seq(Request)
  BY PaneInvNow
<1>2. PendingInv'
  BY PendingNext DEF PaneInv
<1>3. ASSUME UNCHANGED <<queue, shown, installed, refreshOnReady>> PROVE PaneInv'
  <2>1. queue' = queue \o <<>>
    BY <1>1, <1>3, ConcatEmptySeq
  <2>2. QED
    BY <1>2, <1>3, <2>1, EmptyFollowed, QueueGrows
<1>4. CASE TogglePackage \/ UpdatePackages \/ ConsoleCommand
  <2>1. PICK more \in Seq(Request) : Requested(more)
    BY <1>1, <1>4, UserRequests
  <2>2. QED
    BY <1>2, <2>1, QueueGrows DEF Requested
<1>5. CASE ClearConsole
  BY <1>2, <1>5, ReadyKeeps DEF ClearConsole
<1>6. CASE Reset
  <2>1. queue' = <<>> /\ refreshOnReady' = TRUE
    BY <1>6 DEF Reset
  <2>2. QED
    BY <1>2, <2>1, EmptyFollowed, PaneInvNext
<1>7. CASE Answer
  BY <1>2, <1>7, AnswerKeeps
<1>8. CASE Connect
  <2>1. UNCHANGED <<shown, installed>>
    BY <1>8 DEF Connect
  <2>2. CASE queue' = <<Req("dir", {})>> \o queue /\ UNCHANGED <<busy, refreshOnReady>>
    BY <1>2, <2>1, <2>2, DirectoryFirst, QueueGrows
  <2>3. CASE UNCHANGED <<queue, busy, refreshOnReady>>
    BY <1>3, <2>1, <2>3
  <2>4. CASE Ready(queue, busy)
    BY <1>2, <2>1, <2>4, ReadyKeeps
  <2>5. QED
    BY <1>8, <2>2, <2>3, <2>4 DEF Connect
<1>9. CASE UNCHANGED vars
  BY <1>3, <1>9 DEF vars
<1>10. QED
  BY <1>4, <1>5, <1>6, <1>7, <1>8, <1>9 DEF Next

\* Where the console installs nothing and the list of the installed does not fail, the
\* packages shown as installed are the installed ones or the list that corrects them is
\* on its way, for any number of packages, requests and resets.
THEOREM StaleIsRefreshed ==
  ASSUME ConsoleRuns \subseteq {"nothing"}, "installed" \notin MayFail
  PROVE  Spec => []StaleMeansRefresh
<1>1. Init => PaneInv
  <2>1. Init => PendingInv
    BY QueueInit DEF PendingInv, Init
  <2>2. Init => StaleMeansRefresh
    BY QueueInit, ContainsIsHas DEF StaleMeansRefresh, TypeOK, Request
  <2>3. QED
    BY <2>1, <2>2, QueueInit DEF PaneInv
<1>2. PaneInv /\ [Next]_vars => PaneInv'
  BY PaneNext
<1>3. PaneInv => StaleMeansRefresh
  BY DEF PaneInv
<1>4. QED
  BY <1>1, <1>2, <1>3, PTL DEF Spec
=============================================================================
