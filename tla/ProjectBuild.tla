---------------------------- MODULE ProjectBuild -----------------------------
(***************************************************************************)
(* The session and the build queue together, projectexplorer.cpp: the user  *)
(* asks for projects to be built, run, or taken out of the session at any   *)
(* time, and the queue works on behind that.  A run waits for the build of  *)
(* what it needs.  Saving and loading of the session are left out, they are *)
(* in SessionManager.                                                       *)
(***************************************************************************)
EXTENDS SessionManager

CONSTANTS
  StepCount,   \* how many steps of a kind a project has
  MaxDisabled, \* how many of them, the last ones, the user may have disabled
  MaxSteps     \* bound: the steps of one run of the queue, what is added to it included

Id == {"build", "clean", "deploy"}

ASSUME BuildAssumption ==
  /\ StepCount \in [Project -> [Id -> Nat]]
  /\ MaxDisabled \in Nat
  /\ MaxSteps \in Nat

VARIABLES
  queue, current, running, canceling, active, progress, maxProgress, thread, posted,
  finished,
  delayed,      \* m_delayedRunConfiguration: the project that is run after the build
  launched,     \* the project whose run has waited and was begun in the last step
  owing,        \* of the steps queued when delayed was set, those that are not done yet
  unloading     \* the project the user is asked about, unload it although it is built?

BM == INSTANCE BuildManager

vars == <<sessionVars, BM!buildVars, delayed, launched, owing, unloading>>

buildInit ==
  /\ BM!Init
  /\ delayed = NoProject
  /\ launched = NoProject
  /\ owing = 0
  /\ unloading = NoProject

isBuilding == queue # <<>> \/ running

-----------------------------------------------------------------------------
\* The steps of projects, in the lists that ids name; the last disabled ones of each list
\* are.  A project that is listed twice has its steps queued twice.
StepLists(order, ids, disabled) ==
  FlattenSeq([i \in DOMAIN ids |->
    FlattenSeq([j \in DOMAIN order |->
      [k \in 1..StepCount[order[j]][ids[i]] |->
         [project |-> order[j], enabled |-> k + disabled <= StepCount[order[j]][ids[i]]]]])])

\* How many steps are done in this step.
Done == IF running /\ finished' # "failure" THEN progress' - progress ELSE 0

\* Mutant of BuildQueueFinished: what waits to be run waits on when the build fails.
BuildQueueFinishedKeepingRun ==
  /\ launched' = IF finished' = "success" THEN delayed ELSE NoProject
  /\ delayed' = IF finished' = "success" THEN NoProject ELSE delayed
  /\ owing' = IF owing > Done THEN owing - Done ELSE 0

\* The slot buildQueueFinished, if the signal is sent: the run that waits is begun or, if
\* the build failed or was cancelled, given up.  The user may give it up as well, when the
\* steps have reported errors; the question is asked within the step.
BuildQueueFinished ==
  /\ launched' \in IF finished' = "success" THEN {delayed, NoProject} ELSE {NoProject}
  /\ delayed' = IF finished' = "none" THEN delayed ELSE NoProject
  /\ owing' = IF owing > Done THEN owing - Done ELSE 0

\* What has nothing to do with the build queue.
BuildGoesOn ==
  /\ BM!GoesOn
  /\ launched' = NoProject
  /\ UNCHANGED <<delayed, owing>>

\* The user can do something, no question is open.
User == unloading = NoProject

\* queue: the steps are handed to the build manager, if there are any.
Queue(order, ids) ==
  \E disabled \in 0..MaxDisabled :
    LET steps == StepLists(order, ids, disabled)
    IN  /\ steps # <<>>
        /\ maxProgress + Len(steps) <= MaxSteps
        /\ BM!BuildLists(steps)

Builds == {<<"build">>, <<"clean", "build">>, <<"clean">>, <<"build", "deploy">>}

\* Build, rebuild, clean or deploy the active project with what it depends on.
BuildProject ==
  /\ User
  /\ startup # NoProject
  /\ ~BM!IsBuilding(startup)
  /\ \E ids \in Builds : Queue(ProjectOrder(startup), ids)
  /\ BuildQueueFinished
  /\ UNCHANGED <<sessionVars, unloading>>

\* The same without what it depends on, and for any project from its context menu.
BuildProjectOnly(p) ==
  /\ User
  /\ p \in OpenProjects
  /\ ~BM!IsBuilding(p)
  /\ \E ids \in Builds : Queue(<<p>>, ids)
  /\ BuildQueueFinished
  /\ UNCHANGED <<sessionVars, unloading>>

\* The same for all projects of the session.
BuildSession ==
  /\ User
  /\ projects # <<>>
  /\ ~isBuilding
  /\ \E ids \in Builds : Queue(DependenciesOrder, ids)
  /\ BuildQueueFinished
  /\ UNCHANGED <<sessionVars, unloading>>

\* The steps that are still to be done, the current one included.
Outstanding == Len(queue) + IF current = BM!NoStep THEN 0 ELSE 1

\* runRunConfiguration, from the context menu of a project: it is run after what it needs
\* is built and deployed.  Nothing asks canRun, so this can be done during a build too.
RunProject(p) ==
  /\ User
  /\ p \in OpenProjects
  /\ Queue(ProjectOrder(p), <<"build", "deploy">>)
  /\ launched' \in IF finished' = "success" THEN {delayed, NoProject} ELSE {NoProject}
  /\ delayed' = p
  /\ owing' = Outstanding'
  /\ UNCHANGED <<sessionVars, unloading>>

Request ==
  \/ BuildProject
  \/ \E p \in Project : BuildProjectOnly(p) \/ RunProject(p)
  \/ BuildSession

CancelBuild ==
  /\ User
  /\ isBuilding
  /\ BM!Cancel
  /\ BuildQueueFinished
  /\ UNCHANGED <<sessionVars, unloading>>

-----------------------------------------------------------------------------
\* Mutant of AboutToRemove: removing a project does not end its build.
AboutToRemoveIgnored(S) == BuildGoesOn

\* aboutToRemoveProject for each of the projects: the build of one ends all.
AboutToRemove(S) ==
  IF \E p \in S : BM!IsBuilding(p)
    THEN BM!Cancel /\ BuildQueueFinished
    ELSE BuildGoesOn

\* unloadProject of a project that is not built, or closeAllProjects, which does not ask.
Unload(S) ==
  /\ User
  /\ S # {}
  /\ RemoveProjects(S)
  /\ AboutToRemove(S)
  /\ UNCHANGED unloading

\* unloadProject of a project that is built opens a question, an event loop in which the
\* build goes on.
AskUnload(p) ==
  /\ User
  /\ BM!IsBuilding(p)
  /\ unloading' = p
  /\ BuildGoesOn
  /\ UNCHANGED sessionVars

\* "Cancel Build && Unload"; the project stays if its file could not be saved.
AnswerUnload ==
  /\ unloading # NoProject
  /\ BM!Cancel
  /\ BuildQueueFinished
  /\ unloading' = NoProject
  /\ \/ RemoveProjects({unloading})
     \/ UNCHANGED sessionVars

\* "Do Not Unload".
DeclineUnload ==
  /\ unloading # NoProject
  /\ unloading' = NoProject
  /\ BuildGoesOn
  /\ UNCHANGED sessionVars

\* What else the user does with the session.
ChangeSession ==
  /\ User
  /\ \/ \E p \in Project : AddProject(p) \/ SetStartupProject(p)
     \/ \E p, dep \in Project : AddDependency(p, dep) \/ RemoveDependency(p, dep)
  /\ BuildGoesOn
  /\ UNCHANGED unloading

StepEnds ==
  /\ BM!StepEnds
  /\ BuildQueueFinished
  /\ UNCHANGED <<sessionVars, unloading>>

\* The watcher's event is handled.
OnFinished ==
  /\ BM!IgnoreEvent \/ BM!NextBuildQueue
  /\ BuildQueueFinished
  /\ UNCHANGED <<sessionVars, unloading>>

BuildNext ==
  \/ Request \/ CancelBuild
  \/ \E S \in {{p} : p \in {q \in OpenProjects : ~BM!IsBuilding(q)}} \union {OpenProjects} :
       Unload(S)
  \/ \E p \in OpenProjects : AskUnload(p)
  \/ AnswerUnload \/ DeclineUnload
  \/ ChangeSession
  \/ StepEnds \/ OnFinished

BuildSpec == Init /\ buildInit /\ [][BuildNext]_vars

\* The steps end, as the processes they run do, and the events of the watcher are handled.
FairBuildSpec == BuildSpec /\ WF_vars(StepEnds) /\ WF_vars(OnFinished)

-----------------------------------------------------------------------------
\* The type of what the build adds to the session (BuildManager, m_delayedRunConfiguration):
\* no counter of steps falls below zero.
BuildTypeOK ==
  /\ BM!TypeOK
  /\ {delayed, launched, unloading} \subseteq Project \union {NoProject}
  /\ owing \in Nat

\* The counter of each project and the progress agree with the queue.
CountsMatch == BM!CountsMatch

\* A thread runs the current step or none, and an event that is not ignored is about it.
ThreadIsCurrent == BM!ThreadIsCurrent

\* No step of a project that was taken out of the session is queued or run: the project
\* and its steps are deleted (aboutToRemoveProject, unloadProject).
StepsAreOpen ==
  \A s \in ToSet(queue) \union {current, thread} : s # BM!NoStep => s.project \in OpenProjects

\* A run that waited is begun when all that was queued before it and for it was done
\* without a failure, and at no other time (buildQueueFinished, runRunConfiguration).
RunAfterBuild == launched # NoProject => owing = 0

\* The run that waits is of a project that is open: removing a project is safe, the queue
\* being cancelled if it is built (aboutToRemoveProject).
RunIsOfOpenProject == delayed # NoProject => delayed \in OpenProjects

\* When nobody asks for more, the queue is worked off, whatever fails or is cancelled or
\* removed meanwhile (nextStep, clearBuildQueue).
BuildEnds == <>[][~Request]_vars => (isBuilding ~> ~isBuilding)
=============================================================================
