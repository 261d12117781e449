---------------------------- MODULE BuildManager -----------------------------
(***************************************************************************)
(* The build queue, buildmanager.cpp.  Steps are run one at a time, each by *)
(* a thread of its own; the watcher of the thread posts an event when it    *)
(* ends, and the handler of that event starts the next step.  In between    *)
(* steps can be added, or all be cancelled.                                 *)
(* A step is its project and whether it was enabled when it was queued      *)
(* (m_enabledState).  No step of the IDE asks to be run in the thread of    *)
(* the GUI.  A request a step of which refuses to be initialised changes    *)
(* nothing and is no action here.                                           *)
(***************************************************************************)
EXTENDS Integers, FiniteSets, Sequences

CONSTANT Project

VARIABLES
  queue,        \* m_buildQueue with m_enabledState
  current,      \* m_currentBuildStep
  running,      \* m_running
  canceling,    \* m_canceling
  active,       \* m_activeBuildSteps: the steps of each project that are queued or run
  progress,     \* m_progress: the steps done
  maxProgress,  \* m_maxProgress: the steps to do in all
  thread,       \* the step a thread is running
  posted,       \* what the event of the watcher, not handled yet, will say
  finished      \* what buildQueueFinished, sent in the last step, said

buildVars == <<queue, current, running, canceling, active, progress, maxProgress,
               thread, posted, finished>>

\* No signal is sent and nothing changes.
GoesOn ==
  /\ finished' = "none"
  /\ UNCHANGED <<queue, current, running, canceling, active, progress, maxProgress,
                 thread, posted>>

NoProject == 0
NoStep == [project |-> NoProject, enabled |-> FALSE]
BuildStep == [project : Project, enabled : BOOLEAN]

\* How many of the steps each project has.
CountOf(steps) == [p \in Project |-> Cardinality({i \in DOMAIN steps : steps[i].project = p})]

IsBuilding(p) == active[p] > 0

Init ==
  /\ queue = <<>>
  /\ current = NoStep
  /\ running = FALSE
  /\ canceling = FALSE
  /\ active = [p \in Project |-> 0]
  /\ progress = 0
  /\ maxProgress = 0
  /\ thread = NoStep
  /\ posted = "none"
  /\ finished = "none"

-----------------------------------------------------------------------------
\* The queue is worked off, or cleared.
Stopped(success) ==
  /\ queue' = <<>>
  /\ current' = NoStep
  /\ running' = FALSE
  /\ maxProgress' = 0
  /\ finished' = IF success THEN "success" ELSE "failure"

\* The list begins with this many disabled steps, and no more.
Disabled(steps, skipped) ==
  /\ \A i \in 1..skipped : ~steps[i].enabled
  /\ skipped < Len(steps) => steps[skipped + 1].enabled

\* Mutant of NextStep: a disabled step is skipped and nobody goes on.
NextStepStuck(steps, done, counts, max, event) ==
  /\ IF steps = <<>>
       THEN Stopped(TRUE) /\ thread' = NoStep /\ posted' = event
       ELSE /\ queue' = Tail(steps)
            /\ current' = Head(steps)
            /\ running' = TRUE
            /\ maxProgress' = max
            /\ thread' = IF Head(steps).enabled THEN Head(steps) ELSE NoStep
            /\ posted' = "none"
            /\ finished' = "none"
  /\ progress' = done
  /\ active' = counts

\* nextStep, with the nextBuildQueue it calls for disabled steps: the steps are those left,
\* done is how many are done, counts how many each project has left, max how many there are
\* in all, event what was posted.  Of a thread that is not watched any more no event comes.
NextStep(steps, done, counts, max, event) ==
  \E skipped \in 0..Len(steps) :
    /\ Disabled(steps, skipped)
    /\ IF skipped = Len(steps)
         THEN Stopped(TRUE) /\ thread' = NoStep /\ posted' = event
         ELSE /\ queue' = SubSeq(steps, skipped + 2, Len(steps))
              /\ current' = steps[skipped + 1]
              /\ running' = TRUE
              /\ maxProgress' = max
              /\ thread' = steps[skipped + 1]
              /\ posted' = "none"
              /\ finished' = "none"
    /\ progress' = done + skipped
    /\ active' = [p \in Project |-> counts[p] - CountOf(SubSeq(steps, 1, skipped))[p]]

\* decrementActiveBuildSteps of the current step.
WithoutCurrent == [active EXCEPT ![current.project] = @ - 1]

\* Mutant of ClearBuildQueue: the current step is counted out once more.
ClearBuildQueueTwice ==
  /\ active' = [p \in Project |-> WithoutCurrent[p] - CountOf(<<current>> \o queue)[p]]
  /\ Stopped(FALSE)

\* The current step is over and the others are thrown away.
ClearBuildQueue ==
  /\ active' = [p \in Project |-> WithoutCurrent[p] - CountOf(queue)[p]]
  /\ Stopped(FALSE)

-----------------------------------------------------------------------------
\* Mutant of BuildLists: the counter is not told of steps added to a running queue.
BuildListsUncounted(steps) ==
  IF running
    THEN /\ queue' = queue \o steps
         /\ maxProgress' = maxProgress + Len(steps)
         /\ finished' = "none"
         /\ UNCHANGED <<current, running, canceling, active, progress, thread, posted>>
    ELSE /\ canceling' = FALSE
         /\ NextStep(queue \o steps, 0, [p \in Project |-> active[p] + CountOf(steps)[p]],
                     maxProgress + Len(steps), posted)

\* buildLists: steps are added to the queue, and if nothing runs the first is started.
BuildLists(steps) ==
  LET counts == [p \in Project |-> active[p] + CountOf(steps)[p]]
      max    == maxProgress + Len(steps)
  IN  IF running
        THEN /\ queue' = queue \o steps
             /\ active' = counts
             /\ maxProgress' = max
             /\ finished' = "none"
             /\ UNCHANGED <<current, running, canceling, progress, thread, posted>>
        ELSE /\ canceling' = FALSE
             /\ NextStep(queue \o steps, 0, counts, max, posted)

\* The thread of the current step comes to its end.
StepEnds ==
  /\ thread # NoStep
  /\ thread' = NoStep
  /\ posted' \in {"success", "failure"}
  /\ finished' = "none"
  /\ UNCHANGED <<queue, current, running, canceling, active, progress, maxProgress>>

\* nextBuildQueue for the event of a step that was cancelled.
IgnoreEvent ==
  /\ posted # "none"
  /\ canceling
  /\ posted' = "none"
  /\ finished' = "none"
  /\ UNCHANGED <<queue, current, running, canceling, active, progress, maxProgress, thread>>

\* nextBuildQueue for the event of a step that did what it had to, or failed.
NextBuildQueue ==
  /\ posted # "none"
  /\ ~canceling
  /\ IF posted = "success"
       THEN NextStep(queue, progress + 1, WithoutCurrent, maxProgress, "none")
       ELSE /\ ClearBuildQueue
            /\ progress' = progress + 1
            /\ posted' = "none"
            /\ UNCHANGED thread
  /\ UNCHANGED canceling

\* Mutant of Cancel: the event of the cancelled step is not expected.
CancelUnmarked ==
  IF ~running
    THEN GoesOn
    ELSE /\ thread' = NoStep
         /\ posted' = IF thread = NoStep THEN posted ELSE "failure"
         /\ ClearBuildQueue
         /\ UNCHANGED <<progress, canceling>>

\* cancel: the thread is told to stop and waited for; its event is still to come.
Cancel ==
  IF ~running
    THEN GoesOn
    ELSE /\ canceling' = TRUE
         /\ thread' = NoStep
         /\ posted' = IF thread = NoStep THEN posted ELSE "failure"
         /\ ClearBuildQueue
         /\ UNCHANGED progress

\* A request has an enabled step.  One that has none is over before its signal
\* buildQueueFinished can be told from that of another, and the event of a step that was
\* cancelled just before would find no current step.
Request == {steps \in Seq(BuildStep) : \E i \in DOMAIN steps : steps[i].enabled}

Next ==
  \/ \E steps \in Request : BuildLists(steps)
  \/ StepEnds \/ IgnoreEvent \/ NextBuildQueue
  \/ Cancel \/ GoesOn

Spec == Init /\ [][Next]_buildVars

-----------------------------------------------------------------------------
TypeOK ==
  /\ queue \in Seq(BuildStep)
  /\ current \in BuildStep \union {NoStep}
  /\ running \in BOOLEAN /\ canceling \in BOOLEAN
  /\ active \in [Project -> Nat]
  /\ progress \in Nat /\ maxProgress \in Nat
  /\ thread \in BuildStep \union {NoStep}
  /\ posted \in {"none", "success", "failure"}
  /\ finished \in {"none", "success", "failure"}

\* The counter of each project, which says whether it is being built and whether removing
\* it must end the build, agrees with the queue (incrementActiveBuildSteps,
\* decrementActiveBuildSteps), and so does the progress that is shown.
CountsMatch ==
  /\ \A p \in Project :
       active[p] = CountOf(queue)[p] + IF current.project = p THEN 1 ELSE 0
  /\ IF running THEN current # NoStep /\ progress + 1 + Len(queue) = maxProgress
     ELSE current = NoStep /\ queue = <<>> /\ maxProgress = 0

\* A thread runs the current step or none, and an event that is not ignored is about the
\* current step: that of a cancelled one finds m_canceling set, whatever was started since
\* (nextBuildQueue, cancel, startBuildQueue).
ThreadIsCurrent ==
  /\ thread # NoStep => running /\ ~canceling /\ thread = current /\ posted = "none"
  /\ posted # "none" /\ ~canceling => current # NoStep
=============================================================================
