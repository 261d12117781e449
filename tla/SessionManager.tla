--------------------------- MODULE SessionManager ----------------------------
(***************************************************************************)
(* The session, session.cpp: which projects are open, which of them is the  *)
(* active one, which has to be built before which, and the file all this is *)
(* saved to.  A session is loaded in steps, between which the event loop    *)
(* runs: its projects are opened, some of which fail, then the dependencies *)
(* and the active project are restored, and the user is asked about those   *)
(* that failed.                                                             *)
(* A project is known by its file name; a number stands for it, whose order *)
(* is that of the keys of a QMap.  The dependencies of a project are a set: *)
(* that they are listed in the order they were added in is left out, and    *)
(* dependencies() visits them in the order of their numbers.                *)
(***************************************************************************)
EXTENDS Naturals, FiniteSets, SequencesExt

CONSTANTS
  Project,     \* projects, positive numbers
  Breakable    \* those that may fail to open when the session is restored

ASSUME ProjectAssumption ==
  /\ Project \subseteq Nat \ {0}
  /\ IsFiniteSet(Project)
  /\ Breakable \subseteq Project

VARIABLES
  projects,         \* m_projects
  startup,          \* m_startupProject
  depMap,           \* m_depMap: the projects each project depends on
  failedProjects,   \* m_failedProjects
  file,             \* what was saved last
  opening,          \* what restoreProjects has still to open
  restoring,        \* the keys restoreDependencies has still to visit, the least one next
  phase,            \* where loadSession is: m_loadingSession is set but in "running"
  wanted            \* what the user has put in the session and not taken out of it

sessionVars == <<projects, startup, depMap, failedProjects, file, opening, restoring, phase, wanted>>

NoProject == 0
NoDependencies == [p \in Project |-> {}]
OpenProjects == ToSet(projects)
Running == phase = "running"

Without(list, S) == FlattenSeq([i \in DOMAIN list |-> IF list[i] \in S THEN <<>> ELSE <<list[i]>>])

-----------------------------------------------------------------------------
\* S holds all dependencies of its members.
Closed(deps, S) == \A p \in S : deps[p] \subseteq S

\* q is p or something p depends on, directly or not.
DependsOn(deps, p, q) == \A S \in SUBSET Project : p \in S /\ Closed(deps, S) => q \in S

\* Mutant of RecursiveDependencyCheck: the dependencies of dependencies are forgotten.
DirectDependencyCheck(newDep, checkDep) == newDep # checkDep /\ newDep \notin depMap[checkDep]

RecursiveDependencyCheck(newDep, checkDep) == ~DependsOn(depMap, checkDep, newDep)

\* The dependencies of a project, then the project: a project that is needed twice is
\* listed twice.  n is how deep a dependency can lie.
Dependencies(project) ==
  LET visit[n \in Nat] ==
        [p \in Project |->
           IF n = 0 THEN <<>>
           ELSE FlattenSeq([dep \in 1..Max(Project) |->
                              IF dep \in depMap[p] THEN visit[n - 1][dep] ELSE <<>>])
                \o <<p>>]
  IN  visit[Cardinality(Project)][project]

\* The projects in the order of the session: in each round those whose dependencies are
\* ordered, the last first.  The loop goes on until all are ordered; n rounds of it.
DependenciesOrder ==
  LET unready(before) == {p \in Project : p \in before \/ ~(depMap[p] \subseteq before)}
      ordered[n \in Nat] ==
        IF n = 0 THEN <<>>
        ELSE ordered[n - 1] \o Reverse(Without(projects, unready(ToSet(ordered[n - 1]))))
  IN  ordered[Len(projects)]

ProjectOrder(p) == Without(Dependencies(p), Project \ OpenProjects)

-----------------------------------------------------------------------------
Init ==
  /\ projects = <<>>
  /\ startup = NoProject
  /\ depMap = NoDependencies
  /\ failedProjects = <<>>
  /\ file = [list |-> <<>>, startup |-> NoProject, deps |-> NoDependencies]
  /\ opening = <<>>
  /\ restoring = {}
  /\ phase = "running"
  /\ wanted = {}

\* What only loading and saving change.
KeepFile == UNCHANGED <<failedProjects, file, opening, restoring, phase>>

\* The user opens a project, which becomes the active one; if it was one that failed, it
\* stays in failedProjects.
AddProject(p) ==
  /\ Running
  /\ p \notin OpenProjects
  /\ projects' = Append(projects, p)
  /\ startup' = p
  /\ wanted' = wanted \union {p}
  /\ UNCHANGED depMap
  /\ KeepFile

\* The user makes a project the active one.
SetStartupProject(p) ==
  /\ Running
  /\ p \in OpenProjects
  /\ startup' = p
  /\ UNCHANGED <<projects, depMap, wanted>>
  /\ KeepFile

\* The active project of an open list, the first one when there was none.
ActiveProject(p, list) == IF p = NoProject /\ list # <<>> THEN Head(list) ELSE p

\* Mutant of RemoveProjects: what depends on the removed projects goes on doing so.
RemoveProjectsKeepingKeys(S) ==
  /\ Running
  /\ projects' = Without(projects, S)
  /\ startup' = ActiveProject(IF startup \in S THEN NoProject ELSE startup, projects')
  /\ depMap' = [p \in Project |-> IF p \in OpenProjects \ S THEN depMap[p] ELSE {}]
  /\ wanted' = wanted \ S
  /\ KeepFile

\* removeProjects: one project is unloaded, or all are.
RemoveProjects(S) ==
  /\ Running
  /\ projects' = Without(projects, S)
  /\ startup' = ActiveProject(IF startup \in S THEN NoProject ELSE startup, projects')
  /\ depMap' = [p \in Project |->
                  IF p \in OpenProjects \ S THEN depMap[p] \intersect (OpenProjects \ S) ELSE {}]
  /\ wanted' = wanted \ S
  /\ KeepFile

AddDependency(p, dep) ==
  /\ Running
  /\ {p, dep} \subseteq OpenProjects
  /\ RecursiveDependencyCheck(p, dep)
  /\ depMap' = [depMap EXCEPT ![p] = @ \union {dep}]
  /\ UNCHANGED <<projects, startup, wanted>>
  /\ KeepFile

RemoveDependency(p, dep) ==
  /\ Running
  /\ p \in OpenProjects
  /\ dep \in depMap[p]
  /\ depMap' = [depMap EXCEPT ![p] = @ \ {dep}]
  /\ UNCHANGED <<projects, startup, wanted>>
  /\ KeepFile

-----------------------------------------------------------------------------
\* Mutant of Saved: the projects that failed to load are forgotten.
SavedWithoutFailed == [list |-> projects, startup |-> startup, deps |-> depMap]

\* What save writes: the open projects, and those that failed to load and are not open now.
Saved ==
  [list |-> projects \o Without(failedProjects, OpenProjects),
   startup |-> startup, deps |-> depMap]

\* The settings are saved, which leaves a session alone that is being loaded.
Save ==
  /\ Running
  /\ file' = Saved
  /\ UNCHANGED <<projects, startup, depMap, failedProjects, opening, restoring, phase, wanted>>

\* loadSession with session file f, up to where the first project is opened.
LoadSession(f) ==
  /\ projects' = <<>>
  /\ startup' = NoProject
  /\ depMap' = NoDependencies
  /\ failedProjects' = f.list
  /\ opening' = f.list
  /\ restoring' = {}
  /\ phase' = "opening"
  /\ file' = f

\* The IDE ends in whatever way without saving, and is started again.
Restart ==
  /\ LoadSession(file)
  /\ wanted' = ToSet(file.list)

\* The user goes to another session and comes back to this one, which saves it.
SwitchSession ==
  /\ Running
  /\ LoadSession(Saved)
  /\ UNCHANGED wanted

\* restoreProjects: one project is opened, or cannot be.
RestoreProject ==
  /\ phase = "opening"
  /\ opening # <<>>
  /\ opening' = Tail(opening)
  /\ \/ projects' = Append(projects, Head(opening))
     \/ Head(opening) \in Breakable /\ UNCHANGED projects
  /\ UNCHANGED <<startup, depMap, failedProjects, file, restoring, phase, wanted>>

\* The end of restoreProjects: what was opened did not fail.
RestoredProjects ==
  /\ phase = "opening"
  /\ opening = <<>>
  /\ failedProjects' = Without(failedProjects, OpenProjects)
  /\ phase' = "dependencies"
  /\ restoring' = {p \in Project : file.deps[p] # {}}
  /\ UNCHANGED <<projects, startup, depMap, file, opening, wanted>>

\* Mutant of RestoredDependencies: those on projects that failed become dependencies on no
\* project.
NullDependencies(key) ==
  {IF p \in ToSet(failedProjects) THEN NoProject ELSE p : p \in file.deps[key]}

\* Another: the test for what failed the wrong way round.
FailedDependencies(key) == file.deps[key] \intersect ToSet(failedProjects)

RestoredDependencies(key) == file.deps[key] \ ToSet(failedProjects)

\* A round of the loop of restoreDependencies.  At a project that failed the loop begins
\* anew without having advanced its iterator.
RestoreDependency ==
  /\ phase = "dependencies"
  /\ restoring # {}
  /\ LET key == Min(restoring)
     IN  IF key \in ToSet(failedProjects) THEN UNCHANGED <<depMap, restoring>>
         ELSE /\ depMap' = [depMap EXCEPT ![key] = RestoredDependencies(key)]
              /\ restoring' = restoring \ {key}
  /\ UNCHANGED <<projects, startup, failedProjects, file, opening, phase, wanted>>

\* Mutant of RestoreStartupProject: the saved one, though it may have failed.
RestoreStartupProjectAnyway ==
  /\ phase = "dependencies"
  /\ restoring = {}
  /\ startup' = ActiveProject(file.startup, projects)
  /\ phase' = "asking"
  /\ UNCHANGED <<projects, depMap, failedProjects, file, opening, restoring, wanted>>

RestoreStartupProject ==
  /\ phase = "dependencies"
  /\ restoring = {}
  /\ startup' = ActiveProject(IF file.startup \in OpenProjects THEN file.startup ELSE NoProject,
                              projects)
  /\ phase' = "asking"
  /\ UNCHANGED <<projects, depMap, failedProjects, file, opening, restoring, wanted>>

\* The end of loadSession: the user says whether to keep the projects that failed.
AskUserAboutFailedProjects ==
  /\ phase = "asking"
  /\ phase' = "running"
  /\ \/ UNCHANGED <<failedProjects, wanted>>
     \/ failedProjects' = <<>> /\ wanted' = wanted \ ToSet(failedProjects)
  /\ UNCHANGED <<projects, startup, depMap, file, opening, restoring>>

Load ==
  \/ RestoreProject \/ RestoredProjects \/ RestoreDependency
  \/ RestoreStartupProject \/ AskUserAboutFailedProjects

Next ==
  \/ \E p \in Project : AddProject(p) \/ SetStartupProject(p)
  \/ \E S \in {{p} : p \in OpenProjects} \union {OpenProjects} : S # {} /\ RemoveProjects(S)
  \/ \E p, dep \in Project : AddDependency(p, dep) \/ RemoveDependency(p, dep)
  \/ Save \/ Restart \/ SwitchSession
  \/ Load

Spec == Init /\ [][Next]_sessionVars

\* The GUI thread goes on loading.
FairSpec == Spec /\ WF_sessionVars(Load)

-----------------------------------------------------------------------------
TypeOK ==
  /\ projects \in Seq(Project)
  /\ startup \in Project \union {NoProject}
  /\ depMap \in [Project -> SUBSET Project]
  /\ failedProjects \in Seq(Project)
  /\ file \in [list : Seq(Project), startup : Project \union {NoProject},
               deps : [Project -> SUBSET Project]]
  /\ opening \in Seq(Project)
  /\ restoring \subseteq Project
  /\ phase \in {"opening", "dependencies", "asking", "running"}
  /\ wanted \subseteq Project

\* No project of deps depends on itself.
NoCycle(deps) == \A p \in Project : \A dep \in deps[p] : ~DependsOn(deps, dep, p)

\* No project has to be built before itself, whatever was added, removed, saved and
\* restored in part (recursiveDependencyCheck and the recursions of dependencies() and
\* recursiveDependencyCheck itself, which would not end otherwise).
Acyclic == NoCycle(depMap)

\* In list every project comes, once at least, behind all it depends on.
InOrder(list) ==
  \A i \in DOMAIN list : \A dep \in depMap[list[i]] : \E j \in 1..(i - 1) : list[j] = dep

\* The order of the session has every open project once, that of a project what the
\* project depends on and itself, at the end; both have dependencies first.
BuildOrderIsRight ==
  /\ InOrder(DependenciesOrder)
  /\ IsInjective(DependenciesOrder) /\ ToSet(DependenciesOrder) = OpenProjects
  /\ \A p \in OpenProjects :
       /\ InOrder(ProjectOrder(p))
       /\ Last(ProjectOrder(p)) = p
       /\ ToSet(ProjectOrder(p)) = {q \in Project : DependsOn(depMap, p, q)}

\* A session with open projects has an active one, and it is open, also when the one that
\* was saved has failed or the active one was unloaded (removeProjects,
\* restoreStartupProject): it is what build and run are about.
StartupIsOpen ==
  Running => IF projects = <<>> THEN startup = NoProject ELSE startup \in OpenProjects

\* What the user has put in the session stays in it, though it may fail to load any number
\* of times, until the user takes it out (m_failedProjects).
NothingIsLost == wanted \subseteq OpenProjects \union ToSet(failedProjects)

\* A session all of whose projects open is the one that was saved (restoreProjects,
\* restoreDependencies).
RestoredAsSaved ==
  [][~Running /\ phase' = "running" /\ failedProjects = <<>> =>
       /\ projects' = file.list /\ depMap' = file.deps
       /\ file.startup \in {startup', NoProject}]_sessionVars

\* A session that is being loaded is loaded in the end, unless the IDE is started again
\* and again: that some of its projects fail is no reason to keep the user waiting
\* (restoreProjects keeps them, restoreDependencies runs through the dependencies).
LoadEnds == <>[][~Restart]_sessionVars => (~Running ~> Running)
=============================================================================
