------------------------ MODULE SessionManager_proofs ------------------------
(***************************************************************************)
(* A session, for any finite set of projects and whatever is added,         *)
(* removed, saved, and restored in part: its dependencies never run in a    *)
(* circle; none of its projects is lost, one of them is the active one, and *)
(* a load in which nothing fails restores what was saved; the orders its    *)
(* projects are built in have dependencies first and leave out none.        *)
(***************************************************************************)
EXTENDS SessionManager, ListFacts, FiniteSetTheorems

DepMap == [Project -> SUBSET Project]

\* Fewer dependencies: the sets that held all of them still do.
LEMMA FewerStayAcyclic ==
  ASSUME NEW deps \in DepMap, NEW fewer \in DepMap,
         \A p \in Project : fewer[p] \subseteq deps[p],
         NoCycle(deps)
  PROVE  NoCycle(fewer)
<1>1. SUFFICES ASSUME NEW p \in Project, NEW dep \in fewer[p]
               PROVE  ~DependsOn(fewer, dep, p)
  BY DEF NoCycle
<1>2. dep \in deps[p]
  OBVIOUS
<1>3. PICK S \in SUBSET Project : dep \in S /\ Closed(deps, S) /\ p \notin S
  BY <1>2 DEF NoCycle, DependsOn
<1>4. Closed(fewer, S)
  BY <1>3 DEF Closed
<1>5. QED
  BY <1>3, <1>4 DEF DependsOn

\* What addDependency asks of a new dependency is enough: if the project is not among what
\* the new one depends on, the new edge closes no circle.
LEMMA AddedStaysAcyclic ==
  ASSUME NEW deps \in DepMap, NEW p \in Project, NEW dep \in Project,
         NoCycle(deps),
         ~DependsOn(deps, dep, p)
  PROVE  NoCycle([deps EXCEPT ![p] = @ \union {dep}])
<1> DEFINE more == [deps EXCEPT ![p] = @ \union {dep}]
<1>1. more \in DepMap /\ \A q \in Project : more[q] = IF q = p THEN deps[p] \union {dep} ELSE deps[q]
  BY DEF DepMap
<1> HIDE DEF more
<1>2. PICK S \in SUBSET Project : dep \in S /\ Closed(deps, S) /\ p \notin S
  BY DEF DependsOn
\* A set without p, or with dep in it, is closed if it was.
<1>3. ASSUME NEW T \in SUBSET Project, Closed(deps, T), p \notin T \/ dep \in T
      PROVE  Closed(more, T)
  BY <1>1, <1>3 DEF Closed
<1>4. SUFFICES ASSUME NEW a \in Project, NEW b \in more[a]
               PROVE  \E T \in SUBSET Project : b \in T /\ a \notin T /\ Closed(more, T)
  BY DEF NoCycle, DependsOn, more
<1>5. CASE a = p /\ b = dep
  BY <1>2, <1>3, <1>5
<1>6. CASE ~(a = p /\ b = dep)
  <2>1. b \in deps[a]
    BY <1>1, <1>6
  <2>2. PICK T \in SUBSET Project : b \in T /\ Closed(deps, T) /\ a \notin T
    BY <2>1 DEF NoCycle, DependsOn
  <2>3. CASE a \in S
    <3>1. b \in S \intersect T /\ a \notin S \intersect T /\ p \notin S \intersect T
      BY <1>2, <2>1, <2>2, <2>3 DEF Closed
    <3>2. Closed(deps, S \intersect T)
      BY <1>2, <2>2 DEF Closed
    <3>3. Closed(more, S \intersect T)
      BY <1>3, <3>1, <3>2
    <3>4. QED
      BY <3>1, <3>3
  <2>4. CASE a \notin S
    <3>1. b \in S \union T /\ a \notin S \union T /\ dep \in S \union T
      BY <1>2, <2>2, <2>4
    <3>2. Closed(deps, S \union T)
      BY <1>2, <2>2 DEF Closed
    <3>3. Closed(more, S \union T)
      BY <1>3, <3>1, <3>2
    <3>4. QED
      BY <3>1, <3>3
  <2>5. QED
    BY <2>3, <2>4
<1>7. QED
  BY <1>5, <1>6

-----------------------------------------------------------------------------
\* What is saved is as free of circles as what is in memory, and while a session is loaded
\* memory holds a part of what was saved.
RestoredInPart == ~Running => \A p \in Project : depMap[p] \subseteq file.deps[p]

AcyclicInv ==
  /\ depMap \in DepMap
  /\ file.deps \in DepMap
  /\ NoCycle(depMap)
  /\ NoCycle(file.deps)
  /\ RestoredInPart

LEMMA NoDependenciesAcyclic == NoDependencies \in DepMap /\ NoCycle(NoDependencies)
  BY DEF NoDependencies, DepMap, NoCycle

LEMMA AcyclicInit == Init => AcyclicInv
  BY NoDependenciesAcyclic DEF Init, AcyclicInv, RestoredInPart, Running

\* What every step of loading begins with: a session file without circles.
LEMMA LoadSessionAcyclic ==
  ASSUME NEW f, f.deps \in DepMap, NoCycle(f.deps), LoadSession(f)
  PROVE  AcyclicInv'
<1>1. depMap' = NoDependencies /\ file' = f
  BY DEF LoadSession
<1>2. \A p \in Project : NoDependencies[p] = {}
  BY DEF NoDependencies
<1>3. QED
  BY <1>1, <1>2, NoDependenciesAcyclic DEF AcyclicInv, RestoredInPart, NoCycle, DependsOn, Closed

LEMMA AcyclicNext == AcyclicInv /\ [Next]_sessionVars => AcyclicInv'
<1> SUFFICES ASSUME AcyclicInv, [Next]_sessionVars PROVE AcyclicInv'
  OBVIOUS
<1> USE DEF AcyclicInv
\* Steps that leave what matters as it is, or end the loading.
<1>1. ASSUME UNCHANGED <<depMap, file>>, Running' \/ (Running' = Running) PROVE AcyclicInv'
  BY <1>1 DEF RestoredInPart, NoCycle, DependsOn, Closed
\* Steps of a running session that change the dependencies.
<1>2. ASSUME Running, phase' = phase, file' = file, depMap' \in DepMap, NoCycle(depMap)'
      PROVE  AcyclicInv'
  BY <1>2 DEF RestoredInPart, Running, NoCycle, DependsOn, Closed
<1>3. ASSUME NEW p \in Project, AddProject(p) \/ SetStartupProject(p) PROVE AcyclicInv'
  BY <1>1, <1>3 DEF AddProject, SetStartupProject, KeepFile, Running
<1>4. ASSUME NEW S, RemoveProjects(S) PROVE AcyclicInv'
  <2>1. depMap' \in DepMap /\ \A p \in Project : depMap'[p] \subseteq depMap[p]
    BY <1>4 DEF RemoveProjects, DepMap
  <2>2. NoCycle(depMap')
    BY <2>1, FewerStayAcyclic
  <2>3. QED
    BY <1>2, <1>4, <2>1, <2>2 DEF RemoveProjects, KeepFile, NoCycle, DependsOn, Closed
<1>5. ASSUME NEW p \in Project, NEW dep \in Project, AddDependency(p, dep) PROVE AcyclicInv'
  <2>1. ~DependsOn(depMap, dep, p)
    BY <1>5 DEF AddDependency, RecursiveDependencyCheck
  <2>2. depMap' = [depMap EXCEPT ![p] = @ \union {dep}]
    BY <1>5 DEF AddDependency
  <2>3. NoCycle(depMap')
    BY <2>1, <2>2, AddedStaysAcyclic
  <2>4. depMap' \in DepMap
    BY <2>2 DEF DepMap
  <2>5. QED
    BY <1>2, <1>5, <2>3, <2>4 DEF AddDependency, KeepFile, NoCycle, DependsOn, Closed
<1>6. ASSUME NEW p \in Project, NEW dep \in Project, RemoveDependency(p, dep) PROVE AcyclicInv'
  <2>1. depMap' = [depMap EXCEPT ![p] = @ \ {dep}]
    BY <1>6 DEF RemoveDependency
  <2>2. depMap' \in DepMap /\ \A q \in Project : depMap'[q] \subseteq depMap[q]
    BY <2>1 DEF DepMap
  <2>3. NoCycle(depMap')
    BY <2>2, FewerStayAcyclic
  <2>4. QED
    BY <1>2, <1>6, <2>2, <2>3 DEF RemoveDependency, KeepFile, NoCycle, DependsOn, Closed
<1>7. Saved.deps = depMap
  BY DEF Saved
<1>8. CASE Save
  BY <1>7, <1>8 DEF Save, RestoredInPart, Running, NoCycle, DependsOn, Closed
<1>9. CASE Restart
  BY <1>9, LoadSessionAcyclic DEF Restart
<1>10. CASE SwitchSession
  BY <1>7, <1>10, LoadSessionAcyclic DEF SwitchSession
<1>11. CASE RestoreProject
  BY <1>1, <1>11 DEF RestoreProject, Running
<1>12. CASE RestoredProjects
  BY <1>1, <1>12 DEF RestoredProjects, Running
<1>13. CASE RestoreDependency
  <2> DEFINE key == Min(restoring)
  <2>1. phase = "dependencies" /\ phase' = phase /\ file' = file
    BY <1>13 DEF RestoreDependency
  <2>2. depMap' = depMap \/ depMap' = [depMap EXCEPT ![key] = RestoredDependencies(key)]
    BY <1>13 DEF RestoreDependency
  <2>3. ~Running /\ ~Running'
    BY <2>1 DEF Running
  <2>4. depMap' \in DepMap /\ \A p \in Project : depMap'[p] \subseteq file.deps[p]
    <3>1. \A p \in Project : depMap[p] \subseteq file.deps[p]
      BY <2>3 DEF RestoredInPart
    <3>2. CASE key \in Project
      BY <2>2, <3>1, <3>2 DEF DepMap, RestoredDependencies
    <3>3. CASE key \notin Project
      BY <2>2, <3>1, <3>3 DEF DepMap
    <3>4. QED
      BY <3>2, <3>3
  <2>5. NoCycle(depMap')
    BY <2>4, FewerStayAcyclic
  <2>6. QED
    BY <2>1, <2>4, <2>5 DEF RestoredInPart, NoCycle, DependsOn, Closed
<1>14. CASE RestoreStartupProject
  BY <1>1, <1>14 DEF RestoreStartupProject, Running
<1>15. CASE AskUserAboutFailedProjects
  BY <1>1, <1>15 DEF AskUserAboutFailedProjects, Running
<1>16. CASE UNCHANGED sessionVars
  BY <1>1, <1>16 DEF sessionVars, Running
<1>17. QED
  BY <1>3, <1>4, <1>5, <1>6, <1>8, <1>9, <1>10, <1>11, <1>12, <1>13, <1>14, <1>15, <1>16
  DEF Next, Load

\* No project ever has to be built before itself: recursiveDependencyCheck keeps every
\* circle out, and removing, saving and restoring a part make none.
THEOREM SessionAcyclic == Spec => []Acyclic
<1>1. AcyclicInv => Acyclic
  BY DEF AcyclicInv, Acyclic
<1>2. QED
  BY AcyclicInit, AcyclicNext, <1>1, PTL DEF Spec

-----------------------------------------------------------------------------
\* The first n projects of two lists are the same.
BeginsLike(list, other, n) == \A i \in 1..n : list[i] = other[i]

\* While the projects of the file are opened: k have been tried, all of which are open or
\* one of which is not.
OpenedUpto(k) ==
  /\ Len(opening) = Len(file.list) - k
  /\ \A i \in 1..Len(opening) : opening[i] = file.list[k + i]
  /\ \A p \in OpenProjects : \E i \in 1..k : p = file.list[i]
  /\ \/ Len(projects) = k /\ BeginsLike(projects, file.list, k)
     \/ \E i \in 1..k : file.list[i] \notin OpenProjects

ActiveIsOpen == IF projects = <<>> THEN startup = NoProject ELSE startup \in OpenProjects

NoneTwice == IsInjective(projects) /\ IsInjective(failedProjects) /\ IsInjective(file.list)

\* What each phase of loading has restored.
Opening ==
  /\ failedProjects = file.list
  /\ depMap = NoDependencies
  /\ \E k \in 0..Len(file.list) : OpenedUpto(k)

Depending ==
  /\ failedProjects = <<>> => projects = file.list
  /\ \A p \in restoring : depMap[p] = {}
  /\ \A p \in Project \ restoring : depMap[p] = file.deps[p] \ ToSet(failedProjects)

Restored ==
  failedProjects = <<>> =>
    projects = file.list /\ depMap = file.deps /\ file.startup \in {startup, NoProject}

SessionInv ==
  /\ TypeOK
  /\ NoneTwice
  /\ file.startup \in ToSet(file.list) \union {NoProject}
  /\ NothingIsLost
  /\ phase \in {"asking", "running"} => ActiveIsOpen
  /\ phase = "opening" => Opening
  /\ phase = "dependencies" => Depending
  /\ phase = "asking" => Restored

-----------------------------------------------------------------------------
\* What is left of a list without the members of S.
LEMMA WithoutFacts ==
  ASSUME NEW list \in Seq(Project), NEW S
  PROVE  /\ Without(list, S) \in Seq(Project)
         /\ \A p : p \in ToSet(Without(list, S)) <=> p \in ToSet(list) /\ p \notin S
         /\ IsInjective(list) => IsInjective(Without(list, S))
<1> DEFINE n == Len(list)
           lists == [i \in 1..n |-> IF list[i] \in S THEN <<>> ELSE <<list[i]>>]
<1>1. n \in Nat /\ DOMAIN list = 1..n /\ \A i \in 1..n : list[i] \in Project
  BY LenProperties, ElementOfSeq
<1>2. Without(list, S) = FlattenSeq(lists)
  BY <1>1 DEF Without
<1> HIDE DEF n
<1>3. \A i \in 1..n : lists[i] \in Seq(Project)
  <2>1. ASSUME NEW i \in 1..n
        PROVE  lists[i] \in Seq(Project)
    <3>1. <<>> \in Seq(Project) /\ <<list[i]>> \in Seq(Project)
      BY <1>1
    <3>2. QED
      BY <3>1
  <2>2. QED
    BY <2>1
<1>4. lists \in Seq(Seq(Project)) /\ Len(lists) = n
  BY <1>1, <1>3
<1>5. \A i \in 1..n : ToSet(lists[i]) = IF list[i] \in S THEN {} ELSE {list[i]}
  BY ToSetShort
<1>6. \A i \in 1..n : IsInjective(lists[i])
  BY ToSetShort
<1> HIDE DEF lists
<1>7. FlattenSeq(lists) \in Seq(Project)
  BY <1>4, FlattenType
<1>8. \A p : p \in ToSet(FlattenSeq(lists)) <=> \E i \in 1..n : p \in ToSet(lists[i])
  BY <1>4, FlattenToSet
<1>9. \A p : p \in ToSet(list) <=> \E i \in 1..n : p = list[i]
  BY ToSetOf DEF n
<1>10. ASSUME IsInjective(list)
       PROVE  IsInjective(FlattenSeq(lists))
  <2>1. \A i, j \in 1..n : list[i] = list[j] => i = j
    BY <1>10, InjectiveList DEF n
  <2>2. ASSUME NEW i \in 1..n, NEW j \in 1..n, i # j
        PROVE  ToSet(lists[i]) \intersect ToSet(lists[j]) = {}
    <3>1. list[i] # list[j]
      BY <2>1, <2>2
    <3>2. ToSet(lists[i]) \subseteq {list[i]} /\ ToSet(lists[j]) \subseteq {list[j]}
      BY <1>5
    <3>3. QED
      BY <3>1, <3>2
  <2>3. QED
    BY <1>4, <1>6, <2>2, FlattenInjective
<1>11. ASSUME NEW p
       PROVE  p \in ToSet(FlattenSeq(lists)) <=> p \in ToSet(list) /\ p \notin S
  <2>1. p \in ToSet(FlattenSeq(lists)) <=> \E i \in 1..n : p \in ToSet(lists[i])
    BY <1>8
  <2>2. p \in ToSet(list) <=> \E i \in 1..n : p = list[i]
    BY <1>9
  <2>3. \A i \in 1..n : p \in ToSet(lists[i]) <=> p = list[i] /\ p \notin S
    BY <1>5
  <2>4. QED
    BY <2>1, <2>2, <2>3
<1>12. QED
  BY <1>2, <1>7, <1>10, <1>11

-----------------------------------------------------------------------------
FileType == [list : Seq(Project), startup : Project \union {NoProject}, deps : DepMap]

LEMMA TypeInit == Init => TypeOK
  BY ProjectAssumption DEF Init, TypeOK, NoDependencies

LEMMA SavedType == TypeOK => Saved \in FileType
<1> SUFFICES ASSUME TypeOK PROVE Saved \in FileType
  OBVIOUS
<1>1. projects \o Without(failedProjects, OpenProjects) \in Seq(Project)
  BY WithoutFacts, ConcatProperties DEF TypeOK
<1>2. QED
  BY <1>1 DEF Saved, FileType, TypeOK, DepMap

LEMMA LoadSessionType ==
  ASSUME NEW f \in FileType, LoadSession(f), wanted' \subseteq Project
  PROVE  TypeOK'
<1>1. f.list \in Seq(Project) /\ <<>> \in Seq(Project)
  BY DEF FileType
<1>2. NoDependencies \in [Project -> SUBSET Project]
  BY DEF NoDependencies
<1>3. QED
  BY <1>1, <1>2 DEF LoadSession, TypeOK, FileType, DepMap

\* The active project of a list that is open, when there is one.
LEMMA ActiveType ==
  ASSUME NEW list \in Seq(Project), NEW p \in Project \union {NoProject}
  PROVE  ActiveProject(p, list) \in Project \union {NoProject}
  BY HeadTailProperties DEF ActiveProject

LEMMA TypeNext == TypeOK /\ [Next]_sessionVars => TypeOK'
<1> SUFFICES ASSUME TypeOK, [Next]_sessionVars PROVE TypeOK'
  OBVIOUS
<1>0. TypeOK
  OBVIOUS
<1>1. ASSUME NEW p \in Project, AddProject(p) PROVE TypeOK'
  BY <1>1, AppendProperties DEF TypeOK, AddProject, KeepFile
<1>2. ASSUME NEW p \in Project, SetStartupProject(p) PROVE TypeOK'
  BY <1>2 DEF TypeOK, SetStartupProject, KeepFile
<1>3. ASSUME NEW S \in SUBSET Project, RemoveProjects(S) PROVE TypeOK'
  <2>1. projects' \in Seq(Project)
    BY <1>3, WithoutFacts DEF TypeOK, RemoveProjects
  <2>2. startup' \in Project \union {NoProject}
    BY <1>3, <2>1, ActiveType DEF TypeOK, RemoveProjects
  <2>3. depMap' \in [Project -> SUBSET Project]
    BY <1>3 DEF TypeOK, RemoveProjects
  <2>4. QED
    BY <1>3, <2>1, <2>2, <2>3 DEF TypeOK, RemoveProjects, KeepFile
<1>4. ASSUME NEW p \in Project, NEW dep \in Project, AddDependency(p, dep) PROVE TypeOK'
  BY <1>4 DEF TypeOK, AddDependency, KeepFile
<1>5. ASSUME NEW p \in Project, NEW dep \in Project, RemoveDependency(p, dep) PROVE TypeOK'
  BY <1>5 DEF TypeOK, RemoveDependency, KeepFile
<1>6. CASE Save
  <2>1. file' \in FileType
    BY <1>6, SavedType DEF Save
  <2>2. QED
    BY <1>6, <2>1 DEF TypeOK, Save, FileType, DepMap
<1>7. CASE Restart
  <2>1. file \in FileType /\ LoadSession(file)
    BY <1>7 DEF Restart, TypeOK, FileType, DepMap
  <2>2. wanted' \subseteq Project
    BY <1>7, <2>1, ToSetOf DEF Restart, FileType
  <2>3. QED
    BY <2>1, <2>2, LoadSessionType
<1>8. CASE SwitchSession
  <2>1. Saved \in FileType /\ LoadSession(Saved) /\ wanted' \subseteq Project
    BY <1>8, SavedType DEF SwitchSession, TypeOK
  <2>2. QED
    BY <2>1, LoadSessionType
<1>9. CASE RestoreProject
  <2>1. Head(opening) \in Project /\ Tail(opening) \in Seq(Project)
    BY <1>9, HeadTailProperties DEF RestoreProject, TypeOK
  <2>2. projects' \in Seq(Project)
    <3>1. projects' = projects \/ projects' = Append(projects, Head(opening))
      BY <1>9 DEF RestoreProject
    <3>2. projects \in Seq(Project)
      BY DEF TypeOK
    <3>3. QED
      BY <2>1, <3>1, <3>2, AppendProperties
  <2>3. QED
    BY <1>9, <2>1, <2>2 DEF RestoreProject, TypeOK
<1>10. CASE RestoredProjects
  <2>1. failedProjects' \in Seq(Project)
    BY <1>10, WithoutFacts DEF RestoredProjects, TypeOK
  <2>2. restoring' \subseteq Project
    BY <1>10 DEF RestoredProjects
  <2>3. QED
    BY <1>10, <2>1, <2>2 DEF RestoredProjects, TypeOK
<1>11. CASE RestoreDependency
  <2>1. \A key : RestoredDependencies(key) \subseteq file.deps[key]
    BY DEF RestoredDependencies
  <2>2. restoring' \subseteq Project
    BY <1>11 DEF RestoreDependency, TypeOK
  <2>3. PICK key : depMap' = depMap \/ depMap' = [depMap EXCEPT ![key] = RestoredDependencies(key)]
    BY <1>11 DEF RestoreDependency
  <2>4. depMap \in [Project -> SUBSET Project] /\ file.deps \in [Project -> SUBSET Project]
    BY DEF TypeOK
  <2>5. depMap' \in [Project -> SUBSET Project]
    BY <2>1, <2>3, <2>4
  <2>6. QED
    BY <1>11, <2>2, <2>5 DEF RestoreDependency, TypeOK
<1>12. CASE RestoreStartupProject
  <2>1. startup' \in Project \union {NoProject}
    BY <1>12, ActiveType DEF RestoreStartupProject, TypeOK
  <2>2. QED
    BY <1>12, <2>1 DEF RestoreStartupProject, TypeOK
<1>13. CASE AskUserAboutFailedProjects
  <2>1. failedProjects' \in Seq(Project) /\ wanted' \subseteq Project
    BY <1>13, EmptySeq DEF AskUserAboutFailedProjects, TypeOK
  <2>2. QED
    BY <1>13, <2>1 DEF AskUserAboutFailedProjects, TypeOK
<1>14. CASE UNCHANGED sessionVars
  BY <1>14 DEF sessionVars, TypeOK
<1>15. \A S \in {{p} : p \in OpenProjects} \union {OpenProjects} : S \in SUBSET Project
  BY ToSetOf DEF OpenProjects, TypeOK
<1>16. QED
  BY <1>1, <1>2, <1>3, <1>4, <1>5, <1>6, <1>7, <1>8, <1>9, <1>10, <1>11, <1>12, <1>13, <1>14, <1>15
  DEF Next, Load

\* The state of the session is what its types say, throughout loading and failing to load.
THEOREM SessionTypes == Spec => []TypeOK
  BY TypeInit, TypeNext, PTL DEF Spec

-----------------------------------------------------------------------------
LEMMA SessionInit == Init => SessionInv
  BY TypeInit, ToSetShort
  DEF Init, SessionInv, NoneTwice, NothingIsLost, OpenProjects, ActiveIsOpen

\* A session begins to be loaded with nothing open and nothing tried.
LEMMA LoadSessionKeeps ==
  ASSUME NEW f \in FileType, LoadSession(f), TypeOK',
         IsInjective(f.list), f.startup \in ToSet(f.list) \union {NoProject},
         wanted' \subseteq ToSet(f.list)
  PROVE  SessionInv'
<1>1. /\ projects' = <<>> /\ depMap' = NoDependencies /\ failedProjects' = f.list
      /\ opening' = f.list /\ phase' = "opening" /\ file' = f
  BY DEF LoadSession
<1>2. NoneTwice'
  BY <1>1, ToSetShort DEF NoneTwice
<1>3. NothingIsLost'
  BY <1>1 DEF NothingIsLost
<1>4. Len(f.list) \in Nat
  BY LenProperties DEF FileType
<1>5. OpenedUpto(0)'
  BY <1>1, <1>4, ToSetShort DEF OpenedUpto, OpenProjects, BeginsLike
<1>6. Opening'
  BY <1>1, <1>4, <1>5 DEF Opening
<1>7. QED
  BY <1>1, <1>2, <1>3, <1>6 DEF SessionInv

\* What the user does with a session in memory.
LEMMA EditKeeps ==
  ASSUME SessionInv, TypeOK', Running, KeepFile,
         IsInjective(projects'), NothingIsLost', ActiveIsOpen'
  PROVE  SessionInv'
  BY DEF SessionInv, NoneTwice, KeepFile, Running

LEMMA AddProjectKeeps ==
  ASSUME SessionInv, TypeOK', NEW p \in Project, AddProject(p)
  PROVE  SessionInv'
<1>1. projects \in Seq(Project) /\ projects' = Append(projects, p) /\ p \notin ToSet(projects)
  BY DEF SessionInv, TypeOK, AddProject, OpenProjects
<1>2. IsInjective(projects)
  BY DEF SessionInv, NoneTwice
<1>3. ToSet(projects') = ToSet(projects) \union {p}
  BY <1>1, AppendFacts
<1>4. IsInjective(projects')
  BY <1>1, <1>2, AppendFacts
<1>5. NothingIsLost'
  BY <1>3 DEF SessionInv, NothingIsLost, OpenProjects, AddProject, KeepFile
<1>6. projects' # <<>>
  BY <1>1
<1>7. ActiveIsOpen'
  BY <1>3, <1>6 DEF ActiveIsOpen, OpenProjects, AddProject
<1>8. QED
  BY <1>4, <1>5, <1>7, EditKeeps DEF AddProject

LEMMA RemoveProjectsKeeps ==
  ASSUME SessionInv, TypeOK', NEW S \in SUBSET Project, RemoveProjects(S)
  PROVE  SessionInv'
<1>1. projects \in Seq(Project) /\ projects' \in Seq(Project) /\ projects' = Without(projects, S)
  BY DEF SessionInv, TypeOK, RemoveProjects
<1>2. \A p : p \in ToSet(projects') <=> p \in ToSet(projects) /\ p \notin S
  BY <1>1, WithoutFacts
<1>3. IsInjective(projects')
  BY <1>1, WithoutFacts DEF SessionInv, NoneTwice
<1>4. NothingIsLost'
  BY <1>2 DEF SessionInv, NothingIsLost, OpenProjects, RemoveProjects, KeepFile
<1>5. ActiveIsOpen'
  <2>1. startup' = ActiveProject(IF startup \in S THEN NoProject ELSE startup, projects')
    BY DEF RemoveProjects
  <2>2. ActiveIsOpen
    BY DEF SessionInv, RemoveProjects, Running
  <2>3. projects' # <<>> => Head(projects') \in ToSet(projects')
    BY <1>1, ToSetOf
  <2>4. CASE projects' = <<>>
    <3>1. ToSet(projects') = {}
      BY <2>4, ToSetShort
    <3>2. startup \in S \/ startup = NoProject
      BY <1>2, <2>2, <3>1 DEF ActiveIsOpen, OpenProjects
    <3>3. QED
      BY <2>1, <2>4, <3>2 DEF ActiveIsOpen, ActiveProject
  <2>5. CASE projects' # <<>>
    <3>1. projects # <<>>
      BY <1>2, <2>3, <2>5, ToSetShort
    <3>2. startup \in ToSet(projects)
      BY <2>2, <3>1 DEF ActiveIsOpen, OpenProjects
    <3>3. startup # NoProject
      BY <1>1, <3>2, ToSetOf, ProjectAssumption DEF NoProject
    <3>4. startup' \in ToSet(projects')
      BY <1>2, <2>1, <2>3, <2>5, <3>2, <3>3 DEF ActiveProject
    <3>5. QED
      BY <2>5, <3>4 DEF ActiveIsOpen, OpenProjects
  <2>6. QED
    BY <2>4, <2>5
<1>6. QED
  BY <1>3, <1>4, <1>5, EditKeeps DEF RemoveProjects

LEMMA OtherEditsKeep ==
  ASSUME SessionInv, TypeOK', NEW p \in Project, NEW dep \in Project,
         SetStartupProject(p) \/ AddDependency(p, dep) \/ RemoveDependency(p, dep)
  PROVE  SessionInv'
<1>1. Running /\ KeepFile /\ projects' = projects /\ wanted' = wanted
  BY DEF SetStartupProject, AddDependency, RemoveDependency
<1>2. IsInjective(projects') /\ NothingIsLost'
  BY <1>1 DEF SessionInv, NoneTwice, NothingIsLost, OpenProjects, KeepFile
<1>3. ActiveIsOpen
  BY <1>1 DEF SessionInv, Running
<1>4. ActiveIsOpen'
  <2>1. CASE startup' = startup
    BY <1>1, <1>3, <2>1 DEF ActiveIsOpen, OpenProjects
  <2>2. CASE startup' # startup
    <3>1. startup' = p /\ p \in ToSet(projects)
      BY <2>2 DEF SetStartupProject, AddDependency, RemoveDependency, OpenProjects
    <3>2. projects # <<>>
      BY <3>1, ToSetShort
    <3>3. QED
      BY <1>1, <3>1, <3>2 DEF ActiveIsOpen, OpenProjects
  <2>3. QED
    BY <2>1, <2>2
<1>5. QED
  BY <1>1, <1>2, <1>4, EditKeeps

-----------------------------------------------------------------------------
\* What is saved is each project once, with the active one among them.
LEMMA SavedFacts ==
  ASSUME SessionInv, Running
  PROVE  /\ Saved \in FileType
         /\ IsInjective(Saved.list)
         /\ ToSet(Saved.list) = OpenProjects \union ToSet(failedProjects)
         /\ Saved.startup \in ToSet(Saved.list) \union {NoProject}
<1> DEFINE rest == Without(failedProjects, OpenProjects)
<1>1. projects \in Seq(Project) /\ failedProjects \in Seq(Project)
  BY DEF SessionInv, TypeOK
<1>2. /\ rest \in Seq(Project)
      /\ \A p : p \in ToSet(rest) <=> p \in ToSet(failedProjects) /\ p \notin OpenProjects
      /\ IsInjective(rest)
  BY <1>1, WithoutFacts DEF SessionInv, NoneTwice
<1>3. Saved.list = projects \o rest /\ Saved.startup = startup
  BY DEF Saved
<1> HIDE DEF rest
<1>4. ToSet(projects \o rest) = ToSet(projects) \union ToSet(rest)
  BY <1>1, <1>2, ToSetConcat
<1>5. IsInjective(projects \o rest)
  BY <1>1, <1>2, InjectiveConcat DEF SessionInv, NoneTwice, OpenProjects
<1>6. startup \in OpenProjects \union {NoProject}
  BY DEF SessionInv, Running, ActiveIsOpen
<1>7. QED
  BY <1>2, <1>3, <1>4, <1>5, <1>6, SavedType DEF SessionInv, OpenProjects

LEMMA SaveKeeps ==
  ASSUME SessionInv, TypeOK', Save
  PROVE  SessionInv'
<1>1. Running /\ file' = Saved
  BY DEF Save
<1>2. IsInjective(file'.list) /\ file'.startup \in ToSet(file'.list) \union {NoProject}
  BY <1>1, SavedFacts
<1>3. NoneTwice' /\ NothingIsLost' /\ ActiveIsOpen' /\ phase' = "running"
  BY <1>1, <1>2
  DEF SessionInv, NoneTwice, NothingIsLost, ActiveIsOpen, OpenProjects, Save, Running
<1>4. QED
  BY <1>2, <1>3 DEF SessionInv

LEMMA RestartKeeps ==
  ASSUME SessionInv, TypeOK', Restart
  PROVE  SessionInv'
<1>1. file \in FileType /\ LoadSession(file) /\ wanted' \subseteq ToSet(file.list)
  BY DEF Restart, SessionInv, TypeOK, FileType, DepMap
<1>2. IsInjective(file.list) /\ file.startup \in ToSet(file.list) \union {NoProject}
  BY DEF SessionInv, NoneTwice
<1>3. QED
  BY <1>1, <1>2, LoadSessionKeeps

LEMMA SwitchSessionKeeps ==
  ASSUME SessionInv, TypeOK', SwitchSession
  PROVE  SessionInv'
<1>1. Running /\ LoadSession(Saved) /\ wanted' = wanted
  BY DEF SwitchSession
<1>2. wanted' \subseteq ToSet(Saved.list)
  BY <1>1, SavedFacts DEF SessionInv, NothingIsLost
<1>3. QED
  BY <1>1, <1>2, SavedFacts, LoadSessionKeeps

-----------------------------------------------------------------------------
\* One project more is opened, or cannot be: those not tried yet are not open, as none is
\* listed twice.
LEMMA RestoreProjectKeeps ==
  ASSUME SessionInv, TypeOK', RestoreProject
  PROVE  SessionInv'
<1> DEFINE list == file.list
           n == Len(list)
<1>1. /\ phase = "opening" /\ phase' = "opening" /\ opening # <<>> /\ opening' = Tail(opening)
      /\ projects' = Append(projects, Head(opening)) \/ projects' = projects
      /\ UNCHANGED <<startup, depMap, failedProjects, file, wanted>>
  BY DEF RestoreProject
<1>2. /\ projects \in Seq(Project) /\ opening \in Seq(Project) /\ list \in Seq(Project)
      /\ projects' \in Seq(Project)
  BY DEF SessionInv, TypeOK
<1>3. n \in Nat /\ Len(opening) \in Nat /\ Len(projects) \in Nat /\ Len(opening) # 0
  BY <1>1, <1>2, LenProperties, EmptySeq
<1>4. \A i, j \in 1..n : list[i] = list[j] => i = j
  BY <1>2, InjectiveList DEF SessionInv, NoneTwice
<1>5. failedProjects = list /\ depMap = NoDependencies
  BY <1>1 DEF SessionInv, Opening
<1>6. PICK k \in 0..n : OpenedUpto(k)
  BY <1>1 DEF SessionInv, Opening
<1> HIDE DEF n
<1>7. Len(opening) = n - k /\ \A i \in 1..Len(opening) : opening[i] = list[k + i]
  BY <1>6 DEF OpenedUpto, n
<1>8. k + 1 \in 1..n /\ k + 1 \in 0..n /\ k \in Nat /\ k + 1 \in Nat
  BY <1>3, <1>7
<1>9. Head(opening) = list[k + 1] /\ Head(opening) \in Project
  <2>1. Head(opening) = opening[1] /\ 1 \in 1..Len(opening)
    BY <1>1, <1>3
  <2>2. QED
    BY <1>1, <1>2, <1>7, <2>1, HeadTailProperties
<1>10. Len(opening') = n - (k + 1) /\ \A i \in 1..Len(opening') : opening'[i] = list[k + 1 + i]
  <2>1. Len(opening') = Len(opening) - 1
    BY <1>1, <1>2, HeadTailProperties
  <2>2. \A i \in 1..Len(opening) - 1 : opening'[i] = opening[i + 1]
    BY <1>1, <1>2, HeadTailProperties
  <2>3. \A i \in 1..Len(opening) - 1 : i + 1 \in 1..Len(opening) /\ k + 1 + i = k + (i + 1)
    BY <1>3, <1>8
  <2>4. QED
    BY <1>3, <1>7, <1>8, <2>1, <2>2, <2>3
<1>11. \A p \in ToSet(projects) : \E i \in 1..k : p = list[i]
  BY <1>6 DEF OpenedUpto, OpenProjects
<1>12. Head(opening) \notin ToSet(projects)
  <2>1. \A i \in 1..k : i \in 1..n /\ i # k + 1
    BY <1>3, <1>8
  <2>2. QED
    BY <1>4, <1>8, <1>9, <1>11, <2>1
<1>13. \A i \in 1..k : i \in 1..k + 1
  BY <1>8
<1>14. k + 1 \in 1..k + 1
  BY <1>8
\* Opened: the list has one project more, the one the file has there.
<1>15. CASE projects' = Append(projects, Head(opening))
  <2>1. ToSet(projects') = ToSet(projects) \union {Head(opening)}
    BY <1>2, <1>9, <1>15, AppendFacts
  <2>2. IsInjective(projects')
    BY <1>2, <1>9, <1>12, <1>15, AppendFacts DEF SessionInv, NoneTwice
  <2>3. \A p \in ToSet(projects') : \E i \in 1..k + 1 : p = list[i]
    BY <1>9, <1>11, <1>13, <1>14, <2>1
  <2>4. ASSUME Len(projects) = k /\ BeginsLike(projects, list, k)
        PROVE  Len(projects') = k + 1 /\ BeginsLike(projects', list, k + 1)
    <3>1. Len(projects') = k + 1
      BY <1>2, <1>9, <1>15, <2>4, AppendProperties
    <3>2. ASSUME NEW i \in 1..k + 1
          PROVE  projects'[i] = list[i]
      <4>1. projects'[i] = IF i <= k THEN projects[i] ELSE Head(opening)
        BY <1>2, <1>9, <1>15, <2>4, AppendProperties
      <4>2. (i <= k => i \in 1..k) /\ (~(i <= k) => i = k + 1)
        BY <1>8
      <4>3. QED
        BY <1>9, <2>4, <4>1, <4>2 DEF BeginsLike
    <3>3. QED
      BY <3>1, <3>2 DEF BeginsLike
  <2>5. ASSUME \E i \in 1..k : list[i] \notin ToSet(projects)
        PROVE  \E i \in 1..k + 1 : list[i] \notin ToSet(projects')
    <3>1. PICK i \in 1..k : list[i] \notin ToSet(projects)
      BY <2>5
    <3>2. i \in 1..n /\ i # k + 1
      BY <1>3, <1>8
    <3>3. list[i] \notin ToSet(projects')
      BY <1>4, <1>8, <1>9, <2>1, <3>1, <3>2
    <3>4. QED
      BY <1>13, <3>3
  <2>6. \/ Len(projects') = k + 1 /\ BeginsLike(projects', list, k + 1)
        \/ \E i \in 1..k + 1 : list[i] \notin ToSet(projects')
    BY <1>6, <2>4, <2>5 DEF OpenedUpto, OpenProjects
  <2>7. OpenedUpto(k + 1)'
    BY <1>1, <1>10, <2>3, <2>6 DEF OpenedUpto, OpenProjects, n
  <2>8. NoneTwice' /\ NothingIsLost'
    BY <1>1, <2>1, <2>2 DEF SessionInv, NoneTwice, NothingIsLost, OpenProjects
  <2>9. Opening'
    BY <1>1, <1>5, <1>8, <2>7 DEF Opening, n
  <2>10. QED
    BY <1>1, <2>8, <2>9 DEF SessionInv
\* Not opened: it is not among those that are.
<1>16. CASE projects' = projects
  <2>1. list[k + 1] \notin ToSet(projects')
    BY <1>9, <1>12, <1>16
  <2>2. \A p \in ToSet(projects') : \E i \in 1..k + 1 : p = list[i]
    BY <1>11, <1>13, <1>16
  <2>3. OpenedUpto(k + 1)'
    BY <1>1, <1>10, <1>14, <2>1, <2>2 DEF OpenedUpto, OpenProjects, n
  <2>4. NoneTwice' /\ NothingIsLost'
    BY <1>1, <1>16 DEF SessionInv, NoneTwice, NothingIsLost, OpenProjects
  <2>5. Opening'
    BY <1>1, <1>5, <1>8, <2>3 DEF Opening, n
  <2>6. QED
    BY <1>1, <2>4, <2>5 DEF SessionInv
<1>17. QED
  BY <1>1, <1>15, <1>16

\* When all have been tried and none is left that failed, all are open in their order.
LEMMA RestoredProjectsKeeps ==
  ASSUME SessionInv, TypeOK', RestoredProjects
  PROVE  SessionInv'
<1> DEFINE list == file.list
           n == Len(list)
<1>1. /\ phase = "opening" /\ phase' = "dependencies" /\ opening = <<>>
      /\ failedProjects' = Without(failedProjects, OpenProjects)
      /\ restoring' = {p \in Project : file.deps[p] # {}}
      /\ UNCHANGED <<projects, startup, depMap, file, opening, wanted>>
  BY DEF RestoredProjects
<1>2. projects \in Seq(Project) /\ list \in Seq(Project) /\ failedProjects = list
  BY <1>1 DEF SessionInv, TypeOK, Opening
<1>3. /\ failedProjects' \in Seq(Project)
      /\ \A p : p \in ToSet(failedProjects') <=> p \in ToSet(list) /\ p \notin OpenProjects
      /\ IsInjective(failedProjects')
  BY <1>1, <1>2, WithoutFacts DEF SessionInv, NoneTwice
<1>4. NoneTwice' /\ NothingIsLost'
  BY <1>1, <1>2, <1>3 DEF SessionInv, NoneTwice, NothingIsLost, OpenProjects
<1>5. PICK k \in 0..n : OpenedUpto(k)
  BY <1>1 DEF SessionInv, Opening
<1>6. k = n
  <2>1. Len(opening) = 0 /\ n \in Nat
    BY <1>1, <1>2, LenProperties, EmptySeq
  <2>2. Len(opening) = n - k
    BY <1>5 DEF OpenedUpto
  <2>3. QED
    BY <2>1, <2>2
<1>7. ASSUME failedProjects' = <<>>
      PROVE  projects = list
  <2>1. \A i \in 1..n : list[i] \in ToSet(list)
    BY <1>2, ToSetOf
  <2>2. \A i \in 1..n : list[i] \in OpenProjects
    BY <1>3, <1>7, <2>1, ToSetShort
  <2>3. Len(projects) = n /\ BeginsLike(projects, list, n)
    BY <1>5, <1>6, <2>2 DEF OpenedUpto
  <2>4. QED
    BY <1>2, <2>3, SeqEqual DEF BeginsLike
<1>8. \A p \in Project : depMap[p] = {}
  BY <1>1 DEF SessionInv, Opening, NoDependencies
<1>9. Depending'
  <2>1. \A p \in Project \ restoring' : file.deps[p] = {}
    BY <1>1
  <2>2. \A p \in Project \ restoring' : depMap[p] = file.deps[p] \ ToSet(failedProjects')
    BY <1>8, <2>1
  <2>3. \A p \in restoring' : depMap[p] = {}
    BY <1>1, <1>8
  <2>4. QED
    BY <1>1, <1>7, <2>2, <2>3 DEF Depending
<1>10. QED
  BY <1>1, <1>4, <1>9 DEF SessionInv

LEMMA RestoreDependencyKeeps ==
  ASSUME SessionInv, TypeOK', RestoreDependency
  PROVE  SessionInv'
<1> DEFINE key == Min(restoring)
<1>1. /\ phase = "dependencies" /\ phase' = "dependencies"
      /\ \/ UNCHANGED <<depMap, restoring>>
         \/ /\ depMap' = [depMap EXCEPT ![key] = RestoredDependencies(key)]
            /\ restoring' = restoring \ {key}
      /\ UNCHANGED <<projects, startup, failedProjects, file, opening, wanted>>
  BY DEF RestoreDependency
<1>2. Depending /\ depMap \in [Project -> SUBSET Project] /\ restoring \subseteq Project
  BY <1>1 DEF SessionInv, TypeOK
<1> HIDE DEF key
<1>3. NoneTwice' /\ NothingIsLost'
  BY <1>1 DEF SessionInv, NoneTwice, NothingIsLost, OpenProjects
<1>4. Depending'
  <2>1. CASE UNCHANGED <<depMap, restoring>>
    BY <1>1, <1>2, <2>1 DEF Depending
  <2>2. CASE /\ depMap' = [depMap EXCEPT ![key] = RestoredDependencies(key)]
             /\ restoring' = restoring \ {key}
    <3>1. \A p \in Project : depMap'[p] = IF p = key THEN RestoredDependencies(key) ELSE depMap[p]
      BY <1>2, <2>2
    <3>2. RestoredDependencies(key) = file.deps[key] \ ToSet(failedProjects)
      BY DEF RestoredDependencies
    <3>3. \A p \in restoring' : depMap'[p] = {}
      BY <1>2, <2>2, <3>1 DEF Depending
    <3>4. ASSUME NEW p \in Project \ restoring'
          PROVE  depMap'[p] = file.deps[p] \ ToSet(failedProjects)
      <4>1. CASE p = key
        BY <3>1, <3>2, <4>1
      <4>2. CASE p # key
        <5>1. p \in Project \ restoring
          BY <2>2, <4>2
        <5>2. QED
          BY <1>2, <3>1, <4>2, <5>1 DEF Depending
      <4>3. QED
        BY <4>1, <4>2
    <3>5. QED
      BY <1>1, <1>2, <3>3, <3>4 DEF Depending
  <2>3. QED
    BY <1>1, <2>1, <2>2
<1>5. QED
  BY <1>1, <1>3, <1>4 DEF SessionInv

LEMMA RestoreStartupProjectKeeps ==
  ASSUME SessionInv, TypeOK', RestoreStartupProject
  PROVE  SessionInv'
<1> DEFINE old == IF file.startup \in OpenProjects THEN file.startup ELSE NoProject
<1>1. /\ phase = "dependencies" /\ phase' = "asking" /\ restoring = {}
      /\ startup' = ActiveProject(old, projects)
      /\ UNCHANGED <<projects, depMap, failedProjects, file, opening, restoring, wanted>>
  BY DEF RestoreStartupProject
<1>2. projects \in Seq(Project) /\ file.list \in Seq(Project)
  BY DEF SessionInv, TypeOK
<1>3. NoneTwice' /\ NothingIsLost'
  BY <1>1 DEF SessionInv, NoneTwice, NothingIsLost, OpenProjects
<1>4. file.startup \in OpenProjects => file.startup # NoProject
  BY <1>2, ToSetOf, ProjectAssumption DEF OpenProjects, NoProject
<1>5. projects = <<>> => OpenProjects = {}
  BY ToSetShort DEF OpenProjects
<1>6. projects # <<>> => Head(projects) \in OpenProjects
  BY <1>2, ToSetOf DEF OpenProjects
<1>7. IF projects = <<>> THEN startup' = NoProject ELSE startup' \in OpenProjects
  BY <1>1, <1>4, <1>5, <1>6 DEF ActiveProject
<1>8. ActiveIsOpen'
  BY <1>1, <1>7 DEF ActiveIsOpen, OpenProjects
<1>9. Restored'
  <2>1. SUFFICES ASSUME failedProjects = <<>>
                 PROVE  projects = file.list /\ depMap = file.deps
                        /\ file.startup \in {startup', NoProject}
    BY <1>1 DEF Restored
  <2>2. projects = file.list /\ \A p \in Project : depMap[p] = file.deps[p] \ ToSet(<<>>)
    BY <1>1, <2>1 DEF SessionInv, Depending
  <2>3. \A p \in Project : depMap[p] = file.deps[p]
    BY <2>2, ToSetShort
  <2>4. depMap \in [Project -> SUBSET Project] /\ file.deps \in [Project -> SUBSET Project]
    BY DEF SessionInv, TypeOK
  <2>5. depMap = file.deps
    BY <2>3, <2>4
  <2>6. file.startup \in OpenProjects \union {NoProject}
    BY <2>2 DEF SessionInv, OpenProjects
  <2>7. file.startup \in {startup', NoProject}
    BY <1>1, <1>4, <2>6 DEF ActiveProject
  <2>8. QED
    BY <2>2, <2>5, <2>7
<1>10. QED
  BY <1>1, <1>3, <1>8, <1>9 DEF SessionInv

LEMMA AskUserKeeps ==
  ASSUME SessionInv, TypeOK', AskUserAboutFailedProjects
  PROVE  SessionInv'
<1>1. /\ phase = "asking" /\ phase' = "running"
      /\ \/ UNCHANGED <<failedProjects, wanted>>
         \/ failedProjects' = <<>> /\ wanted' = wanted \ ToSet(failedProjects)
      /\ UNCHANGED <<projects, startup, depMap, file, opening, restoring>>
  BY DEF AskUserAboutFailedProjects
<1>2. NoneTwice'
  BY <1>1, ToSetShort DEF SessionInv, NoneTwice
<1>3. NothingIsLost'
  BY <1>1, ToSetShort DEF SessionInv, NothingIsLost, OpenProjects
<1>4. ActiveIsOpen'
  BY <1>1 DEF SessionInv, ActiveIsOpen, OpenProjects
<1>5. QED
  BY <1>1, <1>2, <1>3, <1>4 DEF SessionInv

-----------------------------------------------------------------------------
LEMMA SessionNext == SessionInv /\ [Next]_sessionVars => SessionInv'
<1> SUFFICES ASSUME SessionInv, [Next]_sessionVars PROVE SessionInv'
  OBVIOUS
<1>1. TypeOK'
  BY TypeNext DEF SessionInv
<1>2. \A S \in {{p} : p \in OpenProjects} \union {OpenProjects} : S \in SUBSET Project
  BY ToSetOf DEF OpenProjects, SessionInv, TypeOK
<1>3. CASE Next
  BY <1>1, <1>2, <1>3, AddProjectKeeps, OtherEditsKeep, RemoveProjectsKeeps, SaveKeeps,
     RestartKeeps, SwitchSessionKeeps, RestoreProjectKeeps, RestoredProjectsKeeps,
     RestoreDependencyKeeps, RestoreStartupProjectKeeps, AskUserKeeps
  DEF Next, Load
<1>4. CASE UNCHANGED sessionVars
  BY <1>4 DEF sessionVars, SessionInv, TypeOK, NoneTwice, NothingIsLost, ActiveIsOpen,
              Opening, OpenedUpto, Depending, Restored, OpenProjects
<1>5. QED
  BY <1>3, <1>4

LEMMA SessionAlways == Spec => []SessionInv
  BY SessionInit, SessionNext, PTL DEF Spec

\* The active project of a session in memory is open, and there is one if any is open.
THEOREM SessionStartupIsOpen == Spec => []StartupIsOpen
<1>1. SessionInv => StartupIsOpen
  BY DEF SessionInv, StartupIsOpen, ActiveIsOpen, Running
<1>2. QED
  BY SessionAlways, <1>1, PTL

\* What the user has put in the session is open, or remembered as failed, until the user
\* takes it out: through loads that fail, saves, and an IDE that ends in the middle.
THEOREM SessionKeepsProjects == Spec => []NothingIsLost
<1>1. SessionInv => NothingIsLost
  BY DEF SessionInv
<1>2. QED
  BY SessionAlways, <1>1, PTL

\* A session all of whose projects open comes back as it was saved: its projects in their
\* order, what depends on what, and the active project.
THEOREM SessionRestored == Spec => RestoredAsSaved
<1>1. SessionInv /\ [Next]_sessionVars =>
        [~Running /\ phase' = "running" /\ failedProjects = <<>> =>
           /\ projects' = file.list /\ depMap' = file.deps
           /\ file.startup \in {startup', NoProject}]_sessionVars
  <2> SUFFICES ASSUME SessionInv, Next, ~Running, phase' = "running", failedProjects = <<>>
               PROVE  /\ projects' = file.list /\ depMap' = file.deps
                      /\ file.startup \in {startup', NoProject}
    OBVIOUS
  <2>1. AskUserAboutFailedProjects
    BY DEF Next, Load, Running, AddProject, SetStartupProject, RemoveProjects, AddDependency,
           RemoveDependency, Save, Restart, SwitchSession, LoadSession, RestoreProject,
           RestoredProjects, RestoreDependency, RestoreStartupProject
  <2>2. Restored
    BY <2>1 DEF SessionInv, AskUserAboutFailedProjects
  <2>3. QED
    BY <2>1, <2>2 DEF Restored, AskUserAboutFailedProjects
<1>2. QED
  BY SessionAlways, <1>1, PTL DEF Spec, RestoredAsSaved
-----------------------------------------------------------------------------
\* What a project needs: itself and what it depends on.
Needs(p) == {q \in Project : DependsOn(depMap, p, q)}

LEMMA NeedsFacts ==
  ASSUME depMap \in DepMap, NEW p \in Project
  PROVE  /\ p \in Needs(p)
         /\ \A dep \in depMap[p] : dep \in Project /\ Needs(dep) \subseteq Needs(p)
         /\ \A q \in Needs(p) : q = p \/ \E dep \in depMap[p] : q \in Needs(dep)
         /\ IsFiniteSet(Needs(p)) /\ Cardinality(Needs(p)) \in Nat \ {0}
         /\ Acyclic => \A dep \in depMap[p] : Cardinality(Needs(dep)) < Cardinality(Needs(p))
<1>1. p \in Needs(p)
  BY DEF Needs, DependsOn
<1>2. ASSUME NEW dep \in depMap[p]
      PROVE  dep \in Project /\ Needs(dep) \subseteq Needs(p)
  <2>1. dep \in Project
    BY DEF DepMap
  <2>2. \A S \in SUBSET Project : p \in S /\ Closed(depMap, S) => dep \in S
    BY DEF Closed
  <2>3. QED
    BY <2>1, <2>2 DEF Needs, DependsOn
\* p and what its dependencies need hold all their dependencies.
<1>3. ASSUME NEW q \in Needs(p)
      PROVE  q = p \/ \E dep \in depMap[p] : q \in Needs(dep)
  <2> DEFINE All == {r \in Project : r = p \/ \E dep \in depMap[p] : r \in Needs(dep)}
  <2>1. ASSUME NEW r \in All, NEW d \in depMap[r]
        PROVE  d \in All
    <3>1. r \in Project /\ d \in Project
      BY <2>1 DEF DepMap
    <3>2. CASE r = p
      <4>1. d \in Needs(d)
        BY <3>1 DEF Needs, DependsOn
      <4>2. QED
        BY <2>1, <3>1, <3>2, <4>1
    <3>3. CASE r # p
      <4>1. PICK dep \in depMap[p] : r \in Needs(dep)
        BY <2>1, <3>3
      <4>2. \A S \in SUBSET Project : dep \in S /\ Closed(depMap, S) => d \in S
        BY <2>1, <3>1, <4>1 DEF Needs, DependsOn, Closed
      <4>3. d \in Needs(dep)
        BY <3>1, <4>2 DEF Needs, DependsOn
      <4>4. QED
        BY <3>1, <4>3
    <3>4. QED
      BY <3>2, <3>3
  <2>2. Closed(depMap, All)
    BY <2>1 DEF Closed
  <2>3. p \in All /\ All \in SUBSET Project
    OBVIOUS
  <2> HIDE DEF All
  <2>4. q \in All
    BY <2>2, <2>3 DEF Needs, DependsOn
  <2>5. QED
    BY <2>4 DEF All
<1>4. \A q \in Project : IsFiniteSet(Needs(q)) /\ Cardinality(Needs(q)) \in Nat
  <2>1. \A q \in Project : Needs(q) \in SUBSET Project
    BY DEF Needs
  <2>2. QED
    BY <2>1, ProjectAssumption, FS_Subset, FS_CardinalityType
<1>5. Cardinality(Needs(p)) # 0
  BY <1>1, <1>4, FS_EmptySet
<1>6. ASSUME Acyclic, NEW dep \in depMap[p]
      PROVE  Cardinality(Needs(dep)) < Cardinality(Needs(p))
  <2>1. p \notin Needs(dep)
    BY <1>6 DEF Acyclic, NoCycle, Needs
  <2>2. Needs(dep) \in SUBSET Needs(p) /\ dep \in Project
    BY <1>2
  <2>3. Cardinality(Needs(dep)) <= Cardinality(Needs(p)) /\ Cardinality(Needs(dep)) # Cardinality(Needs(p))
    BY <1>1, <1>4, <2>1, <2>2, FS_Subset
  <2>4. Cardinality(Needs(dep)) \in Nat /\ Cardinality(Needs(p)) \in Nat
    BY <1>4, <2>2
  <2>5. QED
    BY <2>3, <2>4
<1>7. QED
  BY <1>1, <1>2, <1>3, <1>4, <1>5, <1>6

-----------------------------------------------------------------------------
\* Two lists one behind the other are in order when what the second depends on is in the
\* first, or before in the second.
LEMMA InOrderConcat ==
  ASSUME NEW s \in Seq(Project), NEW t \in Seq(Project), InOrder(s),
         \A i \in 1..Len(t) : \A dep \in depMap[t[i]] :
           dep \in ToSet(s) \/ \E j \in 1..(i - 1) : t[j] = dep
  PROVE  InOrder(s \o t)
<1> DEFINE m == Len(s)
           n == Len(t)
<1>1. m \in Nat /\ n \in Nat
  BY LenProperties
<1>2. \A i \in 1..m + n : (s \o t)[i] = IF i <= m THEN s[i] ELSE t[i - m]
  BY ConcatProperties
<1>3. DOMAIN (s \o t) = 1..m + n
  BY ConcatProperties, LenProperties
<1>4. \A i \in 1..m : \A dep \in depMap[s[i]] : \E j \in 1..(i - 1) : s[j] = dep
  BY LenProperties DEF InOrder
<1>5. \A e \in ToSet(s) : \E i \in 1..m : e = s[i]
  BY ToSetOf
<1>6. \A i \in 1..n : \A dep \in depMap[t[i]] :
        dep \in ToSet(s) \/ \E j \in 1..(i - 1) : t[j] = dep
  OBVIOUS
<1> HIDE DEF m, n
<1>7. ASSUME NEW i \in 1..m + n, NEW dep \in depMap[(s \o t)[i]]
      PROVE  \E j \in 1..(i - 1) : (s \o t)[j] = dep
  <2>1. CASE i <= m
    <3>1. i \in 1..m
      BY <1>1, <2>1
    <3>2. PICK j \in 1..(i - 1) : s[j] = dep
      <4>1. (s \o t)[i] = s[i]
        BY <1>2, <2>1
      <4>2. dep \in depMap[s[i]]
        BY <1>7, <4>1
      <4>3. QED
        BY <1>4, <3>1, <4>2
    <3>3. j \in 1..m + n /\ j <= m
      BY <1>1, <2>1
    <3>4. QED
      BY <1>2, <3>2, <3>3
  <2>2. CASE ~(i <= m)
    <3>1. i - m \in 1..n
      BY <1>1, <2>2
    <3>2. dep \in depMap[t[i - m]]
      BY <1>2, <2>2
    <3>3. CASE dep \in ToSet(s)
      <4>1. PICK j \in 1..m : dep = s[j]
        BY <1>5, <3>3
      <4>2. j \in 1..m + n /\ j <= m /\ j \in 1..(i - 1)
        BY <1>1, <2>2
      <4>3. QED
        BY <1>2, <4>1, <4>2
    <3>4. CASE \E j \in 1..((i - m) - 1) : t[j] = dep
      <4>1. PICK j \in 1..((i - m) - 1) : t[j] = dep
        BY <3>4
      <4>2. j + m \in 1..m + n /\ ~(j + m <= m) /\ j + m \in 1..(i - 1) /\ (j + m) - m = j
        BY <1>1, <3>1
      <4>3. (s \o t)[j + m] = t[j]
        BY <1>2, <4>2
      <4>4. QED
        BY <4>1, <4>2, <4>3
    <3>5. QED
      BY <1>6, <3>1, <3>2, <3>3, <3>4
  <2>3. QED
    BY <2>1, <2>2
<1>8. QED
  BY <1>3, <1>7 DEF InOrder

LEMMA FlattenInOrder ==
  ASSUME NEW lists \in Seq(Seq(Project)), \A i \in 1..Len(lists) : InOrder(lists[i])
  PROVE  InOrder(FlattenSeq(lists))
<1> DEFINE Good == {s \in Seq(Project) : InOrder(s)}
<1>1. <<>> \in Good
  BY EmptySeq DEF InOrder
<1>2. ASSUME NEW s \in Good, NEW t \in Good
      PROVE  s \o t \in Good
  <2>1. s \in Seq(Project) /\ t \in Seq(Project) /\ InOrder(s) /\ InOrder(t)
    BY <1>2
  <2>2. \A i \in 1..Len(t) : \A dep \in depMap[t[i]] : \E j \in 1..(i - 1) : t[j] = dep
    BY <2>1, LenProperties DEF InOrder
  <2>3. InOrder(s \o t)
    BY <2>1, <2>2, InOrderConcat
  <2>4. QED
    BY <2>1, <2>3, ConcatProperties
<1>3. \A i \in 1..Len(lists) : lists[i] \in Good
  BY ElementOfSeq
<1>4. Good \in SUBSET Seq(Project)
  OBVIOUS
<1> HIDE DEF Good
<1>5. FlattenSeq(lists) \in Good
  BY <1>1, <1>2, <1>3, <1>4, FlattenKeeps
<1>6. QED
  BY <1>5 DEF Good

\* A list none of whose members is left out is left as it is.
LEMMA WithoutNothing ==
  ASSUME NEW list \in Seq(Project), NEW S, ToSet(list) \intersect S = {}
  PROVE  Without(list, S) = list
<1> DEFINE n == Len(list)
           lists == [i \in 1..n |-> IF list[i] \in S THEN <<>> ELSE <<list[i]>>]
<1>1. n \in Nat /\ DOMAIN list = 1..n /\ \A i \in 1..n : list[i] \in Project
  BY LenProperties, ElementOfSeq
<1>2. Without(list, S) = FlattenSeq(lists)
  BY <1>1 DEF Without
<1>3. \A i \in 1..n : list[i] \notin S
  BY ToSetOf
<1> HIDE DEF n
<1>4. \A i \in 1..n : lists[i] = <<list[i]>> /\ lists[i] \in Seq(Project)
  <2>1. ASSUME NEW i \in 1..n
        PROVE  lists[i] = <<list[i]>> /\ <<list[i]>> \in Seq(Project)
    BY <1>1, <1>3
  <2>2. QED
    BY <2>1
<1>5. lists \in Seq(Seq(Project)) /\ Len(lists) = n
  BY <1>1, <1>4
<1> HIDE DEF lists
<1>6. PICK f \in [0..n -> Seq(Project)] : Joins(f, lists) /\ FlattenSeq(lists) = f[n]
  BY <1>5, FlattenJoins
<1>7. f[0] = <<>> /\ \A i \in 1..n : f[i] = f[i - 1] \o lists[i]
  BY <1>5, <1>6 DEF Joins, JoinsUpto
<1> DEFINE Same(k) == Len(f[k]) = k /\ \A i \in 1..k : f[k][i] = list[i]
           T == {k \in Nat : k <= n => Same(k)}
<1>8. 0 \in T
  BY <1>7, EmptySeq
<1>9. ASSUME NEW k \in Nat, Same(k), k + 1 <= n
      PROVE  Same(k + 1)
  <2>1. k + 1 \in 1..n /\ (k + 1) - 1 = k /\ k \in 0..n
    BY <1>1, <1>9
  <2>2. f[k] \in Seq(Project) /\ list[k + 1] \in Project /\ f[k + 1] = f[k] \o <<list[k + 1]>>
    BY <1>1, <1>4, <1>7, <2>1
  <2>3. f[k + 1] = Append(f[k], list[k + 1])
    BY <2>2, AppendIsConcat
  <2>4. /\ Len(f[k + 1]) = k + 1 /\ f[k + 1][k + 1] = list[k + 1]
        /\ \A i \in 1..k : f[k + 1][i] = list[i]
    <3>1. Len(f[k]) = k /\ \A i \in 1..k : f[k][i] = list[i]
      BY <1>9
    <3>2. /\ Len(f[k + 1]) = Len(f[k]) + 1 /\ f[k + 1][Len(f[k]) + 1] = list[k + 1]
          /\ \A i \in 1..Len(f[k]) : f[k + 1][i] = f[k][i]
      BY <2>2, <2>3, AppendProperties
    <3>3. QED
      BY <3>1, <3>2
  <2>5. \A i \in 1..k + 1 : i \in 1..k \/ i = k + 1
    OBVIOUS
  <2>6. QED
    BY <2>4, <2>5
<1>10. ASSUME NEW k \in Nat, k \in T
       PROVE  k + 1 \in T
  <2> HIDE DEF Same
  <2>1. k + 1 \in Nat /\ (k + 1 <= n => k <= n)
    BY <1>1
  <2>2. QED
    BY <1>9, <1>10, <2>1
<1>11. \A k \in Nat : k \in T
  <2> HIDE DEF T
  <2>1. QED
    BY <1>8, <1>10, SetInduction
<1>12. n \in T /\ n <= n
  <2> HIDE DEF T
  <2>1. QED
    BY <1>1, <1>11
<1>13. Len(f[n]) = n /\ \A i \in 1..n : f[n][i] = list[i]
  <2> HIDE DEF Same
  <2>1. Same(n)
    BY <1>12
  <2>2. QED
    BY <2>1 DEF Same
<1>14. f[n] \in Seq(Project)
  BY <1>1, <1>6
<1>15. QED
  BY <1>2, <1>6, <1>13, <1>14, SeqEqual DEF n

-----------------------------------------------------------------------------
\* What dependencies() lists, v being what it lists one level further down.
Lists == [Project -> Seq(Project)]
Below(v, p) == [dep \in 1..Max(Project) |-> IF dep \in depMap[p] THEN v[dep] ELSE <<>>]
Visited(v) == [p \in Project |-> FlattenSeq(Below(v, p)) \o <<p>>]

LEMMA BelowFacts ==
  ASSUME depMap \in DepMap, NEW v \in Lists, NEW p \in Project
  PROVE  /\ Max(Project) \in Nat
         /\ Below(v, p) \in Seq(Seq(Project)) /\ Len(Below(v, p)) = Max(Project)
         /\ \A i \in 1..Max(Project) : Below(v, p)[i] = IF i \in depMap[p] THEN v[i] ELSE <<>>
         /\ depMap[p] \subseteq 1..Max(Project)
<1>1. Project \in SUBSET Nat /\ IsFiniteSet(Project) /\ Project # {} /\ 0 \notin Project
  BY ProjectAssumption
<1>2. Max(Project) \in Project /\ \A x \in Project : x <= Max(Project)
  BY <1>1, GreatestOfFinite
<1>3. Max(Project) \in Nat
  BY <1>1, <1>2
<1> DEFINE m == Max(Project)
<1>4. \A x \in Project : x \in 1..m
  <2>1. ASSUME NEW x \in Project
        PROVE  x \in Nat /\ x # 0 /\ x <= m /\ m \in Nat
    BY <1>1, <1>2, <1>3
  <2> HIDE DEF m
  <2>2. QED
    BY <2>1
<1>5. \A i \in 1..m : Below(v, p)[i] = IF i \in depMap[p] THEN v[i] ELSE <<>>
  BY DEF Below
<1>6. ASSUME NEW i \in 1..m
      PROVE  Below(v, p)[i] \in Seq(Project)
  <2>1. <<>> \in Seq(Project) /\ (i \in depMap[p] => v[i] \in Seq(Project))
    BY DEF DepMap, Lists
  <2>2. QED
    BY <1>5, <2>1
<1>7. Below(v, p) = [i \in 1..m |-> Below(v, p)[i]]
  BY DEF Below
<1>8. Below(v, p) \in Seq(Seq(Project)) /\ Len(Below(v, p)) = m
  <2> HIDE DEF m
  <2>1. m \in Nat
    BY <1>3 DEF m
  <2>2. QED
    BY <1>6, <1>7, <2>1
<1>9. QED
  BY <1>3, <1>4, <1>5, <1>8 DEF DepMap

LEMMA VisitedType ==
  ASSUME depMap \in DepMap, NEW v \in Lists
  PROVE  Visited(v) \in Lists
<1>1. ASSUME NEW p \in Project
      PROVE  FlattenSeq(Below(v, p)) \o <<p>> \in Seq(Project)
  <2>1. FlattenSeq(Below(v, p)) \in Seq(Project)
    BY BelowFacts, FlattenType
  <2>2. <<p>> \in Seq(Project)
    OBVIOUS
  <2>3. QED
    BY <2>1, <2>2, ConcatProperties
<1>2. QED
  BY <1>1 DEF Visited, Lists

LEMMA ListsIterate ==
  ASSUME NEW a \in Lists, NEW F \in [Lists -> Lists]
  PROVE  \E f \in [Nat -> Lists] : f[0] = a /\ \A n \in Nat : f[n + 1] = F[f[n]]
  BY IteratesExist

LEMMA DependenciesVisit ==
  ASSUME depMap \in DepMap
  PROVE  \E visit \in [Nat -> Lists] :
           /\ visit[0] = [p \in Project |-> <<>>]
           /\ \A n \in Nat : visit[n + 1] = Visited(visit[n])
           /\ \A p \in Project : Dependencies(p) = visit[Cardinality(Project)][p]
<1> DEFINE none == [p \in Project |-> <<>>]
           further == [v \in Lists |-> Visited(v)]
<1>1. none \in Lists
  BY EmptySeq DEF Lists
<1>2. further \in [Lists -> Lists]
  BY VisitedType
<1> HIDE DEF further, none
<1>3. PICK f \in [Nat -> Lists] : f[0] = none /\ \A n \in Nat : f[n + 1] = further[f[n]]
  BY <1>1, <1>2, ListsIterate
<1> DEFINE Equation(g) ==
             g = [n \in Nat |->
                    [p \in Project |->
                       IF n = 0 THEN <<>>
                       ELSE FlattenSeq([dep \in 1..Max(Project) |->
                                          IF dep \in depMap[p] THEN g[n - 1][dep] ELSE <<>>])
                            \o <<p>>]]
           visit == CHOOSE g : Equation(g)
<1> USE DEF none
<1>4. Equation(f)
  <2>1. ASSUME NEW n \in Nat
        PROVE  f[n] = [p \in Project |->
                         IF n = 0 THEN <<>>
                         ELSE FlattenSeq([dep \in 1..Max(Project) |->
                                            IF dep \in depMap[p] THEN f[n - 1][dep] ELSE <<>>])
                              \o <<p>>]
    <3>1. CASE n = 0
      BY <1>3, <3>1
    <3>2. CASE n # 0
      <4>1. n - 1 \in Nat /\ (n - 1) + 1 = n
        BY <3>2
      <4>2. f[n] = Visited(f[n - 1])
        <5>1. f[n] = further[f[n - 1]] /\ f[n - 1] \in Lists
          BY <1>3, <4>1
        <5>2. QED
          BY <5>1 DEF further
      <4>3. QED
        BY <3>2, <4>2 DEF Visited, Below
    <3>3. QED
      BY <3>1, <3>2
  <2>2. QED
    BY <1>3, <2>1, Zenon
<1>5. Equation(visit)
  BY <1>4, Zenon
<1>6. \A p \in Project : Dependencies(p) = visit[Cardinality(Project)][p]
  BY DEF Dependencies
<1> HIDE DEF visit
<1>7. visit[0] = none
  BY <1>5
<1>8. ASSUME NEW n \in Nat
      PROVE  visit[n + 1] = Visited(visit[n])
  <2>1. n + 1 \in Nat /\ n + 1 # 0 /\ (n + 1) - 1 = n
    OBVIOUS
  <2>2. visit[n + 1] = [p \in Project |->
                          IF n + 1 = 0 THEN <<>>
                          ELSE FlattenSeq([dep \in 1..Max(Project) |->
                                             IF dep \in depMap[p] THEN visit[(n + 1) - 1][dep] ELSE <<>>])
                               \o <<p>>]
    BY <1>5, <2>1, Zenon
  <2>3. QED
    BY <2>1, <2>2 DEF Visited, Below
<1> DEFINE T == {n \in Nat : visit[n] \in Lists}
<1>9. 0 \in T
  BY <1>1, <1>7
<1>10. ASSUME NEW n \in Nat, n \in T
       PROVE  n + 1 \in T
  BY <1>8, <1>10, VisitedType
<1>11. \A n \in Nat : n \in T
  <2> HIDE DEF T
  <2>1. QED
    BY <1>9, <1>10, SetInduction
<1>12. visit \in [Nat -> Lists]
  <2>1. \A n \in Nat : visit[n] \in Lists
    BY <1>11
  <2>2. visit = [n \in Nat |-> visit[n]]
    BY <1>5, Zenon
  <2>3. QED
    BY <2>1, <2>2, Zenon
<1>13. QED
  BY <1>6, <1>7, <1>8, <1>12

\* The order a project is built in: all it needs, itself last.
RightOrder(list, p) ==
  /\ list \in Seq(Project) /\ list # <<>>
  /\ InOrder(list)
  /\ Last(list) = p
  /\ ToSet(list) = Needs(p)

LEMMA VisitedRight ==
  ASSUME depMap \in DepMap, NEW v \in Lists, NEW p \in Project,
         \A dep \in depMap[p] : RightOrder(v[dep], dep)
  PROVE  RightOrder(Visited(v)[p], p)
<1> DEFINE lists == Below(v, p)
           front == FlattenSeq(lists)
           m == Max(Project)
<1>1. /\ lists \in Seq(Seq(Project)) /\ Len(lists) = m
      /\ \A i \in 1..m : lists[i] = IF i \in depMap[p] THEN v[i] ELSE <<>>
      /\ depMap[p] \subseteq 1..m
  BY BelowFacts
<1> HIDE DEF lists, m
<1>2. front \in Seq(Project) /\ <<p>> \in Seq(Project)
  BY <1>1, FlattenType
<1>3. ASSUME NEW i \in 1..m
      PROVE  /\ InOrder(lists[i])
             /\ ToSet(lists[i]) = IF i \in depMap[p] THEN Needs(i) ELSE {}
  <2>1. CASE i \in depMap[p]
    BY <1>1, <2>1 DEF RightOrder
  <2>2. CASE i \notin depMap[p]
    BY <1>1, <2>2, ToSetShort DEF InOrder
  <2>3. QED
    BY <2>1, <2>2
<1>4. InOrder(front)
  BY <1>1, <1>3, FlattenInOrder
<1>5. \A q : q \in ToSet(front) <=> \E dep \in depMap[p] : q \in Needs(dep)
  <2>1. \A q : q \in ToSet(front) <=> \E i \in 1..m : q \in ToSet(lists[i])
    BY <1>1, FlattenToSet
  <2>2. QED
    BY <1>1, <1>3, <2>1
<1> HIDE DEF front
<1>6. \A dep \in depMap[p] : dep \in Needs(dep)
  BY NeedsFacts DEF DepMap
<1>7. InOrder(front \o <<p>>)
  <2>1. \A i \in 1..Len(<<p>>) : i = 1 /\ <<p>>[i] = p
    OBVIOUS
  <2>2. \A i \in 1..Len(<<p>>) : \A dep \in depMap[<<p>>[i]] : dep \in ToSet(front)
    BY <1>5, <1>6, <2>1
  <2>3. QED
    BY <1>2, <1>4, <2>2, InOrderConcat
<1>8. ToSet(front \o <<p>>) = Needs(p)
  <2>1. ToSet(front \o <<p>>) = ToSet(front) \union {p}
    <3> DEFINE one == <<p>>
    <3>1. ToSet(one) = {p} /\ one \in Seq(Project)
      BY ToSetShort
    <3> HIDE DEF one
    <3>2. front \in Seq(Project)
      BY <1>2
    <3>3. ToSet(front \o one) = ToSet(front) \union ToSet(one)
      BY <3>1, <3>2, ToSetConcat
    <3>4. QED
      BY <3>1, <3>3 DEF one
  <2>2. QED
    BY <1>5, <2>1, NeedsFacts
<1>9. Append(front, p) = front \o <<p>>
  BY <1>2, AppendIsConcat
<1>10. /\ Append(front, p) \in Seq(Project) /\ Append(front, p) # <<>>
       /\ Len(Append(front, p)) = Len(front) + 1 /\ Append(front, p)[Len(front) + 1] = p
  BY <1>2, AppendProperties
<1>11. Last(Append(front, p)) = p
  BY <1>10 DEF Last
<1>12. Visited(v)[p] = Append(front, p)
  BY <1>9 DEF Visited, front, lists
<1>13. QED
  BY <1>7, <1>8, <1>9, <1>10, <1>11, <1>12 DEF RightOrder

LEMMA DependenciesRight ==
  ASSUME depMap \in DepMap, Acyclic, NEW project \in Project
  PROVE  RightOrder(Dependencies(project), project)
<1>1. PICK visit \in [Nat -> Lists] :
        /\ visit[0] = [p \in Project |-> <<>>]
        /\ \A n \in Nat : visit[n + 1] = Visited(visit[n])
        /\ \A p \in Project : Dependencies(p) = visit[Cardinality(Project)][p]
  BY DependenciesVisit
<1> DEFINE T == {n \in Nat : \A p \in Project : Cardinality(Needs(p)) <= n => RightOrder(visit[n][p], p)}
<1>2. \A p \in Project : Cardinality(Needs(p)) \in Nat \ {0}
  BY NeedsFacts
<1>3. 0 \in T
  BY <1>2
<1>4. ASSUME NEW n \in Nat, n \in T
      PROVE  n + 1 \in T
  <2>1. ASSUME NEW p \in Project, Cardinality(Needs(p)) <= n + 1
        PROVE  RightOrder(visit[n + 1][p], p)
    <3>1. ASSUME NEW dep \in depMap[p]
          PROVE  RightOrder(visit[n][dep], dep)
      <4>1. dep \in Project /\ Cardinality(Needs(dep)) < Cardinality(Needs(p))
        BY NeedsFacts
      <4>2. Cardinality(Needs(dep)) <= n
        BY <1>2, <2>1, <4>1
      <4>3. QED
        BY <1>4, <4>1, <4>2
    <3>2. visit[n] \in Lists /\ visit[n + 1] = Visited(visit[n])
      BY <1>1
    <3>3. QED
      BY <3>1, <3>2, VisitedRight
  <2>2. n + 1 \in Nat
    OBVIOUS
  <2>3. QED
    BY <2>1, <2>2
<1>5. \A n \in Nat : n \in T
  <2> HIDE DEF T
  <2>1. QED
    BY <1>3, <1>4, SetInduction
<1> DEFINE all == Cardinality(Project)
<1>6. all \in Nat /\ Cardinality(Needs(project)) <= all
  <2>1. Needs(project) \in SUBSET Project
    BY DEF Needs
  <2>2. QED
    BY <2>1, ProjectAssumption, FS_Subset, FS_CardinalityType
<1> HIDE DEF all
<1>7. RightOrder(visit[all][project], project)
  BY <1>5, <1>6
<1>8. QED
  BY <1>1, <1>7 DEF all

-----------------------------------------------------------------------------
\* What a round of dependenciesOrder() puts behind a list.
Unready(before) == {p \in Project : p \in before \/ ~(depMap[p] \subseteq before)}
Round(list) == list \o Reverse(Without(projects, Unready(ToSet(list))))

LEMMA RoundType ==
  ASSUME projects \in Seq(Project), NEW list \in Seq(Project)
  PROVE  Round(list) \in Seq(Project)
  BY WithoutFacts, ReverseFacts, ConcatProperties DEF Round

ProjectList == Seq(Project)

LEMMA ProjectListIterates ==
  ASSUME NEW a \in ProjectList, NEW F \in [ProjectList -> ProjectList]
  PROVE  \E f \in [Nat -> ProjectList] : f[0] = a /\ \A n \in Nat : f[n + 1] = F[f[n]]
  BY IteratesExist

LEMMA OrderInRounds ==
  ASSUME projects \in Seq(Project)
  PROVE  \E ordered \in [Nat -> Seq(Project)] :
           /\ ordered[0] = <<>>
           /\ \A n \in Nat : ordered[n + 1] = Round(ordered[n])
           /\ DependenciesOrder = ordered[Len(projects)]
<1> DEFINE further == [list \in ProjectList |-> Round(list)]
<1>1. further \in [ProjectList -> ProjectList] /\ <<>> \in ProjectList
  BY RoundType DEF ProjectList
<1> HIDE DEF further
<1>2. PICK f \in [Nat -> ProjectList] : f[0] = <<>> /\ \A n \in Nat : f[n + 1] = further[f[n]]
  BY <1>1, ProjectListIterates
<1> DEFINE unready(before) == {p \in Project : p \in before \/ ~(depMap[p] \subseteq before)}
           Equation(g) ==
             g = [n \in Nat |->
                    IF n = 0 THEN <<>>
                    ELSE g[n - 1] \o Reverse(Without(projects, unready(ToSet(g[n - 1]))))]
           ordered == CHOOSE g : Equation(g)
<1>3. Equation(f)
  <2>1. ASSUME NEW n \in Nat
        PROVE  f[n] = IF n = 0 THEN <<>>
                      ELSE f[n - 1] \o Reverse(Without(projects, unready(ToSet(f[n - 1]))))
    <3>1. CASE n = 0
      BY <1>2, <3>1
    <3>2. CASE n # 0
      <4>1. n - 1 \in Nat /\ (n - 1) + 1 = n
        BY <3>2
      <4>2. f[n] = further[f[n - 1]] /\ f[n - 1] \in ProjectList
        BY <1>2, <4>1
      <4>3. f[n] = Round(f[n - 1])
        BY <4>2 DEF further
      <4>4. QED
        BY <3>2, <4>3 DEF Round, Unready
    <3>3. QED
      BY <3>1, <3>2
  <2>2. QED
    BY <1>2, <2>1, Zenon
<1>4. Equation(ordered)
  BY <1>3, Zenon
<1>5. DependenciesOrder = ordered[Len(projects)]
  BY DEF DependenciesOrder
<1> HIDE DEF ordered
<1>6. ordered[0] = <<>>
  BY <1>4
<1>7. ASSUME NEW n \in Nat
      PROVE  ordered[n + 1] = Round(ordered[n])
  <2>1. n + 1 \in Nat /\ n + 1 # 0 /\ (n + 1) - 1 = n
    OBVIOUS
  <2>2. ordered[n + 1] =
          IF n + 1 = 0 THEN <<>>
          ELSE ordered[(n + 1) - 1]
                 \o Reverse(Without(projects, unready(ToSet(ordered[(n + 1) - 1]))))
    BY <1>4, <2>1, Zenon
  <2>3. QED
    BY <2>1, <2>2 DEF Round, Unready
<1> DEFINE T == {n \in Nat : ordered[n] \in Seq(Project)}
<1>8. 0 \in T
  BY <1>1, <1>6 DEF ProjectList
<1>9. ASSUME NEW n \in Nat, n \in T
      PROVE  n + 1 \in T
  <2>1. ordered[n] \in Seq(Project) /\ n + 1 \in Nat
    BY <1>9
  <2>2. Round(ordered[n]) \in Seq(Project)
    BY <2>1, RoundType
  <2>3. QED
    BY <1>7, <2>1, <2>2
<1>10. \A n \in Nat : n \in T
  <2> HIDE DEF T
  <2>1. QED
    BY <1>8, <1>9, SetInduction
<1>11. ordered \in [Nat -> Seq(Project)]
  <2>1. \A n \in Nat : ordered[n] \in Seq(Project)
    BY <1>10
  <2>2. ordered = [n \in Nat |-> ordered[n]]
    BY <1>4, Zenon
  <2>3. QED
    BY <2>1, <2>2, Zenon
<1>12. QED
  BY <1>5, <1>6, <1>7, <1>11

\* Each round keeps the list in order and adds those that only waited for it.
OpenInOrder(list) ==
  list \in Seq(Project) /\ InOrder(list) /\ IsInjective(list) /\ ToSet(list) \subseteq OpenProjects

LEMMA RoundKeepsOrder ==
  ASSUME projects \in Seq(Project), IsInjective(projects), NEW list, OpenInOrder(list)
  PROVE  /\ OpenInOrder(Round(list))
         /\ ToSet(Round(list)) =
              ToSet(list) \union {p \in OpenProjects : depMap[p] \subseteq ToSet(list)}
<1> DEFINE S == Unready(ToSet(list))
           more == Reverse(Without(projects, S))
<1>1. list \in Seq(Project) /\ InOrder(list) /\ IsInjective(list) /\ ToSet(list) \subseteq OpenProjects
  BY DEF OpenInOrder
<1> HIDE DEF S
<1>2. /\ Without(projects, S) \in Seq(Project)
      /\ \A p : p \in ToSet(Without(projects, S)) <=> p \in OpenProjects /\ p \notin S
      /\ IsInjective(Without(projects, S))
  BY WithoutFacts DEF OpenProjects
<1>3. /\ more \in Seq(Project) /\ IsInjective(more)
      /\ \A p : p \in ToSet(more) <=> p \in OpenProjects /\ p \notin S
  BY <1>2, ReverseFacts
<1>4. Round(list) = list \o more
  BY DEF Round, S
<1> HIDE DEF more
<1>5. OpenProjects \subseteq Project
  BY ToSetOf DEF OpenProjects
<1>6. \A p : p \in ToSet(more) <=> /\ p \in OpenProjects /\ p \notin ToSet(list)
                                   /\ depMap[p] \subseteq ToSet(list)
  BY <1>3, <1>5 DEF S, Unready
<1>7. InOrder(list \o more)
  <2>1. \A i \in 1..Len(more) : more[i] \in ToSet(more)
    BY <1>3, ToSetOf
  <2>2. \A i \in 1..Len(more) : \A dep \in depMap[more[i]] : dep \in ToSet(list)
    BY <1>6, <2>1
  <2>3. QED
    BY <1>1, <1>3, <2>2, InOrderConcat
<1>8. ToSet(list) \intersect ToSet(more) = {}
  BY <1>6
<1>9. IsInjective(list \o more) /\ list \o more \in Seq(Project)
  BY <1>1, <1>3, <1>8, InjectiveConcat, ConcatProperties
<1>10. ToSet(list \o more) = ToSet(list) \union ToSet(more)
  BY <1>1, <1>3, ToSetConcat
<1>11. QED
  BY <1>1, <1>4, <1>6, <1>7, <1>9, <1>10 DEF OpenInOrder

\* As long as some are left, one of them only waits for those that are not: the one that
\* needs the fewest.
LEMMA RoundProgress ==
  ASSUME depMap \in DepMap, Acyclic, \A p \in Project : depMap[p] \subseteq OpenProjects,
         OpenProjects \subseteq Project,
         NEW done \in SUBSET OpenProjects, done # OpenProjects
  PROVE  \E p \in OpenProjects \ done : depMap[p] \subseteq done
<1> DEFINE left == OpenProjects \ done
           sizes == {Cardinality(Needs(p)) : p \in left}
<1>1. \A p \in left : p \in Project /\ Cardinality(Needs(p)) \in Nat
  BY NeedsFacts
<1>2. sizes \in SUBSET Nat /\ sizes # {}
  <2>1. left # {}
    OBVIOUS
  <2> HIDE DEF left
  <2>2. QED
    BY <1>1, <2>1
<1>3. PICK n \in sizes : \A m \in sizes : n <= m
  BY <1>2, LeastNatural
<1>4. PICK p \in left : n = Cardinality(Needs(p))
  BY <1>3
<1>5. ASSUME NEW dep \in depMap[p], dep \notin done
      PROVE  FALSE
  <2>1. dep \in left
    BY <1>1, <1>5
  <2>2. Cardinality(Needs(dep)) < Cardinality(Needs(p))
    BY <1>1, NeedsFacts
  <2>3. n <= Cardinality(Needs(dep))
    BY <1>3, <2>1
  <2>4. Cardinality(Needs(dep)) \in Nat /\ Cardinality(Needs(p)) \in Nat
    BY <1>1, <2>1
  <2>5. QED
    BY <1>4, <2>2, <2>3, <2>4
<1>6. QED
  BY <1>1, <1>5 DEF DepMap

\* A list has at least as many places as members.
LEMMA ListIsFinite ==
  ASSUME NEW S, NEW s \in Seq(S)
  PROVE  IsFiniteSet(ToSet(s)) /\ Cardinality(ToSet(s)) \in Nat /\ Cardinality(ToSet(s)) <= Len(s)
<1> DEFINE n == Len(s)
<1>1. n \in Nat /\ s \in [1..n -> S] /\ DOMAIN s = 1..n
  BY LenProperties
<1>2. s \in Surjection(1..n, ToSet(s))
  <2>1. \A e : e \in ToSet(s) <=> \E i \in 1..n : e = s[i]
    BY ToSetOf
  <2>2. s \in [1..n -> ToSet(s)]
    BY <1>1, <2>1
  <2>3. \A e \in ToSet(s) : \E i \in 1..n : s[i] = e
    BY <2>1
  <2>4. QED
    BY <2>2, <2>3 DEF Surjection
<1> HIDE DEF n
<1>3. IsFiniteSet(1..n) /\ Cardinality(1..n) = n
  BY <1>1, FS_Interval
<1>4. IsFiniteSet(ToSet(s)) /\ Cardinality(ToSet(s)) <= n
  BY <1>2, <1>3, FS_Surjection
<1>5. QED
  BY <1>4, FS_CardinalityType DEF n

LEMMA OneMore ==
  ASSUME NEW n \in Nat, NEW a \in Nat, NEW b \in Nat, n <= a, a <= b, a # b
  PROVE  n + 1 <= b
  OBVIOUS

LEMMA Between ==
  ASSUME NEW a \in Nat, NEW b \in Nat, NEW c \in Nat, a <= b, b <= c, c <= a
  PROVE  a = b
  OBVIOUS

\* After as many rounds as projects are open, all of them are ordered.
LEMMA DependenciesOrderRight ==
  ASSUME depMap \in DepMap, Acyclic, \A p \in Project : depMap[p] \subseteq OpenProjects,
         projects \in Seq(Project), IsInjective(projects)
  PROVE  OpenInOrder(DependenciesOrder) /\ ToSet(DependenciesOrder) = OpenProjects
<1>1. PICK ordered \in [Nat -> Seq(Project)] :
        /\ ordered[0] = <<>>
        /\ \A n \in Nat : ordered[n + 1] = Round(ordered[n])
        /\ DependenciesOrder = ordered[Len(projects)]
  BY OrderInRounds
<1>2. /\ OpenProjects \subseteq Project /\ IsFiniteSet(OpenProjects)
      /\ Cardinality(OpenProjects) \in Nat /\ Cardinality(OpenProjects) <= Len(projects)
  BY ToSetOf, ListIsFinite DEF OpenProjects
<1> DEFINE Far(list, n) == OpenInOrder(list) /\ (n <= Cardinality(ToSet(list)) \/ ToSet(list) = OpenProjects)
           T == {n \in Nat : Far(ordered[n], n)}
<1>3. 0 \in T
  <2>1. OpenInOrder(<<>>)
    BY ToSetShort DEF OpenInOrder, InOrder
  <2>2. Cardinality(ToSet(<<>>)) = 0
    BY ToSetShort, FS_EmptySet
  <2>3. QED
    BY <1>1, <2>1, <2>2
<1>4. ASSUME NEW n \in Nat, NEW list, Far(list, n)
      PROVE  Far(Round(list), n + 1)
  <2> DEFINE done == ToSet(list)
             more == ToSet(Round(list))
  <2>1. OpenInOrder(Round(list)) /\ more = done \union {p \in OpenProjects : depMap[p] \subseteq done}
    BY <1>4, RoundKeepsOrder
  <2>2. done \in SUBSET OpenProjects /\ more \in SUBSET OpenProjects
    BY <1>4, <2>1 DEF OpenInOrder
  <2> HIDE DEF done, more
  <2>3. CASE done = OpenProjects
    <3>1. more = OpenProjects
      BY <2>1, <2>2, <2>3
    <3>2. QED
      BY <2>1, <3>1 DEF more
  <2>4. CASE done # OpenProjects
    <3>1. PICK p \in OpenProjects \ done : depMap[p] \subseteq done
      BY <1>2, <2>2, <2>4, RoundProgress
    <3>2. p \in more /\ p \notin done /\ done \subseteq more
      BY <2>1, <3>1
    <3>3. IsFiniteSet(more) /\ IsFiniteSet(done)
      BY <1>2, <2>2, FS_Subset
    <3>4. Cardinality(done) <= Cardinality(more) /\ Cardinality(done) # Cardinality(more)
      BY <3>2, <3>3, FS_Subset
    <3>5. Cardinality(done) \in Nat /\ Cardinality(more) \in Nat
      BY <3>3, FS_CardinalityType
    <3>6. n <= Cardinality(done)
      BY <1>4, <2>4 DEF done
    <3>7. n + 1 <= Cardinality(more)
      BY <3>4, <3>5, <3>6, OneMore
    <3>8. QED
      BY <2>1, <3>7 DEF more
  <2>5. QED
    BY <2>3, <2>4
<1> HIDE DEF Far
<1>5. ASSUME NEW n \in Nat, n \in T
      PROVE  n + 1 \in T
  <2> DEFINE list == ordered[n]
             next == ordered[n + 1]
  <2>1. next = Round(list) /\ n + 1 \in Nat
    BY <1>1
  <2>2. Far(list, n)
    BY <1>5
  <2> HIDE DEF list, next
  <2>3. Far(Round(list), n + 1)
    BY <1>4, <2>2
  <2>4. Far(next, n + 1)
    BY <2>1, <2>3
  <2>5. QED
    BY <2>1, <2>4 DEF next
<1>6. \A n \in Nat : n \in T
  <2> HIDE DEF T
  <2>1. QED
    BY <1>3, <1>5, SetInduction
<1> DEFINE all == Len(projects)
           list == DependenciesOrder
<1>7. all \in Nat
  BY LenProperties
<1> HIDE DEF all
<1>8. Far(list, all)
  BY <1>1, <1>6, <1>7 DEF all
<1> HIDE DEF list
<1>9. OpenInOrder(list) /\ (all <= Cardinality(ToSet(list)) \/ ToSet(list) = OpenProjects)
  BY <1>8 DEF Far
<1>10. ASSUME all <= Cardinality(ToSet(list))
       PROVE  ToSet(list) = OpenProjects
  <2>1. ToSet(list) \in SUBSET OpenProjects
    BY <1>9 DEF OpenInOrder
  <2>2. Cardinality(ToSet(list)) <= Cardinality(OpenProjects) /\ Cardinality(ToSet(list)) \in Nat
    BY <1>2, <2>1, FS_Subset, FS_CardinalityType
  <2>3. Cardinality(ToSet(list)) = Cardinality(OpenProjects)
    <3> DEFINE a == Cardinality(ToSet(list))
               b == Cardinality(OpenProjects)
    <3>1. a \in Nat /\ b \in Nat /\ a <= b /\ b <= all /\ all <= a
      BY <1>2, <1>10, <2>2 DEF all
    <3> HIDE DEF a, b
    <3>2. a = b
      BY <1>7, <3>1, Between
    <3>3. QED
      BY <3>2 DEF a, b
  <2>4. QED
    BY <1>2, <2>1, <2>3, FS_Subset
<1>11. QED
  BY <1>9, <1>10 DEF list

-----------------------------------------------------------------------------
\* What a project depends on is open, and what was saved was saved with it; of the projects
\* of the file those that are not open have failed when the dependencies are restored.
DependInv ==
  /\ \A p \in Project : depMap[p] \subseteq OpenProjects
  /\ \A p \in Project : file.deps[p] \subseteq ToSet(file.list)
  /\ phase = "dependencies" => ToSet(file.list) \subseteq OpenProjects \union ToSet(failedProjects)

LEMMA DependInit == Init => DependInv
  BY DEF Init, DependInv, NoDependencies

\* What is saved, be it to go to another session, is saved with what it depends on.
LEMMA SavedDepends ==
  ASSUME SessionInv, DependInv, Running
  PROVE  \A p \in Project : Saved.deps[p] \subseteq ToSet(Saved.list)
<1>1. ToSet(Saved.list) = OpenProjects \union ToSet(failedProjects)
  BY SavedFacts
<1>2. QED
  BY <1>1 DEF Saved, DependInv

LEMMA LoadSessionDepends ==
  ASSUME NEW f, LoadSession(f), \A p \in Project : f.deps[p] \subseteq ToSet(f.list)
  PROVE  DependInv'
  BY DEF LoadSession, DependInv, NoDependencies

LEMMA DependNext ==
  ASSUME SessionInv, DependInv, [Next]_sessionVars
  PROVE  DependInv'
<1>1. /\ projects \in Seq(Project) /\ failedProjects \in Seq(Project)
      /\ depMap \in [Project -> SUBSET Project]
  BY DEF SessionInv, TypeOK
\* Steps that leave the dependencies alone, and open no fewer projects.
<1>2. ASSUME UNCHANGED <<depMap, file>>, OpenProjects \subseteq OpenProjects',
             phase' = "dependencies" => phase = "dependencies" /\ failedProjects' = failedProjects
      PROVE  DependInv'
  BY <1>2 DEF DependInv
<1>3. ASSUME NEW p \in Project, AddProject(p) \/ SetStartupProject(p)
      PROVE  DependInv'
  <2>1. OpenProjects \subseteq OpenProjects'
    <3>1. projects' = Append(projects, p) \/ projects' = projects
      BY <1>3 DEF AddProject, SetStartupProject
    <3>2. ToSet(Append(projects, p)) = ToSet(projects) \union {p}
      BY <1>1, AppendFacts
    <3>3. QED
      BY <3>1, <3>2 DEF OpenProjects
  <2>2. QED
    BY <1>2, <1>3, <2>1 DEF AddProject, SetStartupProject, KeepFile
\* Steps of a running session that change the dependencies.
<1>4. ASSUME phase = "running", KeepFile, \A p \in Project : depMap'[p] \subseteq OpenProjects'
      PROVE  DependInv'
  BY <1>4 DEF DependInv, KeepFile
<1>5. ASSUME NEW S \in SUBSET Project, RemoveProjects(S)
      PROVE  DependInv'
  <2>1. \A p : p \in OpenProjects' <=> p \in OpenProjects /\ p \notin S
    BY <1>1, <1>5, WithoutFacts DEF RemoveProjects, OpenProjects
  <2>2. \A p \in Project : depMap'[p] \subseteq OpenProjects \ S
    BY <1>5 DEF RemoveProjects
  <2>3. QED
    BY <1>4, <1>5, <2>1, <2>2 DEF RemoveProjects, Running
<1>6. ASSUME NEW p \in Project, NEW dep \in Project, AddDependency(p, dep) \/ RemoveDependency(p, dep)
      PROVE  DependInv'
  <2>1. \A q \in Project : depMap'[q] \subseteq depMap[q] \union (OpenProjects \intersect {dep})
    BY <1>1, <1>6 DEF AddDependency, RemoveDependency
  <2>2. OpenProjects' = OpenProjects
    BY <1>6 DEF AddDependency, RemoveDependency, OpenProjects
  <2>3. QED
    BY <1>4, <1>6, <2>1, <2>2 DEF AddDependency, RemoveDependency, Running, DependInv
<1>7. CASE Save
  <2>1. \A p \in Project : Saved.deps[p] \subseteq ToSet(Saved.list)
    BY <1>7, SavedDepends DEF Save
  <2>2. QED
    BY <1>7, <2>1 DEF Save, DependInv, OpenProjects, Running
<1>8. CASE Restart
  BY <1>8, LoadSessionDepends DEF Restart, DependInv
<1>9. CASE SwitchSession
  BY <1>9, SavedDepends, LoadSessionDepends DEF SwitchSession
<1>10. CASE RestoreProject
  <2>1. OpenProjects \subseteq OpenProjects'
    <3>1. Head(opening) \in Project
      BY <1>10, HeadTailProperties DEF RestoreProject, SessionInv, TypeOK
    <3>2. projects' = Append(projects, Head(opening)) \/ projects' = projects
      BY <1>10 DEF RestoreProject
    <3>3. ToSet(Append(projects, Head(opening))) = ToSet(projects) \union {Head(opening)}
      BY <1>1, <3>1, AppendFacts
    <3>4. QED
      BY <3>2, <3>3 DEF OpenProjects
  <2>2. QED
    BY <1>2, <1>10, <2>1 DEF RestoreProject
<1>11. CASE RestoredProjects
  <2>1. failedProjects = file.list
    BY <1>11 DEF RestoredProjects, SessionInv, Opening
  <2>2. \A p : p \in ToSet(failedProjects') <=> p \in ToSet(file.list) /\ p \notin OpenProjects
    BY <1>1, <1>11, <2>1, WithoutFacts DEF RestoredProjects
  <2>3. QED
    BY <1>11, <2>2 DEF RestoredProjects, DependInv, OpenProjects
<1>12. CASE RestoreDependency
  <2>1. /\ phase = "dependencies"
        /\ UNCHANGED <<projects, failedProjects, file, phase>>
    BY <1>12 DEF RestoreDependency
  <2>2. PICK key : depMap' = depMap \/ depMap' = [depMap EXCEPT ![key] = RestoredDependencies(key)]
    BY <1>12 DEF RestoreDependency
  <2>3. \A p \in Project : RestoredDependencies(p) \subseteq OpenProjects
    BY <2>1 DEF RestoredDependencies, DependInv
  <2>4. \A p \in Project : depMap'[p] \subseteq OpenProjects
    <3>1. \A p \in Project : depMap'[p] \in {depMap[p], RestoredDependencies(p)}
      BY <1>1, <2>2
    <3>2. QED
      BY <2>3, <3>1 DEF DependInv
  <2>5. QED
    BY <2>1, <2>4 DEF DependInv, OpenProjects
<1>13. CASE RestoreStartupProject \/ AskUserAboutFailedProjects \/ UNCHANGED sessionVars
  BY <1>2, <1>13 DEF RestoreStartupProject, AskUserAboutFailedProjects, sessionVars, OpenProjects
<1>14. \A S \in {{p} : p \in OpenProjects} \union {OpenProjects} : S \in SUBSET Project
  BY <1>1, ToSetOf DEF OpenProjects
<1>15. QED
  BY <1>3, <1>5, <1>6, <1>7, <1>8, <1>9, <1>10, <1>11, <1>12, <1>13, <1>14 DEF Next, Load

\* With what is open and has no circles the orders are right.
LEMMA OrdersAreRight ==
  ASSUME AcyclicInv, SessionInv, DependInv
  PROVE  BuildOrderIsRight
<1>1. /\ depMap \in DepMap /\ Acyclic /\ \A p \in Project : depMap[p] \subseteq OpenProjects
      /\ projects \in Seq(Project) /\ IsInjective(projects)
  BY DEF AcyclicInv, Acyclic, SessionInv, TypeOK, NoneTwice, DependInv
<1>2. OpenInOrder(DependenciesOrder) /\ ToSet(DependenciesOrder) = OpenProjects
  BY <1>1, DependenciesOrderRight
<1>3. ASSUME NEW p \in OpenProjects
      PROVE  RightOrder(ProjectOrder(p), p)
  <2>1. OpenProjects \in SUBSET Project /\ p \in Project
    BY <1>1, ToSetOf DEF OpenProjects
  <2>2. RightOrder(Dependencies(p), p)
    BY <1>1, <2>1, DependenciesRight
  <2>3. Closed(depMap, OpenProjects)
    BY <1>1, <2>1 DEF Closed
  <2>4. Needs(p) \subseteq OpenProjects
    BY <2>1, <2>3 DEF Needs, DependsOn
  <2>5. ToSet(Dependencies(p)) \intersect (Project \ OpenProjects) = {}
    BY <2>2, <2>4 DEF RightOrder
  <2>6. ProjectOrder(p) = Dependencies(p)
    BY <2>2, <2>5, WithoutNothing DEF ProjectOrder, RightOrder
  <2>7. QED
    BY <2>2, <2>6
<1>4. QED
  BY <1>2, <1>3 DEF BuildOrderIsRight, OpenInOrder, RightOrder, Needs

\* Whatever has been edited, saved and restored in part, the session is built with every
\* project once and behind all it depends on, and a project with all it depends on, before
\* it, and nothing else (dependenciesOrder, projectOrder).
THEOREM SessionBuildOrder == Spec => []BuildOrderIsRight
<1>1. AcyclicInv /\ SessionInv /\ DependInv => BuildOrderIsRight
  BY OrdersAreRight
<1>2. Spec => [](AcyclicInv /\ SessionInv /\ DependInv)
  <2>1. Init => AcyclicInv /\ SessionInv /\ DependInv
    BY AcyclicInit, SessionInit, DependInit
  <2>2. AcyclicInv /\ SessionInv /\ DependInv /\ [Next]_sessionVars =>
          (AcyclicInv /\ SessionInv /\ DependInv)'
    BY AcyclicNext, SessionNext, DependNext
  <2>3. QED
    BY <2>1, <2>2, PTL DEF Spec
<1>3. QED
  BY <1>1, <1>2, PTL
=============================================================================
