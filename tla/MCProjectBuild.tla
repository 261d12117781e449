--------------------------- MODULE MCProjectBuild ----------------------------
(***************************************************************************)
(* Instances of ProjectBuild for TLC.                                       *)
(***************************************************************************)
EXTENDS ProjectBuild

\* Two steps to build a project, and two to deploy the first one.
TwoSteps ==
  [p \in Project |-> [id \in Id |->
     IF id = "build" \/ (id = "deploy" /\ p = 1) THEN 2 ELSE 0]]

OneStep == [p \in Project |-> [id \in Id |-> IF id = "build" THEN 1 ELSE 0]]
=============================================================================
